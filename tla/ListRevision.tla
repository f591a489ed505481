---------------------------- MODULE ListRevision ----------------------------
(***************************************************************************)
(* How a browser learns that its list of keys is old.                      *)
(*                                                                         *)
(* db/_store.py gives the list an opaque revision, made of a generation    *)
(* that every write bumps and of a few aggregates of tbl_keys; with MySQL  *)
(* it keeps the revision and the pages in Redis.  services/list_events.py  *)
(* and the event stream of api/handler.py push the revision of a write to  *)
(* the browser, static/app.js also polls for it, and both only raise the   *)
(* mark "updates found" when it is not the revision the list came with.    *)
(*                                                                         *)
(* The contents of the table are a number, rows, that every write makes    *)
(* larger; stamp stands for the aggregates: an edit may leave them alone,  *)
(* change them, or take them back to earlier values, an import takes them  *)
(* where they never were (an id is not used twice).  _list_generation += 1 *)
(* is one step: the interpreter switches threads at calls and loops.       *)
(***************************************************************************)
EXTENDS Integers, Sequences, FiniteSets

CONSTANTS
    Editors,    \* threads that change or delete keys, once each
    Importers,  \* threads that add keys, once each
    Readers,    \* HTTP threads that answer the browser
    Stream,     \* the HTTP thread of the event stream
    None,       \* no revision, no reader
    Redis,      \* is the read-through cache in use?
    MaxAsks,    \* how often the user loads a page
    MaxQueue,   \* events on their way to the browser
    MaxPages,   \* first pages in the cache
    MaxConnects \* how often the stream is opened

ASSUME ListRevisionAssumption ==
    /\ Editors \cap Importers = {} /\ Readers \cap (Editors \cup Importers) = {}
    /\ Stream \notin Editors \cup Importers \cup Readers /\ None \notin Readers
    /\ Redis \in BOOLEAN /\ MaxAsks \in Nat /\ MaxQueue \in Nat \ {0}
    /\ MaxPages \in Nat /\ MaxConnects \in Nat

VARIABLES
    rows, stamp,  \* tbl_keys: what the list shows, and what get_list_revision selects
    gen,          \* _list_generation
    seq, last,    \* list_events._seq, _revision
    revCache,     \* the cached revision
    pageCache,    \* the cached first pages, named by their revisions
    thr,          \* the threads and their locals
    heard,        \* the stream's seq
    queue,        \* revisions the stream has written and the browser has not read
    browser,      \* state of app.js
    asks, connects

vars == <<rows, stamp, gen, seq, last, revCache, pageCache, thr, heard, queue, browser, asks, connects>>
table == <<rows, stamp>>
events == <<seq, last>>
cache == <<revCache, pageCache>>
stream == <<heard, queue, connects>>

Writers == Editors \cup Importers
Threads == Writers \cup Readers \cup {Stream}
Revision == [gen : Nat, stamp : Nat]
Page == [rev : Revision, version : Nat]

TypeOK ==
    /\ rows \in Nat /\ stamp \in 0..rows /\ gen \in Nat /\ seq \in Nat /\ heard \in Nat /\ asks \in Nat /\ connects \in Nat
    /\ last \in Revision \cup {None} /\ revCache \in Revision \cup {None}
    /\ pageCache \subseteq Page
    /\ thr \in [Threads -> [pc : {"idle", "commit", "bump", "purge", "ask", "queried", "formatted",
                                  "got", "read", "answer", "listening", "done"},
                            job : {"none", "edit", "import", "load", "append", "poll", "stream"},
                            stamp : Nat, rev : Revision \cup {None}, version : Nat]]
    /\ queue \in Seq(Revision)
    /\ browser \in [rev : Revision, head : Nat, appended : BOOLEAN, pending : BOOLEAN,
                    awaiting : Readers \cup {None}]

Idle == [pc |-> "idle", job |-> "none", stamp |-> 0, rev |-> None, version |-> 0]
First == [gen |-> 0, stamp |-> 0]

\* The browser has booted: it shows the first page and is about to open the stream.
Init ==
    /\ rows = 0 /\ stamp = 0 /\ gen = 0 /\ seq = 0 /\ last = None
    /\ revCache = IF Redis THEN First ELSE None
    /\ pageCache = IF Redis /\ MaxPages > 0 THEN {[rev |-> First, version |-> 0]} ELSE {}
    /\ thr = [x \in Threads |-> Idle]
    /\ heard = 0 /\ queue = <<>> /\ asks = 0 /\ connects = 0
    /\ browser = [rev |-> First, head |-> 0, appended |-> FALSE, pending |-> FALSE, awaiting |-> None]

At(x, pc) == thr[x].pc = pc
Goes(x, pc) == thr' = [thr EXCEPT ![x].pc = pc]

------------------------------------------------------------------------------
(* Writers *)

\* add_keys_batch: touch_list_generation is called before the transaction commits.
BeginImport(w) ==
    /\ w \in Importers /\ At(w, "idle")
    /\ thr' = [thr EXCEPT ![w] = [Idle EXCEPT !.pc = "bump", !.job = "import"]]
    /\ UNCHANGED <<table, gen, events, cache, stream, browser, asks>>

\* Slip: neither the count nor the largest id is part of the revision.
CommitImportUncounted(w) ==
    /\ At(w, "commit")
    /\ rows' = rows + 1 /\ UNCHANGED stamp
    /\ Goes(w, "done")
    /\ UNCHANGED <<gen, events, cache, stream, browser, asks>>

CommitImport(w) ==
    /\ At(w, "commit")
    /\ rows' = rows + 1 /\ stamp' = rows'
    /\ Goes(w, "done")
    /\ UNCHANGED <<gen, events, cache, stream, browser, asks>>

\* Every other write commits first.
CommitEdit(w) ==
    /\ w \in Editors /\ At(w, "idle")
    /\ rows' = rows + 1
    /\ stamp' \in 0..rows'
    /\ thr' = [thr EXCEPT ![w] = [Idle EXCEPT !.pc = "bump", !.job = "edit"]]
    /\ UNCHANGED <<gen, events, cache, stream, browser, asks>>

\* touch_list_generation: the generation, the cache, the revision, the event.
Bump(w) ==
    /\ At(w, "bump")
    /\ gen' = gen + 1
    /\ Goes(w, IF Redis THEN "purge" ELSE "ask")
    /\ UNCHANGED <<table, events, cache, stream, browser, asks>>

\* _invalidate_public_cache scans for the names of the pages and then deletes them
\* with the revision: pages that were stored in between stay.  When Redis does not
\* answer everything stays.
Purge(w) ==
    /\ At(w, "purge")
    /\ \/ revCache' = None /\ pageCache' \in SUBSET pageCache
       \/ UNCHANGED cache
    /\ Goes(w, "ask")
    /\ UNCHANGED <<table, gen, events, stream, browser, asks>>

Notified(w) ==
    thr' = [thr EXCEPT ![w] = [Idle EXCEPT !.pc = IF thr[w].job = "import" THEN "commit" ELSE "done"]]

\* notify_list_changed.
Notify(w) ==
    /\ w \in Writers /\ At(w, "got")
    /\ seq' = seq + 1 /\ last' = thr[w].rev
    /\ Notified(w)
    /\ UNCHANGED <<table, gen, cache, stream, browser, asks>>

\* An exception of get_list_revision is swallowed, and the event with it.
NotifyNobody(w) ==
    /\ w \in Writers /\ At(w, "ask")
    /\ Notified(w)
    /\ UNCHANGED <<table, gen, events, cache, stream, browser, asks>>

------------------------------------------------------------------------------
(* get_list_revision *)

AskCache(x) ==
    /\ At(x, "ask") /\ revCache # None
    /\ thr' = [thr EXCEPT ![x].pc = "got", ![x].rev = revCache]
    /\ UNCHANGED <<table, gen, events, cache, stream, browser, asks>>

Query(x) ==
    /\ At(x, "ask") /\ revCache = None
    /\ thr' = [thr EXCEPT ![x].pc = "queried", ![x].stamp = stamp]
    /\ UNCHANGED <<table, gen, events, cache, stream, browser, asks>>

Format(x) ==
    /\ At(x, "queried")
    /\ thr' = [thr EXCEPT ![x].pc = IF Redis THEN "formatted" ELSE "got",
                          ![x].rev = [gen |-> gen, stamp |-> thr[x].stamp], ![x].stamp = 0]
    /\ UNCHANGED <<table, gen, events, cache, stream, browser, asks>>

Store(x) ==
    /\ At(x, "formatted")
    /\ revCache' = thr[x].rev
    /\ Goes(x, "got")
    /\ UNCHANGED <<table, gen, events, pageCache, stream, browser, asks>>

\* setex: entries live for 15 and 60 seconds.  A store or a question that Redis does
\* not answer is taken for an entry that expired.
RevisionExpires ==
    /\ revCache # None /\ revCache' = None
    /\ UNCHANGED <<table, gen, events, pageCache, thr, stream, browser, asks>>

PageExpires ==
    /\ \E p \in pageCache : pageCache' = pageCache \ {p}
    /\ UNCHANGED <<table, gen, events, revCache, thr, stream, browser, asks>>

------------------------------------------------------------------------------
(* The requests of the browser *)

\* request(..., {latest: true}): a new request aborts the one that is under way.  Pages
\* are not appended while one is, and a poll is over before the timer's next.
Request(r, what) ==
    /\ At(r, "idle") /\ what \in {"load", "append", "poll"}
    /\ LET busy == IF browser.awaiting = None THEN "none" ELSE thr[browser.awaiting].job
       IN what \in {"append", "poll"} => busy # what
    /\ what # "poll" => asks < MaxAsks
    /\ asks' = IF what = "poll" THEN asks ELSE asks + 1
    /\ thr' = [thr EXCEPT ![r] = [Idle EXCEPT !.pc = "ask", !.job = what]]
    /\ browser' = [browser EXCEPT !.awaiting = r]
    /\ UNCHANGED <<table, gen, events, cache, stream>>

\* list_keys_page: the page is asked for, and read, after its revision.
PageHit(r) ==
    /\ r \in Readers /\ At(r, "got") /\ thr[r].job = "load"
    /\ \E p \in pageCache :
          /\ p.rev = thr[r].rev
          /\ thr' = [thr EXCEPT ![r].pc = "answer", ![r].version = p.version]
    /\ UNCHANGED <<table, gen, events, cache, stream, browser, asks>>

PageRead(r) ==
    /\ r \in Readers /\ At(r, "got") /\ thr[r].job = "load"
    /\ thr' = [thr EXCEPT ![r].pc = IF Redis THEN "read" ELSE "answer", ![r].version = rows]
    /\ UNCHANGED <<table, gen, events, cache, stream, browser, asks>>

PageStore(r) ==
    /\ At(r, "read")
    /\ LET kept == {p \in pageCache : p.rev # thr[r].rev}
       IN pageCache' = IF Cardinality(kept) < MaxPages
                       THEN kept \cup {[rev |-> thr[r].rev, version |-> thr[r].version]}
                       ELSE kept
    /\ Goes(r, "answer")
    /\ UNCHANGED <<table, gen, events, revCache, stream, browser, asks>>

\* A poll and the next page need no first page; the rows of the next page are not followed.
NoPage(r) ==
    /\ r \in Readers /\ At(r, "got") /\ thr[r].job \in {"append", "poll"}
    /\ Goes(r, "answer")
    /\ UNCHANGED <<table, gen, events, cache, stream, browser, asks>>

\* Slip: a poll takes the revision over instead of raising the mark.
TakenTakingOver(t) ==
    CASE t.job = "load" ->
           [browser EXCEPT !.rev = t.rev, !.head = t.version, !.appended = FALSE,
                           !.pending = FALSE, !.awaiting = None]
      [] t.job = "append" ->
           [browser EXCEPT !.rev = t.rev, !.appended = TRUE, !.pending = FALSE, !.awaiting = None]
      [] t.job = "poll" -> [browser EXCEPT !.rev = t.rev, !.awaiting = None]

\* load: what the browser makes of an answer.
Taken(t) ==
    CASE t.job = "load" ->
           [browser EXCEPT !.rev = t.rev, !.head = t.version, !.appended = FALSE,
                           !.pending = FALSE, !.awaiting = None]
      [] t.job = "append" ->
           [browser EXCEPT !.rev = t.rev, !.appended = TRUE, !.pending = FALSE, !.awaiting = None]
      [] t.job = "poll" ->
           [browser EXCEPT !.pending = @ \/ t.rev # browser.rev, !.awaiting = None]

\* Only the latest request's answer counts.
Answer(r) ==
    /\ At(r, "answer")
    /\ browser' = IF browser.awaiting = r THEN Taken(thr[r]) ELSE browser
    /\ thr' = [thr EXCEPT ![r] = Idle]
    /\ UNCHANGED <<table, gen, events, cache, stream, asks>>

\* A request that fails, or during which the browser sends a request of any kind, leaves
\* the list as it is.  (Had it failed before, the rest of its steps would only have filled
\* the cache.)
Break(r) ==
    /\ At(r, "answer")
    /\ browser' = IF browser.awaiting = r THEN [browser EXCEPT !.awaiting = None] ELSE browser
    /\ thr' = [thr EXCEPT ![r] = Idle]
    /\ UNCHANGED <<table, gen, events, cache, stream, asks>>

------------------------------------------------------------------------------
(* The event stream *)

\* _sse_keys_events: the sequence number first, then the revision.
Connect ==
    /\ At(Stream, "idle") /\ connects < MaxConnects
    /\ connects' = connects + 1
    /\ heard' = seq
    /\ thr' = [thr EXCEPT ![Stream] = [Idle EXCEPT !.pc = "ask", !.job = "stream"]]
    /\ UNCHANGED <<table, gen, events, cache, queue, browser, asks>>

SendFirst ==
    /\ At(Stream, "got")
    /\ queue' = Append(queue, thr[Stream].rev)
    /\ thr' = [thr EXCEPT ![Stream] = [Idle EXCEPT !.pc = "listening", !.job = "stream"]]
    /\ UNCHANGED <<table, gen, events, cache, heard, connects, browser, asks>>

\* wait_list_change returns with the last of the revisions published meanwhile.
Wake ==
    /\ At(Stream, "listening") /\ heard # seq /\ Len(queue) < MaxQueue
    /\ heard' = seq
    /\ queue' = Append(queue, last)
    /\ UNCHANGED <<table, gen, events, cache, thr, connects, browser, asks>>

\* The listener of "revision" in app.js.
Hear ==
    /\ queue # <<>>
    /\ browser' = [browser EXCEPT !.pending = @ \/ Head(queue) # browser.rev]
    /\ queue' = Tail(queue)
    /\ UNCHANGED <<table, gen, events, cache, thr, heard, connects, asks>>

\* EventSource connects again by itself.
Drop ==
    /\ ~At(Stream, "idle")
    /\ thr' = [thr EXCEPT ![Stream] = Idle]
    /\ queue' = <<>> /\ heard' = 0
    /\ UNCHANGED <<table, gen, events, cache, connects, browser, asks>>

------------------------------------------------------------------------------
RevisionStep(x) == AskCache(x) \/ Query(x) \/ Format(x) \/ Store(x)
WriterStep(w) == CommitImport(w) \/ Bump(w) \/ Purge(w) \/ Notify(w) \/ NotifyNobody(w) \/ RevisionStep(w)
ReaderStep(r) == RevisionStep(r) \/ PageHit(r) \/ PageRead(r) \/ PageStore(r) \/ NoPage(r) \/ Answer(r)
StreamStep == Connect \/ RevisionStep(Stream) \/ SendFirst \/ Wake

Next ==
    \/ \E w \in Writers : BeginImport(w) \/ CommitEdit(w) \/ WriterStep(w)
    \/ \E r \in Readers : ReaderStep(r) \/ Break(r) \/ \E what \in {"load", "append", "poll"} : Request(r, what)
    \/ StreamStep \/ Hear \/ Drop
    \/ RevisionExpires \/ PageExpires

Spec == Init /\ [][Next]_vars

\* Threads run on, cached values expire, the timer of the browser polls when no poll is
\* under way, and answers do not fail for ever.  Nothing is asked of the event stream.
Fairness ==
    /\ \A w \in Writers : WF_vars(WriterStep(w))
    /\ \A r \in Readers : WF_vars(ReaderStep(r)) /\ SF_vars(Answer(r))
    /\ WF_vars(\E r \in Readers : Request(r, "poll"))
    /\ WF_vars(RevisionExpires)

FairSpec == Spec /\ Fairness

------------------------------------------------------------------------------
(* Properties *)

\* No write is between its commit and its new generation.
Settled == \A w \in Writers : thr[w].job = "edit" => ~At(w, "bump")
Current == [gen |-> gen, stamp |-> stamp]

PagesAbout ==
    pageCache
    \cup {[rev |-> thr[r].rev, version |-> thr[r].version] :
             r \in {x \in Readers : thr[x].job = "load" /\ thr[x].pc \in {"read", "answer"}}}
    \cup (IF browser.appended THEN {} ELSE {[rev |-> browser.rev, version |-> browser.head]})

\* The revision identifies the list: whoever holds a page, in a cache, on its way or on
\* the screen, under the revision of the moment holds the rows of the moment.
RevisionIdentifies ==
    Settled => \A p \in PagesAbout : p.rev = Current => p.version = rows

\* A browser with an old first page comes to say so, or to show a new one, by polling
\* alone, whatever becomes of the events and however old cached values are.
Old == ~browser.appended /\ ~browser.pending /\ browser.head # rows
OldIsMarked == Old ~> ~Old
==============================================================================
