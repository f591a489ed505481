-------------------------------- MODULE KeyTable --------------------------------
(***************************************************************************)
(* The rows of tbl_keys in the order the list shows them (db/_store.py):   *)
(* requests that add, move and delete rows, and one that reads the list    *)
(* page by page between them. A request reads outside the transaction in   *)
(* which it writes.                                                        *)
(***************************************************************************)
EXTENDS Integers, FiniteSets, SequencesExt
LOCAL O == INSTANCE ListFilter

CONSTANTS
  Actors,    \* the requests
  Pairs,     \* the values of <<base_url, api_key>>
  Batches,   \* what an import may bring: sequences of pairs
  Casts,     \* which kind of request each actor is
  Sorts,     \* the values of the parameter sort
  Limit,     \* rows per page
  MaxId, MaxClock

ASSUME BoundsAssumption == Limit \in Nat \ {0} /\ MaxId \in Nat /\ MaxClock \in Nat
ASSUME BatchesAssumption == Batches \subseteq Seq(Pairs)
ASSUME SortsAssumption == Sorts \subseteq {"default", "created_desc", "created_asc"}

VARIABLES
  rows,      \* id -> [pair, order, created, by]; by is history: who inserted it
  nextId, clock,
  cast,      \* actor -> its kind
  pc,        \* actor -> what it does next
  loc,       \* actor -> its local variables
  disturbed, \* history: actors during whose request another one has written
  overlap,   \* history: pairs of batches of which one looked before the other inserted
  page,      \* the pager: its sort, where it is, and the place its cursor names
  start,     \* history: the rows when the walk began
  shown,     \* history: ids that a page of the walk has shown
  again,     \* history: ids that two of them have shown
  moved      \* history: ids whose place in the walk's order was changed during it
pagerVars == <<page, start, shown, again>>
vars == <<rows, nextId, clock, cast, pc, loc, disturbed, overlap, pagerVars, moved>>

Ids == DOMAIN rows
PairsOf(t) == {t[i].pair : i \in DOMAIN t}

--------------------------------------------------------------------------------
(* Order and pages                                                         *)

(* A place: what _SORT_ORDER_BY and the cursor look at. anchor is          *)
(* sort_order, or created_at.                                              *)
Place(sort, t, i) ==
  IF sort = "default"
  THEN [group |-> IF t[i].order = 0 THEN 1 ELSE 0, anchor |-> t[i].order, id |-> i]
  ELSE [group |-> 0, anchor |-> t[i].created, id |-> i]

NoPlace == [group |-> 0, anchor |-> 0, id |-> 0]

(* _SORT_ORDER_BY: y comes after x                                         *)
Behind(sort, y, x) ==
  \/ /\ sort = "default"
     /\ \/ y.group > x.group
        \/ y.group = x.group /\ y.anchor > x.anchor
        \/ y.group = x.group /\ y.anchor = x.anchor /\ y.id < x.id
  \/ sort = "created_desc" /\ (y.anchor < x.anchor \/ (y.anchor = x.anchor /\ y.id < x.id))
  \/ sort = "created_asc" /\ (y.anchor > x.anchor \/ (y.anchor = x.anchor /\ y.id > x.id))

(* list_keys_page: the condition a cursor c adds for a row at p            *)
PastCursorNoTie(sort, c, p) ==
  \/ sort = "default" /\ (p.group > c.group \/ (p.group = c.group /\ p.anchor > c.anchor))
  \/ sort = "created_desc" /\ p.anchor < c.anchor
  \/ sort = "created_asc" /\ p.anchor > c.anchor
PastCursor(sort, c, p) ==
  \/ /\ sort = "default"
     /\ \/ p.group > c.group
        \/ p.group = c.group /\ (p.anchor > c.anchor \/ (p.anchor = c.anchor /\ p.id < c.id))
  \/ sort = "created_desc" /\ (p.anchor < c.anchor \/ (p.anchor = c.anchor /\ p.id < c.id))
  \/ sort = "created_asc" /\ (p.anchor > c.anchor \/ (p.anchor = c.anchor /\ p.id > c.id))

(* S are the first Limit of the rows in C                                  *)
FirstOf(sort, t, C, S) ==
  /\ S \subseteq C
  /\ \A s \in S : \A c \in C \ S : Behind(sort, Place(sort, t, c), Place(sort, t, s))
  /\ IF Cardinality(C) <= Limit THEN S = C ELSE Cardinality(S) = Limit

(* S in the order R, a set of pairs: the n-th has n - 1 before it          *)
InOrder(S, R) ==
  [n \in 1..Cardinality(S) |-> CHOOSE x \in S : Cardinality({y \in S : <<y, x>> \in R}) = n - 1]
Precedes(t) ==
  {ij \in (DOMAIN t) \X (DOMAIN t) : Behind("default", Place("default", t, ij[2]), Place("default", t, ij[1]))}
Listed(t) == InOrder(DOMAIN t, Precedes(t))

(* _next_sort_order                                                        *)
NextOrderThroughZero(t) ==
  IF DOMAIN t = {} THEN 10 ELSE Min({t[i].order : i \in DOMAIN t}) - 10
NextOrder(t) ==
  IF DOMAIN t = {} THEN 10
  ELSE LET next == Min({t[i].order : i \in DOMAIN t}) - 10 IN IF next = 0 THEN -10 ELSE next

--------------------------------------------------------------------------------
(* Tables the program can start from: no row, rows from before sort_order  *)
(* existed, rows that were reordered                                       *)
OldRow(p, o) == [pair |-> p, order |-> o, created |-> 0, by |-> "old"]
Tables ==
  {<<>>} \union {[i \in {1} |-> OldRow(p, 0)] : p \in Pairs}
  \union {[i \in {1, 2} |-> OldRow(f[i], o[i])] :
            f \in {g \in [{1, 2} -> Pairs] : g[1] # g[2]}, o \in {<<0, 0>>, <<20, 10>>}}

NoLocal == [items |-> <<>>, existing |-> {}, order |-> 0, ids |-> <<>>]

TableInit ==
  /\ rows \in Tables
  /\ nextId = Cardinality(DOMAIN rows) + 1 /\ clock = 0
  /\ cast \in Casts
  /\ pc = [a \in Actors |-> "start"] /\ loc = [a \in Actors |-> NoLocal]
  /\ disturbed = {} /\ overlap = {}
  /\ page \in [sort : Sorts, at : {"first"}, cursor : {NoPlace}]
  /\ (\A a \in Actors : cast[a] # "pager") => page.sort = "default"
  /\ start = <<>> /\ shown = {} /\ again = {} /\ moved = {}

Busy(a) == pc[a] \notin {"start", "done"}
Goto(a, l) == pc' = [pc EXCEPT ![a] = l]
Ordering == {"order", "insert"}

(* Another request's write                                                 *)
Disturb(a) == disturbed' = disturbed \union {b \in Actors \ {a} : Busy(b)}
Unwritten == UNCHANGED <<rows, nextId, disturbed, moved>>

(* POST /api/keys and the import: what is added                            *)
Ask(a) ==
  /\ pc[a] = "start"
  /\ \/ /\ cast[a] = "add" /\ Goto(a, "order")
        /\ \E p \in Pairs : loc' = [loc EXCEPT ![a].items = <<p>>]
     \/ /\ cast[a] = "batch" /\ Goto(a, "look")
        /\ \E b \in Batches : loc' = [loc EXCEPT ![a].items = b]
  /\ Unwritten /\ UNCHANGED <<clock, cast, overlap, pagerVars>>

(* add_keys_batch: SELECT base_url,api_key                                 *)
Look(a) ==
  /\ pc[a] = "look"
  /\ loc' = [loc EXCEPT ![a].existing = PairsOf(rows)]
  /\ overlap' = overlap \union {{a, b} : b \in {c \in Actors \ {a} : cast[c] # "add" /\ pc[c] \in Ordering}}
  /\ Goto(a, "order")
  /\ Unwritten /\ UNCHANGED <<clock, cast, pagerVars>>

(* add_key, add_keys_batch: SELECT MIN(sort_order)                         *)
ReadOrder(a) ==
  /\ pc[a] = "order"
  /\ loc' = [loc EXCEPT ![a].order = NextOrder(rows)]
  /\ Goto(a, "insert")
  /\ Unwritten /\ UNCHANGED <<clock, cast, overlap, pagerVars>>

(* The items that are new to the table and to the batch                    *)
FreshUnlessListed(items, existing) == SelectSeq(items, LAMBDA p : p \notin existing)
Firsts(items, existing) ==
  {n \in DOMAIN items : items[n] \notin existing /\ \A m \in 1..(n - 1) : items[m] # items[n]}
Fresh(items, existing) ==
  LET new == Firsts(items, existing)
      order == InOrder(new, {mn \in new \X new : mn[1] < mn[2]})
  IN  [k \in DOMAIN order |-> items[order[k]]]

(* The rows with new ones for pairs, ten apart from loc.order              *)
WithOneOrder(a, pairs, new) ==
  [i \in Ids \union new |->
     IF i \in Ids THEN rows[i]
     ELSE [pair |-> pairs[i - nextId + 1], order |-> loc[a].order, created |-> clock, by |-> a]]
With(a, pairs, new) ==
  [i \in Ids \union new |->
     IF i \in Ids THEN rows[i]
     ELSE [pair |-> pairs[i - nextId + 1], order |-> loc[a].order + 10 * (i - nextId),
           created |-> clock, by |-> a]]

Insert(a, after) ==
  LET pairs == IF cast[a] = "add" THEN loc[a].items ELSE Fresh(loc[a].items, loc[a].existing) IN
  /\ pc[a] = "insert"
  /\ nextId' = nextId + Len(pairs) /\ nextId' \in nextId..(MaxId + 1)
  /\ rows' = With(a, pairs, nextId..(nextId' - 1))
  /\ Disturb(a) /\ Goto(a, after)
  /\ UNCHANGED <<clock, cast, loc, overlap, pagerVars, moved>>

(* move_key_before, reorder_keys: the ids in their order, then the new     *)
(* numbers of all of them that are still there                             *)
ReadIds(a) ==
  /\ cast[a] = "move" /\ pc[a] = "start"
  /\ loc' = [loc EXCEPT ![a].ids = Listed(rows)]
  /\ Goto(a, "renumber")
  /\ Unwritten /\ UNCHANGED <<clock, cast, overlap, pagerVars>>

(* The requested ones that exist, in front of the others                   *)
Reordered(ids, requested) ==
  SelectSeq(requested, LAMBDA i : i \in Range(ids)) \o SelectSeq(ids, LAMBDA i : i \notin Range(requested))

Positions(ids, i) == {n \in 1..MaxId : n \in DOMAIN ids /\ ids[n] = i}
Renumbered(ids) ==
  [i \in Ids |-> IF Positions(ids, i) = {} THEN rows[i]
                 ELSE [rows[i] EXCEPT !.order = 10 * (CHOOSE n \in Positions(ids, i) : TRUE)]]
Renumber(a) ==
  /\ pc[a] = "renumber"
  /\ \E k, before \in 1..MaxId :
       /\ k # before
       /\ \/ /\ k \in Range(loc[a].ids)                                 \* move_key_before
             /\ rows' = Renumbered(O!MovedBefore(loc[a].ids, k, before))
          \/ rows' = Renumbered(Reordered(loc[a].ids, <<k, before>>))    \* reorder_keys
  /\ moved' = moved \union {i \in Ids : Place(page.sort, rows', i) # Place(page.sort, rows, i)}
  /\ Disturb(a) /\ Goto(a, "done")
  /\ UNCHANGED <<nextId, clock, cast, loc, overlap, pagerVars>>

(* delete_keys                                                             *)
Without(ids) == [i \in Ids \ ids |-> rows[i]]
Delete(a) ==
  /\ cast[a] = "delete" /\ pc[a] = "start"
  /\ \E ids \in SUBSET Ids : ids # {} /\ rows' = Without(ids)
  /\ Disturb(a) /\ Goto(a, "done")
  /\ UNCHANGED <<nextId, clock, cast, loc, overlap, pagerVars, moved>>

(* list_keys_page: one page, and the cursor when there are more            *)
Page(a) ==
  /\ cast[a] = "pager" /\ page.at # "end"
  /\ LET C == {i \in Ids : page.at = "first" \/ PastCursor(page.sort, page.cursor, Place(page.sort, rows, i))} IN
     \E S \in SUBSET C :
       /\ FirstOf(page.sort, rows, C, S)
       /\ again' = again \union (shown \intersect S) /\ shown' = shown \union S
       /\ IF S = C THEN page' = [page EXCEPT !.at = "end"]
          ELSE \E last \in S :
                 /\ \A s \in S \ {last} : Behind(page.sort, Place(page.sort, rows, last), Place(page.sort, rows, s))
                 /\ page' = [page EXCEPT !.at = "next", !.cursor = Place(page.sort, rows, last)]
  /\ start' = IF page.at = "first" THEN rows ELSE start
  /\ moved' = IF page.at = "first" THEN {} ELSE moved
  /\ UNCHANGED <<rows, nextId, clock, cast, pc, loc, disturbed, overlap>>

Tick ==
  /\ clock < MaxClock /\ clock' = clock + 1
  /\ Unwritten /\ UNCHANGED <<cast, pc, loc, overlap, pagerVars>>

TableStep(a) ==
  \/ Ask(a) \/ Look(a) \/ ReadOrder(a) \/ ReadIds(a) \/ Renumber(a) \/ Delete(a) \/ Page(a)
--------------------------------------------------------------------------------
(* Reading the list page by page while others write shows every row        *)
(* exactly once that was there from the first page to the last, unless its *)
(* place in the order was changed meanwhile, and no row twice              *)
(* (list_keys_page and its cursor).                                        *)
WalkShowsAll ==
  /\ again \subseteq moved
  /\ page.at = "end" => DOMAIN start \intersect Ids \subseteq shown \union moved

(* A key that is added alone comes first in the list, if nobody wrote      *)
(* between the look at the smallest order and the insertion                *)
(* (_next_sort_order, and the order 0 that means no order).                *)
Alone(a) == \E i \in Ids' \ Ids :
  \A j \in Ids : Behind("default", Place("default", rows', j), Place("default", rows', i))
AddedComesFirst ==
  [][\A a \in Actors :
       cast[a] = "add" /\ pc[a] = "insert" /\ pc'[a] # "insert" /\ a \notin disturbed => Alone(a)]_vars

(* Two rows have one address and key only if somebody added one of them by *)
(* hand or two imports overlapped (add_keys_batch; there is no unique      *)
(* index).                                                                 *)
Batch(who) == who # "old" /\ cast[who] # "add"
DuplicatesNeedOverlap ==
  \A i, j \in Ids :
    i # j /\ rows[i].pair = rows[j].pair /\ Batch(rows[i].by) /\ Batch(rows[j].by)
      => {rows[i].by, rows[j].by} \in overlap
================================================================================
