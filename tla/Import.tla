--------------------------------- MODULE Import ---------------------------------
(***************************************************************************)
(* What goes into the table and comes out of it as text: addresses         *)
(* (core/urls.py), pasted text and JSON (core/parse.py), backups and       *)
(* exports (core/export.py). An address is the sequence of the segments of *)
(* its path; scheme and host never change.                                 *)
(***************************************************************************)
EXTENDS Integers, FiniteSets, SequencesExt

Endpoints == {<<"messages">>, <<"responses">>, <<"models">>, <<"chat", "completions">>}
Versioned(e) == <<"v1">> \o e

(* normalize_base_url: one endpoint is taken off the end, with its v1 when *)
(* it has one, because _ENDPOINT_SUFFIXES lists those first.               *)
Without(path, tail) == SubSeq(path, 1, Len(path) - Len(tail))
Normal(path) ==
  IF \E e \in Endpoints : IsSuffix(Versioned(e), path)
  THEN Without(path, Versioned(CHOOSE e \in Endpoints : IsSuffix(Versioned(e), path)))
  ELSE IF \E e \in Endpoints : IsSuffix(e, path)
  THEN Without(path, CHOOSE e \in Endpoints : IsSuffix(e, path))
  ELSE path
IsNormal(path) == Normal(path) = path

(* join_api_path                                                           *)
Join(base, add) ==
  LET b == Normal(base)
  IN  IF IsSuffix(<<"v1">>, b) /\ IsPrefix(<<"v1">>, add) THEN b \o Tail(add) ELSE b \o add

(* candidate_urls                                                          *)
CandidatesVersioned(base, e) == <<Join(base, Versioned(e)), Join(base, Versioned(e))>>
Candidates(base, e) == <<Join(base, Versioned(e)), Join(base, e)>>

--------------------------------------------------------------------------------
(* parse_paste. A line holds one token; the position of a token is the     *)
(* number of characters before it in its paragraph.                        *)

TokenKinds == {"url", "key", "name"}
Token(kind, value, size) == [kind |-> kind, value |-> value, size |-> size]

(* _split_paragraphs: the maximal runs of lines without a blank, a comment *)
(* or a line that has no token                                             *)
Run(lines, i, j) ==
  /\ \A k \in i..j : lines[k].kind \in TokenKinds
  /\ i = 1 \/ lines[i - 1].kind \notin TokenKinds
  /\ j = Len(lines) \/ lines[j + 1].kind \notin TokenKinds
Runs(lines) == {r \in (1..Len(lines)) \X (1..Len(lines)) : r[1] <= r[2] /\ Run(lines, r[1], r[2])}

Pos(lines, k) == FoldLeft(LAMBDA n, l : n + l.size + 1, 0, SubSeq(lines, 1, k - 1))
Gap(lines, i, k) == Pos(lines, k) - Pos(lines, i)

Before(lines, r, k, kind) == {i \in r[1]..(k - 1) : lines[i].kind = kind}
After(lines, r, k, kind) == {i \in (k + 1)..r[2] : lines[i].kind = kind}

UrlLineBefore(lines, r, k) ==
  LET b == Before(lines, r, k, "url") IN IF b # {} THEN Max(b) ELSE 0
(* The url of a key: the nearer of the two next to it, the one before it   *)
(* when they are equally near; 0 when there is none                        *)
UrlLine(lines, r, k) ==
  LET b == Before(lines, r, k, "url")  a == After(lines, r, k, "url") IN
  IF b # {} /\ (a = {} \/ Gap(lines, Max(b), k) <= Gap(lines, k, Min(a))) THEN Max(b)
  ELSE IF a # {} THEN Min(a) ELSE 0

NameOf(lines, r, k) ==
  LET n == Before(lines, r, k, "name") IN IF n = {} THEN "" ELSE lines[Max(n)].value

(* The numbers of I, the least first; the elements of s with such a number *)
Ascending(I) == [n \in 1..Cardinality(I) |-> CHOOSE i \in I : Cardinality({j \in I : j < i}) = n - 1]
Chosen(s, I) == LET order == Ascending(I) IN [n \in DOMAIN order |-> s[order[n]]]

(* The entries in their order, each pair once                              *)
Pair(e) == <<e.base, e.key>>
Once(entries) ==
  Chosen(entries, {i \in DOMAIN entries : \A j \in 1..(i - 1) : Pair(entries[j]) # Pair(entries[i])})

(* Of the line k: its paragraph, and its url                               *)
RunOf(lines, k) == CHOOSE r \in Runs(lines) : k \in r[1]..r[2]
UrlOf(lines, k) == UrlLine(lines, RunOf(lines, k), k)

PastedEntry(lines, k) ==
  [base |-> lines[UrlOf(lines, k)].value, key |-> lines[k].value, name |-> NameOf(lines, RunOf(lines, k), k)]
Pasted(lines) ==
  LET Keyed == Ascending({k \in DOMAIN lines : lines[k].kind = "key" /\ UrlOf(lines, k) # 0})
  IN  Once([n \in DOMAIN Keyed |-> PastedEntry(lines, Keyed[n])])

--------------------------------------------------------------------------------
(* JSON. An item has the fields of a row; a base of <<>> with no host, and *)
(* a key that is empty, are absent.                                        *)
NoBase == <<"none">>
Item(base, key, path, notes) == [base |-> base, key |-> key, path |-> path, notes |-> notes]

(* _export_entry_dict: no notes, no status, and the address normalised     *)
ExportedWithoutPath(row) == Item(Normal(row.base), row.key, "", "")
Exported(row) == Item(Normal(row.base), row.key, row.path, "")
Backup(rows) == [i \in DOMAIN rows |-> Exported(rows[i])]

UsableItems(items) ==
  Chosen(items, {i \in DOMAIN items : items[i].base # NoBase /\ items[i].key # ""})

(* parse_sync_payload: all usable items, a bad check_path cleared          *)
SyncItem(item) ==
  Item(Normal(item.base), item.key, IF item.path = "bad" THEN "" ELSE item.path, "")
ParseSync(items) ==
  LET good == UsableItems(items) IN [i \in DOMAIN good |-> SyncItem(good[i])]

(* _normalize_import_items: each pair once; paths are validated later      *)
NormalItem(item) == Item(Normal(item.base), item.key, item.path, item.notes)
ParseJson(items) ==
  LET good == UsableItems(items)
  IN  Once([i \in DOMAIN good |-> NormalItem(good[i])])

(* parse_import_text: JSON when it yields an item, then the fenced blocks, *)
(* at last the paste                                                       *)
Imported(items, blocks, lines) ==
  LET fenced == Once(FlattenSeq([i \in DOMAIN blocks |-> ParseJson(blocks[i])]))
  IN  IF ParseJson(items) # <<>> THEN ParseJson(items)
      ELSE IF fenced # <<>> THEN fenced ELSE Pasted(lines)
================================================================================
