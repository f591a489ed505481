---------------------------------- MODULE Core ----------------------------------
(***************************************************************************)
(* The package core as its callers use it: a call is a probe, or one of    *)
(* the functions on bodies, addresses and texts with its input; and the    *)
(* functions of the store that keep nothing: the list's filters and the    *)
(* schedule. The inputs are all short ones, where the constants say how    *)
(* short.                                                                  *)
(***************************************************************************)
EXTENDS Probe, Evidence, Import, Schedule
F == INSTANCE ListFilter
D == INSTANCE Migration
W == INSTANCE Identity

CONSTANTS
  MaxParts,     \* the texts, choices, items or blocks of a body
  Segments, MaxPath,  \* of the path of an address
  Rows, MaxRows,  \* that are exported
  Lines, MaxLines,  \* of a paste
  KeyTables,    \* of the list
  MaxShown,     \* the rows of the panel when one of them is dragged
  KeyIds, Intervals,  \* the keys that are scheduled, and the intervals set for them
  Starts,       \* on which backend, and what database is found
  Told,         \* what a command may be told of its window
  TicketSets    \* the tickets that may lie about when a command runs

(* A row of the list; of a search the fields where it hits are those of    *)
(* the thin list, perhaps with others                                      *)
ListRow ==
  [status : F!Statuses, model : F!Statuses, verified : BOOLEAN, openai : BOOLEAN, anthropic : BOOLEAN,
   hasModel : BOOLEAN, days : Nat,
   hit : {h \in SUBSET {"name", "base_url", "check_model", "notes", "tags"} :
            h = {} \/ h \intersect {"name", "base_url", "check_model"} # {}}]
(* An id of the window "a"; a ticket of any window                         *)
Mine == [window : {"a"}, kind : Range(W!Kinds)]
Ticket == [window : W!Windows, names : SUBSET W!SessionCommands, task : {"t1", "t2"},
           age : Nat, expired : BOOLEAN, here : BOOLEAN]

ASSUME LengthsAssumption ==
  MaxParts \in Nat /\ MaxPath \in Nat /\ MaxRows \in Nat /\ MaxLines \in Nat /\ MaxShown \in Nat
ASSUME RowsAssumption ==                           \* add and update store what is normal
  \A r \in Rows : /\ r = Item(r.base, r.key, r.path, r.notes)
                  /\ IsNormal(r.base) /\ r.base # NoBase /\ r.key # "" /\ r.path # "bad"
ASSUME LinesAssumption ==                          \* its text says what a line is
  \A l \in Lines : /\ l.kind \in TokenKinds \union {"break"}
                   /\ \A m \in Lines : l.value = m.value => l = m
ASSUME TablesAssumption == \A T \in KeyTables : T \subseteq ListRow /\ IsFiniteSet(T)
ASSUME ScheduleAssumption ==                       \* validators.py: 0 or 30..86400
  KeyIds \subseteq Nat /\ Intervals \subseteq {n \in Nat : n >= 30}
ASSUME StartsAssumption ==
  \A s \in Starts : s = <<s[1], s[2]>> /\ s[1] \in D!Backends /\ D!Found(s[1], s[2])
ASSUME IdentityAssumption == Told \subseteq SUBSET Mine /\ TicketSets \subseteq SUBSET Ticket

VARIABLE input
coreVars == <<vars, input>>

UpTo(n, S) == UNION {[1..k -> S] : k \in 0..n}

(* Paths of a few segments, and the endpoint somebody appends              *)
Paths == UpTo(MaxPath, Segments)
Tails == Endpoints \union {Versioned(e) : e \in Endpoints}
Part(x) == [object |-> TRUE, content |-> x, reasoning |-> FALSE, cut |-> FALSE]

Tiles == {"all", "up", "down", "auth_error", "rate_limited", "unknown", "issue", "problem"}
Filters == [status : Tiles, protocol : {"all", "openai", "anthropic", "both"},
            hasModel : {"all", "yes", "no"}, range : {"all", "today", "3d"}, search : BOOLEAN]

Entries == [id : KeyIds, interval : {0} \union Intervals]
Schedules == [interval : Intervals, down : Intervals, strict : Intervals]

(* Commands of the window "a", with what it is told: outright, through a   *)
(* hook, or in the environment                                             *)
Commands ==
  [name : {"start", "finish", "list"}, task : {"t1", "t2"}, override : Told, given : Told,
   platform : {"none"} \union DOMAIN W!Exports,
   env : {{}} \union {{<<p, id>> : id \in ids} : p \in DOMAIN W!Exports, ids \in Told \ {{}}}]

Calls(f, S) == {[call |-> f, of |-> x] : x \in S}
Inputs == Calls("choices", UpTo(MaxParts, ChatChoices)) \union Calls("texts", UpTo(MaxParts, Texts))
          \union Calls("items", UpTo(MaxParts, Items)) \union Calls("blocks", UpTo(MaxParts, Blocks))
          \union Calls("address", Paths \X Tails)
          \union Calls("rows", UpTo(MaxRows, Rows)) \union Calls("lines", UpTo(MaxLines, Lines))
          \union Calls("table", KeyTables) \union Calls("entry", Entries)
          \union Calls("drag", {d \in (1..MaxShown) \X (1..MaxShown) : d[1] # d[2]})
          \union Calls("identify", Commands)
          \union Calls("start", Starts)
NoInput == [call |-> "probe"]

NoProbe == /\ job = [op |-> "list", v1 |-> FALSE, custom |-> FALSE, model |-> FALSE,
                     openai |-> FALSE, anthropic |-> TRUE]
           /\ Init

CoreInit == \/ Init /\ input = NoInput
            \/ NoProbe /\ input \in Inputs
CoreSpec == CoreInit /\ [][Next /\ UNCHANGED input]_coreVars

Input(f) == input # NoInput /\ input.call = f
--------------------------------------------------------------------------------
(* An answer counts exactly when the model said or thought something, in   *)
(* whichever choice it comes, and the three formats agree on answers with  *)
(* the same content (model_response_evidence).                             *)
EvidenceIsContent ==
  /\ Input("choices") => (Chat(input.of).ok <=> \E i \in DOMAIN input.of : Speaks(input.of[i]))
  /\ Input("texts") =>
       LET xs == input.of
           chat == Chat([i \in DOMAIN xs |-> Part(xs[i])])
           responses == Responses(Nothing, [i \in DOMAIN xs |->
                                   [content |-> xs[i], reasoning |-> Nothing]], FALSE)
           messages == Messages([i \in DOMAIN xs |-> [type |-> "text", text |-> xs[i]]], FALSE)
       IN  chat.ok = responses.ok /\ responses = messages
  /\ Input("items") => (Responses(Nothing, input.of, FALSE).ok
                          <=> \E i \in DOMAIN input.of : {input.of[i].content, input.of[i].reasoning} # {Nothing})
  /\ Input("blocks") => (Messages(input.of, FALSE).ok
                           <=> \E i \in DOMAIN input.of : input.of[i].type # "other" /\ input.of[i].text # Nothing)

Twice(p) == \E i \in 1..(Len(p) - 1) : p[i] = p[i + 1] /\ p[i] \in {"v1", "anthropic"}

(* Whatever endpoint address somebody pastes, the probe asks exactly that  *)
(* address among its candidates (normalize_base_url and candidate_urls,    *)
(* which undo each other), unless what is before the endpoint ends in      *)
(* another one or in the v1 that follows.                                  *)
PastedAddressIsProbed ==
  Input("address") =>
    LET pasted == input.of[1] \o input.of[2]
        e == CHOOSE x \in Endpoints : IsSuffix(x, input.of[2])
    IN  IsNormal(input.of[1]) /\ IsNormal(Normal(pasted)) /\ ~Twice(pasted)
          => pasted \in {Candidates(Normal(pasted), e)[i] : i \in 1..2}

(* A backup restores the table: read back by either parser it gives every  *)
(* row's address, key and path again, in order, without the notes; JSON    *)
(* import gives a pair once.                                               *)
Restored(rows) == [i \in DOMAIN rows |-> Item(rows[i].base, rows[i].key, rows[i].path, "")]
BackupRestores ==
  Input("rows") =>
    /\ ParseSync(Backup(input.of)) = Restored(input.of)
    /\ Imported(Backup(input.of), <<>>, <<>>) = Once(Restored(input.of))

(* Pasted pairs: a key that occurs once is paired with an address of its   *)
(* own paragraph, and is paired when its paragraph has an address          *)
(* (the docstring of parse_paste).                                         *)
PairsStayInParagraph ==
  Input("lines") =>
    LET lines == input.of  pairs == Pasted(lines) IN
    \A r \in Runs(lines) : \A k \in r[1]..r[2] :
      lines[k].kind = "key" /\ (\A j \in DOMAIN lines : j # k => lines[j] # lines[k]) =>
        LET urls == {lines[i].value : i \in {j \in r[1]..r[2] : lines[j].kind = "url"}}
            got == {pairs[i].base : i \in {j \in DOMAIN pairs : pairs[j].key = lines[k].value}}
        IN  got \subseteq urls /\ (urls # {} => got # {})

(* Each tile above the list counts the rows that a click on it shows, with *)
(* the other filters as they are (_page_summary and _page_conditions); and *)
(* the panel shows the rows the server sends it, when a search is for what *)
(* is in the thin list: "aligned with server status_filter" (state.js:21). *)
(* A key that is dragged upwards stands where the server saves it          *)
(* (moveKey and move_key_before; dragged down it does not).                *)
PanelAgrees ==
  /\ Input("drag") =>
       LET shown == [n \in 1..MaxShown |-> n]  source == input.of[1]  target == input.of[2]
       IN  source > target => F!PanelMoved(shown, source, target) = F!MovedBefore(shown, source, target)
  /\ Input("table") => \A q \in Filters :
       LET summary == F!Summary(q, input.of)
           size(p) == Cardinality(F!Shown(p, input.of))
       IN  /\ \A tile \in Tiles : summary[tile] = size([q EXCEPT !.status = tile])
           /\ summary.today = size([q EXCEPT !.status = "all", !.range = "today"])
           /\ summary.days3 = size([q EXCEPT !.status = "all", !.range = "3d"])
           /\ \A r \in F!Shown(q, input.of) : r.hit # {} => F!PanelShows(q, r)

(* A key in a worse state waits longer, whatever its interval, its id and  *)
(* the settings: the jitter never outweighs the step of the backoff. A     *)
(* strict check strays from its interval by a twentieth at most.           *)
WorseWaitsLonger ==
  Input("entry") => \A settings \in Schedules :
    LET wait(status) == NextCheck(input.of, status, settings)
        strict == IF settings.strict < 300 THEN 300 ELSE settings.strict
    IN
    /\ 20 * (NextStrictCheck(input.of, settings) - strict) \in (-strict)..strict
    /\ 1 < wait("up") /\ wait("up") < wait("degraded")
    /\ wait("degraded") < wait("rate_limited") /\ wait("rate_limited") < wait("auth_error")

(* A command that is told whose it is, or whose hook has left a ticket for *)
(* it that still counts, never runs for another window, whatever tickets   *)
(* others leave (_lookup_cursor_shell_ticket_context_key: it "avoids       *)
(* cross-window pointer contamination"); and a hook and a shell that are   *)
(* told the same id by one platform name the same window.                  *)
IdentityKept ==
  Input("identify") =>
    LET command == input.of
        Hooked(tickets) == \E t \in tickets : t.window = "a" /\ t.here /\ W!Fresh(t) /\ W!Matches(t, command)
    IN  /\ \A tickets \in TicketSets :
             LET key == W!ResolvedKey(command, tickets) IN
             /\ command.override \union command.given # {} => key.window = "a"
             /\ Hooked(tickets) => key.window \in {"a", "none"}
        /\ command.override = {} /\ command.platform # "none" => \A id \in command.given :
           id.kind \in W!Exports[command.platform] =>
             W!ResolvedKey([command EXCEPT !.given = {id}], {})
               = W!ResolvedKey([command EXCEPT !.given = {}, !.env = {<<command.platform, id>>}], {})

(* A start that died at any point is made good by the next one: the        *)
(* database is as if it had not died, and a further start changes nothing. *)
(* Nothing is refused because a start has died (init_db).                  *)
Orders == {o \in [1..3 -> D!Spellings] : \A i, j \in 1..3 : i # j => o[i] # o[j]}
MigrationResumes ==
  Input("start") =>
    LET backend == input.of[1]
        Again(db, order) == D!Started(backend, db, order)
    IN  \A order \in Orders : \A n \in 0..D!Steps(backend) :
          LET whole == Again(input.of[2], order)
          IN  /\ Again(D!Died(backend, input.of[2], order, n), order) = whole
              /\ Again(whole, order) = whole

(* A start keeps what it finds, whatever release it is from: every table's *)
(* rows, under the new name; a setting's value, that under the camelCase   *)
(* name before any other ("pre-existing camelCase rows win conflicts");    *)
(* and then has every column and index. A refused start changes nothing.   *)
MigrationKeeps ==
  Input("start") =>
    LET backend == input.of[1]
        db == input.of[2]
        key == "requestTimeoutSec"
        kept(order) == D!Started(backend, db, order)
        was == IF key \in DOMAIN db.settings THEN {db.settings[key]} ELSE Range(db.settings)
    IN  \A order \in Orders :
          IF \E t \in D!Tables : db.old[t] # "absent" /\ db.new[t] # "absent" THEN kept(order) = db
          ELSE /\ ~kept(order).failed /\ kept(order).stamped
               /\ kept(order).columns = D!Columns
               /\ kept(order).indexes = {"next_check_at", "next_strict_check_at"}
               /\ \A t \in D!Tables : /\ kept(order).old[t] = "absent" /\ kept(order).new[t] # "absent"
                                       /\ "filled" \in {db.old[t], db.new[t]} => kept(order).new[t] = "filled"
               /\ DOMAIN kept(order).settings = {key}
               /\ kept(order).settings[key] \in
                    IF was = {} THEN {"45"}
                    ELSE {IF backend = "sqlite" /\ v = "15" THEN "45" ELSE v : v \in was}
================================================================================
