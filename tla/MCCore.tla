--------------------------------- MODULE MCCore ---------------------------------
EXTENDS Core

(* Rows to export; lines of a paste, of different lengths                  *)
MCRows == {Item(b, k, p, n) : b \in {<<>>, <<"proxy">>, <<"v1">>}, k \in {"k1", "k2"},
                              p \in {"", "/path"}, n \in {"", "note"}}
MCLines == {Token("url", "u1", 4), Token("url", "u2", 1), Token("key", "k1", 1),
            Token("key", "k2", 3), Token("name", "n1", 1), Token("break", "", 1)}

(* One row and two, under every filter                                     *)
FilterRows ==
  [status : F!Statuses, model : F!Statuses, verified : BOOLEAN, openai : BOOLEAN,
   anthropic : {FALSE}, hasModel : {TRUE}, days : {0, 3}, hit : {{}, {"name"}}]
Row1 == [status |-> "down", model |-> "rate_limited", verified |-> TRUE, openai |-> TRUE,
         anthropic |-> TRUE, hasModel |-> FALSE, days |-> 2, hit |-> {"base_url", "tags"}]
MCTables == {{r} : r \in FilterRows} \union {{r, Row1} : r \in FilterRows}

(* Told nothing, an id, or two of them of which the transcript is hashed   *)
Own(kinds) == {[window |-> "a", kind |-> k] : k \in kinds}
MCTold == {Own({}), Own({"session"}), Own({"conversation", "transcript"})}

(* The tickets that the hook of the window and that of another have left   *)
Left == [window : W!Windows, names : {{"start"}, {"finish"}}, task : {"t1", "t2"},
         age : {0, 31}, expired : {FALSE}, here : {TRUE}]
        \union [window : W!Windows, names : {{"start", "finish"}}, task : {"t1"}, age : {30},
                expired : BOOLEAN, here : BOOLEAN]
MCTicketSets == {{}} \union {{x, y} : x, y \in Left}

(* Databases of every release, and what starts that died have left: each   *)
(* table under its old name, its new one, both or none                     *)
Values == UNION {[names -> {"15", "60", "90"}] : names \in SUBSET D!Spellings}
Named == [D!Tables -> {"absent", "filled"}]
Database(old, new, settings, columns) ==
  [old |-> old, new |-> new, stamped |-> FALSE, indexes |-> {}, failed |-> FALSE,
   settings |-> IF old["settings"] = new["settings"] THEN <<>> ELSE settings,
   columns |-> (IF {old["keys"], new["keys"]} = {"absent"} THEN {} ELSE columns \ {"enabled"})
                 \union (IF {old["users"], new["users"]} = {"absent"} THEN {} ELSE columns \intersect {"enabled"})]
One(s) == [t \in D!Tables |-> s]
Databases ==
  {Database(old, new, ("_request_timeout_sec" :> "60"), {"check_model"}) : old, new \in Named}
  \union {Database(One("filled"), One("absent"), ("requestTimeoutSec" :> "90"), c) :
              c \in {d \union {"check_model"} : d \in SUBSET D!Columns}}
  \union {Database(One("absent"), One("filled"), s, {"check_model"}) : s \in Values}
MCStarts == (D!Backends \X Databases)
            \union {<<"sqlite", Database(One("filled"), One("empty"), <<>>, {})>>,
                    <<"sqlite", Database(One("filled"), One("absent"), <<>>, {})>>}
================================================================================
