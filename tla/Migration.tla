------------------------------- MODULE Migration -------------------------------
(***************************************************************************)
(* init_db of db/_store.py: what a start makes of the database it finds.   *)
(* A database is what its tables hold under the old names and the new      *)
(* ones, the columns that keys and users have, the rows of the settings,   *)
(* and the indexes. A start commits its steps one by one, so that a start  *)
(* that dies leaves what the first so many of them did.                    *)
(*                                                                         *)
(* SQLite commits every DDL statement by itself until the first UPDATE     *)
(* opens the transaction that connection() commits at the end; MySQL       *)
(* commits with each DDL statement, and renames all tables in one.         *)
(***************************************************************************)
EXTENDS Integers, FiniteSets, SequencesExt

Backends == {"sqlite", "mysql"}
Tables == {"keys", "settings", "users", "sessions"}
Renames == <<"keys", "settings", "users", "sessions">>

(* The columns that are added: "enabled" is of users, and indexes are made *)
(* on the first and the second                                             *)
Columns == {"next_check_at", "next_strict_check_at", "created_at", "check_model", "enabled"}
AddedColumns(backend) ==
  IF backend = "sqlite" THEN <<"check_model", "next_check_at", "created_at", "next_strict_check_at">>
  ELSE <<"enabled", "next_check_at", "created_at", "next_strict_check_at">>

(* One setting and the ways in which its name has been written             *)
Spellings == {"requestTimeoutSec", "request_timeout_sec", "_request_timeout_sec"}
CamelCase == "requestTimeoutSec"
Default == [requestTimeoutSec |-> "45"]

(* A database as a start finds it; a table holds rows, is empty or absent. *)
(* MySQL came to the code when keys had a check_model.                     *)
Contents == {"absent", "empty", "filled"}
Fields == {"old", "new", "columns", "indexes", "settings", "stamped", "failed"}
Has(db, t) == db.old[t] # "absent" \/ db.new[t] # "absent"
Found(backend, db) ==
  /\ db = [f \in Fields |-> db[f]]
  /\ db.old \in [Tables -> Contents] /\ db.new \in [Tables -> Contents]
  /\ db.columns \subseteq Columns /\ (backend = "mysql" /\ Has(db, "keys") => "check_model" \in db.columns)
  /\ db.indexes \subseteq {"next_check_at", "next_strict_check_at"}
  /\ DOMAIN db.settings \subseteq Spellings /\ db.settings = [k \in DOMAIN db.settings |-> db.settings[k]]
  /\ db.stamped \in BOOLEAN /\ db.failed = FALSE

(* _migrate_setting_keys, over the names in the order of a Python set: the *)
(* setting under its right name is kept, or else the first that is met     *)
FirstMet(settings, order) ==
  order[CHOOSE i \in DOMAIN order : /\ order[i] \in DOMAIN settings
                                   /\ \A j \in 1..(i - 1) : order[j] \notin DOMAIN settings]
Taken(settings, order) ==
  IF CamelCase \in DOMAIN settings THEN CamelCase ELSE FirstMet(settings, order)
CamelCased(settings, order) ==
  IF DOMAIN settings = {} THEN settings
  ELSE [k \in {CamelCase} |-> settings[Taken(settings, order)]]

(* _migrate, of SQLite, also replaces what was once the default            *)
Raised(settings) == [k \in DOMAIN settings |-> IF settings[k] = "15" THEN "45" ELSE settings[k]]
Seeded(settings) == IF DOMAIN settings = {} THEN Default ELSE settings

--------------------------------------------------------------------------------
(* Tables under both names: _migrate_table_names_sqlite, _mysql            *)
CollidesAny(db) == \E t, u \in Tables : db.old[t] # "absent" /\ db.new[u] # "absent"
Collides(db) == \E t \in Tables : db.old[t] # "absent" /\ db.new[t] # "absent"

Rename(db, ts) ==
  LET found == {t \in ts : db.old[t] # "absent"}
  IN  [db EXCEPT !.old = [t \in Tables |-> IF t \in found THEN "absent" ELSE db.old[t]],
                 !.new = [t \in Tables |-> IF t \in found THEN db.old[t] ELSE db.new[t]]]
Create(db, ts) ==                                 \* a new table has every column
  LET made == {t \in ts : db.new[t] = "absent"}
  IN  [db EXCEPT !.new = [t \in Tables |-> IF t \in made THEN "empty" ELSE db.new[t]],
                 !.columns = db.columns \union (IF "keys" \in made THEN Columns \ {"enabled"} ELSE {})
                                        \union (IF "users" \in made THEN {"enabled"} ELSE {})]
AddColumns(db, cs) == [db EXCEPT !.columns = db.columns \union cs]
Index(db, c) == IF c \in db.columns THEN [db EXCEPT !.indexes = db.indexes \union {c}]
                ELSE [db EXCEPT !.failed = TRUE]
Stamp(db) == [db EXCEPT !.stamped = TRUE]
Settle(db, backend, order) ==
  LET camel == CamelCased(db.settings, order)
  IN  [db EXCEPT !.settings = Seeded(IF backend = "sqlite" THEN Raised(camel) ELSE camel),
                 !.new = [t \in Tables |-> IF t = "settings" THEN "filled" ELSE db.new[t]]]

(* The first n of s; none for a negative n                                 *)
First(s, n) == {s[i] : i \in {j \in DOMAIN s : j <= n}}

(* SQLite, after n steps: four tables renamed and created, four columns    *)
(* added, and the rest in one transaction, because an UPDATE came first    *)
Prepared(db, renamed, created, added) == AddColumns(Create(Rename(db, renamed), created), added)
Finish(db, order) ==
  Index(Index(AddColumns(Settle(Stamp(db), "sqlite", order), {"enabled"}), "next_check_at"), "next_strict_check_at")
OnSqlite(db, order, n) ==
  LET wide == Prepared(db, First(Renames, n), First(Renames, n - 4), First(AddedColumns("sqlite"), n - 8))
  IN  IF n < 13 THEN wide ELSE Finish(wide, order)

(* MySQL: all tables renamed at once, four created, four columns added,    *)
(* the indexes, the second with the UPDATE before it, and the settings     *)
OnMysql(db, order, n) ==
  LET wide == Prepared(db, IF n >= 1 THEN Tables ELSE {}, First(Renames, n - 1),
                       First(AddedColumns("mysql"), n - 5))
      strict == Index(wide, "next_strict_check_at")
      stamped == Index(Stamp(strict), "next_check_at")
  IN  CASE n < 10 -> wide [] n = 10 -> strict [] n = 11 -> stamped [] OTHER -> Settle(stamped, "mysql", order)

Steps(backend) == IF backend = "sqlite" THEN 13 ELSE 12

(* A start that dies after n steps; init_db                                *)
Died(backend, db, order, n) ==
  IF Collides(db) THEN db ELSE IF backend = "sqlite" THEN OnSqlite(db, order, n) ELSE OnMysql(db, order, n)
Started(backend, db, order) == Died(backend, db, order, Steps(backend))
================================================================================
