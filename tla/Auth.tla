---------------------------------- MODULE Auth ----------------------------------
(***************************************************************************)
(* Accounts, passwords, sessions and the limit on failed logins            *)
(* (services/auth_service.py, the tables tbl_users and tbl_sessions of     *)
(* db/_store.py, the session check of api/router.py). A request is a       *)
(* thread; the tables change in transactions, and hashing a password,      *)
(* which takes long, lies between reading a row and writing it.            *)
(***************************************************************************)
EXTENDS Integers, FiniteSets

CONSTANTS
  Users,        \* the user names
  Sids,         \* session tokens
  Threads,      \* requests in flight
  First,        \* the account made at the first start
  None,
  MaxAttempts,  \* _LOGIN_MAX_ATTEMPTS
  MaxWord       \* bound: passwords ever chosen are 1..MaxWord, 0 is a wrong guess

ASSUME AuthAssumption ==
  /\ First \in Users /\ None \notin Users
  /\ IsFiniteSet(Threads)
  /\ MaxAttempts \in Nat \ {0} /\ MaxWord \in Nat \ {0}

Words == 1..MaxWord
(* A row of tbl_users: the password behind the hash, whether the hash has  *)
(* old parameters, whether it must be changed first, and the switch.       *)
Rows == [exists : BOOLEAN, word : 0..MaxWord, outdated : BOOLEAN, must : BOOLEAN,
         enabled : BOOLEAN]
NoRow == [exists |-> FALSE, word |-> 0, outdated |-> FALSE, must |-> FALSE, enabled |-> FALSE]

VARIABLES
  users,     \* tbl_users
  sessions,  \* tbl_sessions: token -> its owner and, for the history, the epoch
  attempts,  \* _attempts: failed logins in the window, by user
  req,       \* what each request is doing
  chosen,    \* history: the password last chosen for an account
  epoch,     \* history: how often an account was disabled, modulo 2
  overtaken, \* history: accounts whose password was changed under a rehash
  orphan     \* history: a request of an account disabled meanwhile disabled another

vars == <<users, sessions, attempts, req, chosen, epoch, overtaken, orphan>>

Pcs == {"idle", "read", "verify", "rehash", "open", "change", "store", "switch"}
Idle == [pc |-> "idle", user |-> None, word |-> 0, row |-> NoRow]

TypeOK ==
  /\ users \in [Users -> Rows]
  /\ sessions \in [Sids -> [owner : Users \union {None}, epoch : 0..1]]
  /\ attempts \in [Users -> Nat]
  /\ req \in [Threads -> [pc : Pcs, user : Users \union {None}, word : 0..MaxWord, row : Rows]]
  /\ chosen \in [Users -> 0..MaxWord]
  /\ epoch \in [Users -> 0..1]
  /\ overtaken \subseteq Users
  /\ orphan \in BOOLEAN

(* ensure_bootstrap: one account, whose hash may be of an older release    *)
Init ==
  /\ \E old \in BOOLEAN :
       users = [u \in Users |-> IF u # First THEN NoRow ELSE
                  [exists |-> TRUE, word |-> 1, outdated |-> old, must |-> TRUE, enabled |-> TRUE]]
  /\ sessions = [s \in Sids |-> [owner |-> None, epoch |-> 0]]
  /\ attempts = [u \in Users |-> 0]
  /\ req = [t \in Threads |-> Idle]
  /\ chosen = [u \in Users |-> IF u = First THEN 1 ELSE 0]
  /\ epoch = [u \in Users |-> 0]
  /\ overtaken = {} /\ orphan = FALSE

Done(t) == req' = [req EXCEPT ![t] = Idle]
Goto(t, pc) == req' = [req EXCEPT ![t].pc = pc]

--------------------------------------------------------------------------------
(* login                                                                   *)

LoginOffByOne(t, u, w) ==
  /\ req[t].pc = "idle"
  /\ attempts[u] <= MaxAttempts
  /\ req' = [req EXCEPT ![t] = [Idle EXCEPT !.pc = "read", !.user = u, !.word = w]]
  /\ UNCHANGED <<users, sessions, attempts, chosen, epoch, overtaken, orphan>>
(* _check_rate_limit: refused, or on to the row                            *)
Login(t, u, w) ==
  /\ req[t].pc = "idle"
  /\ attempts[u] < MaxAttempts
  /\ req' = [req EXCEPT ![t] = [Idle EXCEPT !.pc = "read", !.user = u, !.word = w]]
  /\ UNCHANGED <<users, sessions, attempts, chosen, epoch, overtaken, orphan>>

(* get_user_by_username                                                    *)
ReadUser(t) ==
  /\ req[t].pc = "read"
  /\ req' = [req EXCEPT ![t].pc = "verify", ![t].row = users[req[t].user]]
  /\ UNCHANGED <<users, sessions, attempts, chosen, epoch, overtaken, orphan>>

(* The password does not fit: _record_failed_attempt                       *)
Mismatch(t) ==
  /\ req[t].pc = "verify"
  /\ ~req[t].row.exists \/ req[t].row.word # req[t].word
  /\ attempts' = [attempts EXCEPT ![req[t].user] = @ + 1]
  /\ Done(t)
  /\ UNCHANGED <<users, sessions, chosen, epoch, overtaken, orphan>>

(* The row is not looked at again.                                         *)
Verified(t) == req' = [req EXCEPT ![t] = [Idle EXCEPT !.pc = "open", !.user = req[t].user]]

MatchOutdatedUnseen(t) ==
  /\ req[t].pc = "verify"
  /\ req[t].row.exists /\ (req[t].row.outdated \/ req[t].row.word = req[t].word)
  /\ IF req[t].row.enabled
     THEN /\ attempts' = [attempts EXCEPT ![req[t].user] = 0]
          /\ IF req[t].row.outdated THEN Goto(t, "rehash") ELSE Verified(t)
     ELSE Done(t) /\ UNCHANGED attempts
  /\ UNCHANGED <<users, sessions, chosen, epoch, overtaken, orphan>>
(* It fits, and a disabled account is told so before _clear_attempts       *)
Match(t) ==
  /\ req[t].pc = "verify"
  /\ req[t].row.exists /\ req[t].row.word = req[t].word
  /\ IF req[t].row.enabled
     THEN /\ attempts' = [attempts EXCEPT ![req[t].user] = 0]
          /\ IF req[t].row.outdated THEN Goto(t, "rehash") ELSE Verified(t)
     ELSE Done(t) /\ UNCHANGED attempts
  /\ UNCHANGED <<users, sessions, chosen, epoch, overtaken, orphan>>

(* update_user_password_hash with a new hash of the password just typed    *)
Rehash(t) ==
  /\ req[t].pc = "rehash"
  /\ users' = [users EXCEPT ![req[t].user].word = req[t].word,
                            ![req[t].user].outdated = FALSE]
  /\ Verified(t)
  /\ UNCHANGED <<sessions, attempts, chosen, epoch, overtaken, orphan>>

(* create_session with a token that was never used                         *)
Open(t, s) ==
  /\ req[t].pc = "open"
  /\ sessions[s].owner = None
  /\ sessions' = [sessions EXCEPT ![s] = [owner |-> req[t].user, epoch |-> epoch[req[t].user]]]
  /\ Done(t)
  /\ UNCHANGED <<users, attempts, chosen, epoch, overtaken, orphan>>

--------------------------------------------------------------------------------
(* Requests with a session. current lets one pass when the token is known, *)
(* not expired and the account enabled, to the work itself only when no     *)
(* change of the password is due; the work comes after.                    *)
Current(t, s, pc) ==
  /\ req[t].pc = "idle"
  /\ sessions[s].owner # None
  /\ users[sessions[s].owner].enabled
  /\ pc = "switch" => ~users[sessions[s].owner].must
  /\ req' = [req EXCEPT ![t] = [Idle EXCEPT !.pc = pc, !.user = sessions[s].owner]]
  /\ UNCHANGED <<users, sessions, attempts, chosen, epoch, overtaken, orphan>>

(* logout, expiry (current or delete_expired_sessions), and current with   *)
(* the session of a disabled account: the row is deleted.                  *)
Forget(s) ==
  /\ sessions[s].owner # None
  /\ sessions' = [sessions EXCEPT ![s].owner = None]
  /\ UNCHANGED <<users, attempts, req, chosen, epoch, overtaken, orphan>>

(* change_password: the old password fits the row read here, or not        *)
ReadOld(t) ==
  /\ req[t].pc = "change"
  /\ Goto(t, "store") \/ Done(t)
  /\ UNCHANGED <<users, sessions, attempts, chosen, epoch, overtaken, orphan>>

(* and the new one stored                                                  *)
Rehashes(u) == \E t \in Threads : /\ req[t].user = u /\ req[t].row.outdated
                                  /\ req[t].pc \in {"verify", "rehash"}
StoreNew(t, w) ==
  LET u == req[t].user IN
  /\ req[t].pc = "store"
  /\ users' = [users EXCEPT ![u].word = w, ![u].outdated = FALSE, ![u].must = FALSE]
  /\ chosen' = [chosen EXCEPT ![u] = w]
  /\ overtaken' = IF Rehashes(u) THEN overtaken \union {u} ELSE overtaken \ {u}
  /\ Done(t)
  /\ UNCHANGED <<sessions, attempts, epoch, orphan>>

(* create_user; the name is unique in the table                            *)
CreateUser(t, v) ==
  /\ req[t].pc = "switch"
  /\ ~users[v].exists
  /\ users' = [users EXCEPT ![v] = [exists |-> TRUE, word |-> 1, outdated |-> FALSE,
                                    must |-> FALSE, enabled |-> TRUE]]
  /\ chosen' = [chosen EXCEPT ![v] = 1]
  /\ Done(t)
  /\ UNCHANGED <<sessions, attempts, epoch, overtaken, orphan>>

(* set_user_enabled: nobody disables the account of his own session, and   *)
(* disabling deletes the sessions in the same transaction.                 *)
SwitchOn(t, v) ==
  /\ req[t].pc = "switch"
  /\ users[v].exists
  /\ users' = [users EXCEPT ![v].enabled = TRUE]
  /\ Done(t)
  /\ UNCHANGED <<sessions, attempts, chosen, epoch, overtaken, orphan>>

SwitchOffSelf(t, v) ==
  /\ req[t].pc = "switch"
  /\ users[v].exists
  /\ users' = [users EXCEPT ![v].enabled = FALSE]
  /\ sessions' = [s \in Sids |-> IF sessions[s].owner = v
                                 THEN [sessions[s] EXCEPT !.owner = None] ELSE sessions[s]]
  /\ epoch' = [epoch EXCEPT ![v] = 1 - @]
  /\ orphan' = (orphan \/ ~users[req[t].user].enabled)
  /\ Done(t)
  /\ UNCHANGED <<attempts, chosen, overtaken>>
SwitchOffKeeping(t, v) ==
  /\ req[t].pc = "switch"
  /\ users[v].exists /\ v # req[t].user
  /\ users' = [users EXCEPT ![v].enabled = FALSE]
  /\ epoch' = [epoch EXCEPT ![v] = 1 - @]
  /\ orphan' = (orphan \/ ~users[req[t].user].enabled)
  /\ Done(t)
  /\ UNCHANGED <<sessions, attempts, chosen, overtaken>>
SwitchOff(t, v) ==
  /\ req[t].pc = "switch"
  /\ users[v].exists /\ v # req[t].user
  /\ users' = [users EXCEPT ![v].enabled = FALSE]
  /\ sessions' = [s \in Sids |-> IF sessions[s].owner = v
                                 THEN [sessions[s] EXCEPT !.owner = None] ELSE sessions[s]]
  /\ epoch' = [epoch EXCEPT ![v] = 1 - @]
  /\ orphan' = (orphan \/ ~users[req[t].user].enabled)
  /\ Done(t)
  /\ UNCHANGED <<attempts, chosen, overtaken>>

(* _LOGIN_WINDOW_SECONDS have passed since a failed login.                 *)
Age(u) ==
  /\ attempts[u] > 0
  /\ attempts' = [attempts EXCEPT ![u] = @ - 1]
  /\ UNCHANGED <<users, sessions, req, chosen, epoch, overtaken, orphan>>

Next ==
  \/ \E t \in Threads :
       \/ \E u \in Users, w \in 0..MaxWord : Login(t, u, w)
       \/ ReadUser(t) \/ Mismatch(t) \/ Match(t) \/ Rehash(t)
       \/ \E s \in Sids : Open(t, s) \/ Current(t, s, "change") \/ Current(t, s, "switch")
       \/ ReadOld(t) \/ (\E w \in Words : StoreNew(t, w))
       \/ \E v \in Users : CreateUser(t, v) \/ SwitchOn(t, v) \/ SwitchOff(t, v)
  \/ \E s \in Sids : Forget(s)
  \/ \E u \in Users : Age(u)

Spec == Init /\ [][Next]_vars

--------------------------------------------------------------------------------
(* The password of an account is the one last chosen for it: the rehash of *)
(* a login, which writes what it verified before, does not bring back an   *)
(* old one, unless the change came between its read and its write.         *)
PasswordIsLastChosen ==
  \A u \in Users : users[u].exists /\ u \notin overtaken => users[u].word = chosen[u]

(* Some account can log in. The rule against disabling oneself is enough,  *)
(* unless a request that passed `current` is carried out after its own     *)
(* account was disabled.                                                   *)
SomebodyEnabled == orphan \/ \E u \in Users : users[u].exists /\ users[u].enabled

(* Disabling revokes (README.md:145): no session from before the last      *)
(* disabling of its account is left, so enabling it again revives none.    *)
NoSessionRevived ==
  \A s \in Sids : sessions[s].owner # None => sessions[s].epoch = epoch[sessions[s].owner]

(* The limit is tested before and counted after the verification, so       *)
(* logins in flight together may exceed it, by less than their number.     *)
AttemptsBounded ==
  \A u \in Users : attempts[u] <= MaxAttempts - 1 + Cardinality(Threads)
================================================================================
