------------------------------ MODULE AuthProofs -------------------------------
(***************************************************************************)
(* For any users, tokens, requests in flight and limit: no old password    *)
(* comes back, somebody can log in, disabling revokes, and the limit on    *)
(* failed logins is exceeded by less than the requests in flight.          *)
(***************************************************************************)
EXTENDS Auth, FiniteSetTheorems, TLAPS

\* A request that is under way acts for an account, and the switch of an account
\* is on only when there is one.
Acting == \A t \in Threads : req[t].pc # "idle" => req[t].user \in Users
OnExists == \A u \in Users : users[u].enabled => users[u].exists

\* A request that will write a new hash of an old one verified the password in the
\* row it read; accounts are never deleted, so the row is still there; and the
\* password is the last chosen, unless a change has been noted since.
Verifies(t) == req[t].pc \in {"verify", "rehash"} /\ req[t].row.exists
RehashHonest == \A t \in Threads :
    /\ req[t].pc = "rehash" => /\ req[t].row.exists /\ req[t].row.outdated
                               /\ req[t].row.word = req[t].word
    /\ Verifies(t) => users[req[t].user].exists
    /\ Verifies(t) /\ req[t].row.outdated =>
         req[t].user \in overtaken \/ req[t].row.word = chosen[req[t].user]

\* The logins for an account that have passed the limit and not been counted.
InFlight(u) == {t \in Threads : req[t].pc \in {"read", "verify"} /\ req[t].user = u}
LimitKept == \A u \in Users :
    attempts[u] + Cardinality(InFlight(u)) <= MaxAttempts - 1 + Cardinality(Threads)

IInv == /\ TypeOK /\ Acting /\ OnExists /\ RehashHonest
        /\ PasswordIsLastChosen /\ SomebodyEnabled /\ NoSessionRevived /\ LimitKept

------------------------------------------------------------------------------
(* Rows and requests *)
Requests == [pc : Pcs, user : Users \union {None}, word : 0..MaxWord, row : Rows]

\* What the service writes into a row makes a row.
LEMMA RowValues ==
    /\ NoRow \in Rows /\ 0 \in 0..MaxWord /\ 1 \in 0..MaxWord /\ Words \subseteq 0..MaxWord
    /\ [exists |-> TRUE, word |-> 1, outdated |-> FALSE, must |-> FALSE, enabled |-> TRUE] \in Rows
    /\ \A old \in BOOLEAN :
         [exists |-> TRUE, word |-> 1, outdated |-> old, must |-> TRUE, enabled |-> TRUE] \in Rows
<1>1. 0 \in 0..MaxWord /\ 1 \in 0..MaxWord /\ Words \subseteq 0..MaxWord
  BY AuthAssumption DEF Words
<1> QED
  BY <1>1 DEF Rows, NoRow

LEMMA RowUpdates ==
    ASSUME NEW x \in Rows, NEW w \in 0..MaxWord
    PROVE  /\ [x EXCEPT !.enabled = FALSE] \in Rows /\ [x EXCEPT !.enabled = TRUE] \in Rows
           /\ [x EXCEPT !.word = w, !.outdated = FALSE] \in Rows
           /\ [x EXCEPT !.word = w, !.outdated = FALSE, !.must = FALSE] \in Rows
<1>1. [x EXCEPT !.enabled = FALSE] \in Rows
  BY DEF Rows
<1>2. [x EXCEPT !.enabled = TRUE] \in Rows
  BY DEF Rows
<1>3. [x EXCEPT !.word = w, !.outdated = FALSE] \in Rows
  BY DEF Rows
<1>4. [x EXCEPT !.word = w, !.outdated = FALSE, !.must = FALSE] \in Rows
  BY DEF Rows
<1> QED
  BY <1>1, <1>2, <1>3, <1>4

LEMMA IdleRequest ==
    /\ Idle \in Requests /\ Idle.pc = "idle"
    /\ \A p \in Pcs, u \in Users :
         /\ [Idle EXCEPT !.pc = p, !.user = u] \in Requests
         /\ [Idle EXCEPT !.pc = p, !.user = u].pc = p
         /\ [Idle EXCEPT !.pc = p, !.user = u].user = u
<1>1. Idle \in Requests /\ Idle.pc = "idle"
  BY RowValues DEF Idle, Requests, Pcs
<1>2. ASSUME NEW p \in Pcs, NEW u \in Users
      PROVE  /\ [Idle EXCEPT !.pc = p, !.user = u] \in Requests
             /\ [Idle EXCEPT !.pc = p, !.user = u].pc = p
             /\ [Idle EXCEPT !.pc = p, !.user = u].user = u
  BY <1>1 DEF Requests
<1> QED
  BY <1>1, <1>2

\* Request t goes on as x, and x is no login whose password is being verified.
Becomes(t, x) == /\ x \in Requests /\ (x.pc # "idle" => x.user \in Users)
                 /\ req' = [req EXCEPT ![t] = x]
Quiet(t) == \E x : Becomes(t, x) /\ x.pc \notin {"read", "verify", "rehash"}

\* A login whose password fits goes on to a new hash.
Rehashing(t) == req[t].row.enabled /\ req[t].row.outdated

\* Every step of a request but those of the login before its session ends it, or
\* takes it to a place where no password is verified.
LEMMA QuietSteps ==
    ASSUME TypeOK, Acting, NEW t \in Threads,
           \/ Mismatch(t) \/ Rehash(t) \/ ReadOld(t) \/ (\E w \in Words : StoreNew(t, w))
           \/ (\E s \in Sids : Open(t, s) \/ Current(t, s, "change") \/ Current(t, s, "switch"))
           \/ (\E v \in Users : CreateUser(t, v) \/ SwitchOn(t, v) \/ SwitchOff(t, v))
           \/ Match(t) /\ ~Rehashing(t)
    PROVE  Quiet(t)
<1>a. req \in [Threads -> Requests] /\ sessions \in [Sids -> [owner : Users \union {None}, epoch : 0..1]]
  BY DEF TypeOK, Requests
<1>1. ASSUME Done(t) PROVE Quiet(t)
  BY <1>1, IdleRequest DEF Done, Quiet, Becomes
<1>2. ASSUME req[t].pc \in {"rehash", "verify"}, Verified(t) PROVE Quiet(t)
  <2>1. req[t].user \in Users /\ "open" \in Pcs
    BY <1>2 DEF Acting, Pcs
  <2> QED
    <3> DEFINE x == [Idle EXCEPT !.pc = "open", !.user = req[t].user]
    <3>1. x \in Requests /\ x.pc = "open" /\ x.user \in Users
      BY <2>1, IdleRequest
    <3>2. req' = [req EXCEPT ![t] = x]
      BY <1>2 DEF Verified
    <3> HIDE DEF x
    <3> QED
      BY <3>1, <3>2 DEF Quiet, Becomes
<1>3. ASSUME req[t].pc = "change", Goto(t, "store") PROVE Quiet(t)
  <2>1. /\ [req[t] EXCEPT !.pc = "store"] \in Requests /\ [req[t] EXCEPT !.pc = "store"].pc = "store"
        /\ [req[t] EXCEPT !.pc = "store"].user = req[t].user /\ req[t].user \in Users
    BY <1>a, <1>3 DEF Requests, Pcs, Acting
  <2>2. req' = [req EXCEPT ![t] = [req[t] EXCEPT !.pc = "store"]]
    BY <1>a, <1>3 DEF Goto
  <2> QED
    BY <2>1, <2>2 DEF Quiet, Becomes
<1>4. ASSUME NEW s \in Sids, NEW p \in {"change", "switch"}, Current(t, s, p) PROVE Quiet(t)
  <2>1. sessions[s].owner \in Users /\ p \in Pcs
    BY <1>a, <1>4 DEF Current, Pcs
  <2> QED
    <3> DEFINE x == [Idle EXCEPT !.pc = p, !.user = sessions[s].owner]
    <3>1. x \in Requests /\ x.pc = p /\ x.user \in Users
      BY <2>1, IdleRequest
    <3>2. req' = [req EXCEPT ![t] = x]
      BY <1>4 DEF Current
    <3> HIDE DEF x
    <3> QED
      BY <3>1, <3>2 DEF Quiet, Becomes
<1>5. CASE \/ Mismatch(t) \/ \E w \in Words : StoreNew(t, w)
           \/ \E s \in Sids : Open(t, s)
           \/ \E v \in Users : CreateUser(t, v) \/ SwitchOn(t, v) \/ SwitchOff(t, v)
  BY <1>1, <1>5 DEF Mismatch, StoreNew, Open, CreateUser, SwitchOn, SwitchOff
<1>6. CASE Rehash(t) \/ ReadOld(t)
  BY <1>1, <1>2, <1>3, <1>6 DEF Rehash, ReadOld
<1>7. CASE Match(t) /\ ~Rehashing(t)
  BY <1>1, <1>2, <1>7 DEF Match, Rehashing
<1> QED
  BY <1>4, <1>5, <1>6, <1>7

\* What follows from a quiet step.
LEMMA QuietMeans ==
    ASSUME TypeOK, Acting, NEW t \in Threads, Quiet(t)
    PROVE  /\ req' \in [Threads -> Requests] /\ Acting'
           /\ \A r \in Threads \ {t} : req'[r] = req[r]
           /\ req'[t].pc \notin {"read", "verify", "rehash"}
<1>1. req \in [Threads -> Requests]
  BY DEF TypeOK, Requests
<1> QED
  BY <1>1 DEF Quiet, Becomes, Acting

LEMMA InFlightFinite ==
    \A u : IsFiniteSet(InFlight(u)) /\ Cardinality(InFlight(u)) \in Nat
           /\ Cardinality(InFlight(u)) <= Cardinality(Threads) /\ Cardinality(Threads) \in Nat
<1>1. \A u : InFlight(u) \subseteq Threads
  BY DEF InFlight
<1> QED
  BY <1>1, AuthAssumption, FS_Subset, FS_CardinalityType

LEMMA InitIInv == Init => IInv
<1> SUFFICES ASSUME Init PROVE IInv
  OBVIOUS
<1>1. TypeOK
  <2>1. users \in [Users -> Rows] /\ chosen \in [Users -> 0..MaxWord]
    BY RowValues DEF Init
  <2>2. req \in [Threads -> Requests]
    BY IdleRequest DEF Init
  <2>3. /\ sessions \in [Sids -> [owner : Users \union {None}, epoch : 0..1]]
        /\ attempts \in [Users -> Nat] /\ epoch \in [Users -> 0..1]
    BY DEF Init
  <2>4. overtaken \subseteq Users /\ orphan \in BOOLEAN
    BY DEF Init
  <2> QED
    BY <2>1, <2>2, <2>3, <2>4 DEF TypeOK, Requests
<1>2. Acting /\ RehashHonest /\ NoSessionRevived
  BY DEF Init, Acting, RehashHonest, Verifies, Idle, NoSessionRevived
<1>3. OnExists /\ SomebodyEnabled /\ PasswordIsLastChosen
  BY AuthAssumption DEF Init, OnExists, SomebodyEnabled, PasswordIsLastChosen, NoRow
<1>4. LimitKept
  <2>1. \A u \in Users : InFlight(u) = {}
    BY DEF Init, InFlight, Idle
  <2>2. \A u \in Users : Cardinality(InFlight(u)) = 0
    BY <2>1, FS_EmptySet
  <2>3. Cardinality(Threads) \in Nat
    BY InFlightFinite
  <2> QED
    BY <2>2, <2>3, AuthAssumption DEF Init, LimitKept
<1> QED
  BY <1>1, <1>2, <1>3, <1>4 DEF IInv
------------------------------------------------------------------------------
(* Types *)

\* The steps that only move a request on, and those that end it.
LEMMA TypeStep == IInv /\ [Next]_vars => TypeOK' /\ Acting'
<1> SUFFICES ASSUME IInv, [Next]_vars PROVE TypeOK' /\ Acting'
  OBVIOUS
<1>a. TypeOK /\ Acting /\ req \in [Threads -> Requests]
  BY DEF IInv, TypeOK, Requests
<1>b. /\ users \in [Users -> Rows] /\ attempts \in [Users -> Nat] /\ chosen \in [Users -> 0..MaxWord]
      /\ sessions \in [Sids -> [owner : Users \union {None}, epoch : 0..1]]
      /\ epoch \in [Users -> 0..1] /\ overtaken \subseteq Users /\ orphan \in BOOLEAN
  BY <1>a DEF TypeOK
\* A step that leaves the tables alone, and one that writes a row.
<1>s. ASSUME req' \in [Threads -> Requests], Acting', attempts' \in [Users -> Nat],
             UNCHANGED <<users, sessions, chosen, epoch, overtaken, orphan>>
      PROVE  TypeOK' /\ Acting'
  BY <1>b, <1>s DEF TypeOK, Requests
<1>r. ASSUME req' \in [Threads -> Requests], Acting', NEW v \in Users, NEW x \in Rows,
             users' = [users EXCEPT ![v] = x], chosen' \in [Users -> 0..MaxWord],
             sessions' \in [Sids -> [owner : Users \union {None}, epoch : 0..1]],
             epoch' \in [Users -> 0..1], overtaken' \subseteq Users, orphan' \in BOOLEAN,
             attempts' = attempts
      PROVE  TypeOK' /\ Acting'
  BY <1>b, <1>r DEF TypeOK, Requests
<1>0. CASE UNCHANGED vars
  BY <1>a, <1>0 DEF vars, TypeOK, Acting
<1>1. ASSUME NEW t \in Threads, NEW u \in Users, NEW w \in 0..MaxWord, Login(t, u, w)
      PROVE  TypeOK' /\ Acting'
  <2> DEFINE x == [Idle EXCEPT !.pc = "read", !.user = u, !.word = w]
  <2>1. x \in Requests /\ x.user = u
    BY IdleRequest DEF Requests, Pcs
  <2>2. req' \in [Threads -> Requests] /\ Acting'
    BY <1>a, <1>1, <2>1 DEF Login, Acting
  <2> QED
    BY <1>1, <1>b, <1>s, <2>2 DEF Login
<1>2. ASSUME NEW t \in Threads, ReadUser(t) PROVE TypeOK' /\ Acting'
  <2>1. req[t].user \in Users /\ users[req[t].user] \in Rows
    BY <1>a, <1>b, <1>2 DEF ReadUser, Acting
  <2>2. [req[t] EXCEPT !.pc = "verify", !.row = users[req[t].user]] \in Requests
    BY <1>a, <2>1 DEF Requests, Pcs
  <2>3. req' = [req EXCEPT ![t] = [req[t] EXCEPT !.pc = "verify", !.row = users[req[t].user]]]
    BY <1>a, <1>2 DEF ReadUser
  <2>4. req' \in [Threads -> Requests] /\ Acting'
    BY <1>a, <2>1, <2>2, <2>3 DEF Acting, Requests
  <2> QED
    BY <1>2, <1>b, <1>s, <2>4 DEF ReadUser
<1>3. ASSUME NEW t \in Threads, Mismatch(t) PROVE TypeOK' /\ Acting'
  <2>1. req' \in [Threads -> Requests] /\ Acting'
    BY <1>a, <1>3, QuietSteps, QuietMeans
  <2>2. attempts' \in [Users -> Nat]
    <3>1. req[t].user \in Users
      BY <1>a, <1>3 DEF Mismatch, Acting
    <3> QED
      BY <1>b, <1>3, <3>1 DEF Mismatch
  <2> QED
    BY <1>3, <1>s, <2>1, <2>2 DEF Mismatch
<1>4. ASSUME NEW t \in Threads, Match(t) PROVE TypeOK' /\ Acting'
  <2>1. req' \in [Threads -> Requests] /\ Acting'
    <3>1. CASE ~Rehashing(t)
      BY <1>a, <1>4, <3>1, QuietSteps, QuietMeans
    <3>2. CASE Rehashing(t)
      <4>1. [req[t] EXCEPT !.pc = "rehash"] \in Requests /\ req[t].user \in Users
        BY <1>a, <1>4 DEF Match, Acting, Requests, Pcs
      <4>2. [req[t] EXCEPT !.pc = "rehash"].user = req[t].user
        BY <1>a DEF Requests
      <4>3. req' = [req EXCEPT ![t] = [req[t] EXCEPT !.pc = "rehash"]]
        BY <1>a, <1>4, <3>2 DEF Match, Rehashing, Goto
      <4> QED
        BY <1>a, <4>1, <4>2, <4>3 DEF Acting
    <3> QED
      BY <3>1, <3>2
  <2>2. attempts' \in [Users -> Nat]
    BY <1>b, <1>4 DEF Match
  <2> QED
    BY <1>4, <1>s, <2>1, <2>2 DEF Match
<1>5. ASSUME NEW t \in Threads, Rehash(t) PROVE TypeOK' /\ Acting'
  <2>1. req' \in [Threads -> Requests] /\ Acting'
    BY <1>a, <1>5, QuietSteps, QuietMeans
  <2>2. req[t].user \in Users /\ req[t].word \in 0..MaxWord
    BY <1>a, <1>5 DEF Rehash, Acting, Requests
  <2> DEFINE x == [users[req[t].user] EXCEPT !.word = req[t].word, !.outdated = FALSE]
  <2>3. x \in Rows
    BY <1>b, <2>2, RowUpdates
  <2>4. users' = [users EXCEPT ![req[t].user] = x]
    BY <1>b, <1>5, <2>2 DEF Rehash
  <2> HIDE DEF x
  <2> QED
    BY <1>5, <1>b, <1>r, <2>1, <2>2, <2>3, <2>4 DEF Rehash
<1>6. ASSUME NEW t \in Threads, NEW s \in Sids, Open(t, s) PROVE TypeOK' /\ Acting'
  <2>1. req' \in [Threads -> Requests] /\ Acting'
    BY <1>a, <1>6, QuietSteps, QuietMeans
  <2>2. req[t].user \in Users
    BY <1>a, <1>6 DEF Open, Acting
  <2>3. sessions' \in [Sids -> [owner : Users \union {None}, epoch : 0..1]]
    BY <1>b, <1>6, <2>2 DEF Open
  <2> QED
    BY <1>6, <1>b, <2>1, <2>3 DEF Open, TypeOK, Requests
<1>7. ASSUME NEW t \in Threads,
             ReadOld(t) \/ \E s \in Sids : Current(t, s, "change") \/ Current(t, s, "switch")
      PROVE  TypeOK' /\ Acting'
  <2>1. req' \in [Threads -> Requests] /\ Acting'
    BY <1>a, <1>7, QuietSteps, QuietMeans
  <2> QED
    BY <1>7, <1>b, <1>s, <2>1 DEF ReadOld, Current
<1>9. ASSUME NEW t \in Threads, NEW w \in Words, StoreNew(t, w) PROVE TypeOK' /\ Acting'
  <2>1. req' \in [Threads -> Requests] /\ Acting'
    BY <1>a, <1>9, QuietSteps, QuietMeans
  <2>2. req[t].user \in Users /\ w \in 0..MaxWord
    BY <1>a, <1>9, RowValues DEF StoreNew, Acting
  <2> DEFINE x == [users[req[t].user] EXCEPT !.word = w, !.outdated = FALSE, !.must = FALSE]
  <2>3. x \in Rows
    BY <1>b, <2>2, RowUpdates
  <2>4. users' = [users EXCEPT ![req[t].user] = x]
    BY <1>b, <1>9, <2>2 DEF StoreNew
  <2>5. chosen' \in [Users -> 0..MaxWord] /\ overtaken' \subseteq Users
    BY <1>b, <1>9, <2>2 DEF StoreNew
  <2> HIDE DEF x
  <2> QED
    BY <1>9, <1>b, <1>r, <2>1, <2>2, <2>3, <2>4, <2>5 DEF StoreNew
<1>10. ASSUME NEW t \in Threads, NEW v \in Users, CreateUser(t, v) PROVE TypeOK' /\ Acting'
  <2>1. req' \in [Threads -> Requests] /\ Acting'
    BY <1>a, <1>10, QuietSteps, QuietMeans
  <2>2. chosen' \in [Users -> 0..MaxWord]
    BY <1>b, <1>10, RowValues DEF CreateUser
  <2> QED
    BY <1>10, <1>b, <1>r, <2>1, <2>2, RowValues DEF CreateUser
<1>14. ASSUME NEW t \in Threads, NEW v \in Users, SwitchOn(t, v) PROVE TypeOK' /\ Acting'
  <2>1. req' \in [Threads -> Requests] /\ Acting'
    BY <1>a, <1>14, QuietSteps, QuietMeans
  <2>2. [users[v] EXCEPT !.enabled = TRUE] \in Rows
    BY <1>b, RowUpdates, RowValues
  <2>3. users' = [users EXCEPT ![v] = [users[v] EXCEPT !.enabled = TRUE]]
    BY <1>b, <1>14 DEF SwitchOn
  <2> QED
    BY <1>14, <1>b, <1>r, <2>1, <2>2, <2>3 DEF SwitchOn
<1>11. ASSUME NEW t \in Threads, NEW v \in Users, SwitchOff(t, v) PROVE TypeOK' /\ Acting'
  <2>1. req' \in [Threads -> Requests] /\ Acting'
    BY <1>a, <1>11, QuietSteps, QuietMeans
  <2>2. [users[v] EXCEPT !.enabled = FALSE] \in Rows
    BY <1>b, RowUpdates, RowValues
  <2>3. users' = [users EXCEPT ![v] = [users[v] EXCEPT !.enabled = FALSE]]
    BY <1>b, <1>11 DEF SwitchOff
  <2>4. sessions' \in [Sids -> [owner : Users \union {None}, epoch : 0..1]]
        /\ epoch' \in [Users -> 0..1]
    BY <1>b, <1>11 DEF SwitchOff
  <2>5. orphan' \in BOOLEAN
    BY <1>11 DEF SwitchOff
  <2> QED
    BY <1>11, <1>b, <1>r, <2>1, <2>2, <2>3, <2>4, <2>5 DEF SwitchOff
<1>12. ASSUME NEW s \in Sids, Forget(s) PROVE TypeOK' /\ Acting'
  BY <1>a, <1>12 DEF Forget, Acting, TypeOK
<1>13. ASSUME NEW u \in Users, Age(u) PROVE TypeOK' /\ Acting'
  BY <1>a, <1>13 DEF Age, Acting, TypeOK
<1> QED
  BY <1>0, <1>1, <1>2, <1>3, <1>4, <1>5, <1>6, <1>7, <1>9, <1>10, <1>11, <1>12, <1>13, <1>14 DEF Next
------------------------------------------------------------------------------
(* Accounts and sessions *)

\* Who disables another account is enabled himself, or was disabled meanwhile.
LEMMA EnabledStep == IInv /\ [Next]_vars => OnExists' /\ SomebodyEnabled'
<1> SUFFICES ASSUME IInv, [Next]_vars PROVE OnExists' /\ SomebodyEnabled'
  OBVIOUS
<1>a. users \in [Users -> Rows] /\ Acting /\ OnExists /\ SomebodyEnabled
  BY DEF IInv, TypeOK
<1>s. ASSUME \A u \in Users : users'[u].enabled = users[u].enabled /\ users'[u].exists = users[u].exists,
             orphan' = orphan
      PROVE  OnExists' /\ SomebodyEnabled'
  BY <1>a, <1>s DEF OnExists, SomebodyEnabled
<1>1. CASE \/ UNCHANGED vars
           \/ \E t \in Threads, u \in Users, w \in 0..MaxWord : Login(t, u, w)
           \/ \E t \in Threads : ReadUser(t) \/ Mismatch(t) \/ Match(t) \/ ReadOld(t)
           \/ \E t \in Threads, s \in Sids : Open(t, s) \/ Current(t, s, "change") \/ Current(t, s, "switch")
           \/ \E s \in Sids : Forget(s)
           \/ \E u \in Users : Age(u)
  BY <1>1, <1>s DEF vars, Login, ReadUser, Mismatch, Match, ReadOld, Open, Current, Forget, Age
<1>2. ASSUME NEW t \in Threads, Rehash(t) PROVE OnExists' /\ SomebodyEnabled'
  BY <1>2, <1>a, <1>s DEF Rehash, Rows
<1>3. ASSUME NEW t \in Threads, NEW w \in Words, StoreNew(t, w) PROVE OnExists' /\ SomebodyEnabled'
  BY <1>3, <1>a, <1>s DEF StoreNew, Rows
<1>4. ASSUME NEW t \in Threads, NEW v \in Users, CreateUser(t, v) \/ SwitchOn(t, v)
      PROVE  OnExists' /\ SomebodyEnabled'
  BY <1>4, <1>a DEF CreateUser, SwitchOn, OnExists, SomebodyEnabled, Rows
<1>5. ASSUME NEW t \in Threads, NEW v \in Users, SwitchOff(t, v) PROVE OnExists' /\ SomebodyEnabled'
  <2>1. req[t].user \in Users /\ v # req[t].user
    BY <1>5, <1>a DEF SwitchOff, Acting
  <2>2. /\ users'[req[t].user] = users[req[t].user]
        /\ orphan' = (orphan \/ ~users[req[t].user].enabled)
    BY <1>5, <1>a, <2>1 DEF SwitchOff
  <2>3. OnExists'
    BY <1>5, <1>a DEF SwitchOff, OnExists, Rows
  <2> QED
    BY <1>a, <2>1, <2>2, <2>3 DEF OnExists, SomebodyEnabled
<1> QED
  BY <1>1, <1>2, <1>3, <1>4, <1>5 DEF Next

\* Sessions are opened in the epoch of the moment, and none outlives its epoch.
LEMMA RevokedStep == IInv /\ [Next]_vars => NoSessionRevived'
<1> SUFFICES ASSUME IInv, [Next]_vars PROVE NoSessionRevived'
  OBVIOUS
<1>a. /\ sessions \in [Sids -> [owner : Users \union {None}, epoch : 0..1]]
      /\ epoch \in [Users -> 0..1] /\ Acting /\ NoSessionRevived /\ None \notin Users
  BY AuthAssumption DEF IInv, TypeOK
<1>s. ASSUME sessions' = sessions, epoch' = epoch PROVE NoSessionRevived'
  BY <1>a, <1>s DEF NoSessionRevived
<1>1. CASE \/ UNCHANGED vars
           \/ \E t \in Threads, u \in Users, w \in 0..MaxWord : Login(t, u, w)
           \/ \E t \in Threads : ReadUser(t) \/ Mismatch(t) \/ Match(t) \/ Rehash(t) \/ ReadOld(t)
           \/ \E t \in Threads, s \in Sids : Current(t, s, "change") \/ Current(t, s, "switch")
           \/ \E t \in Threads, w \in Words : StoreNew(t, w)
           \/ \E t \in Threads, v \in Users : CreateUser(t, v) \/ SwitchOn(t, v)
           \/ \E u \in Users : Age(u)
  BY <1>1, <1>s DEF vars, Login, ReadUser, Mismatch, Match, Rehash, ReadOld, Current, StoreNew,
     CreateUser, SwitchOn, Age
<1>2. ASSUME NEW t \in Threads, NEW s \in Sids, Open(t, s) PROVE NoSessionRevived'
  BY <1>2, <1>a DEF Open, NoSessionRevived
<1>3. ASSUME NEW s \in Sids, Forget(s) PROVE NoSessionRevived'
  BY <1>3, <1>a DEF Forget, NoSessionRevived
<1>4. ASSUME NEW t \in Threads, NEW v \in Users, SwitchOff(t, v) PROVE NoSessionRevived'
  BY <1>4, <1>a DEF SwitchOff, NoSessionRevived
<1> QED
  BY <1>1, <1>2, <1>3, <1>4 DEF Next
------------------------------------------------------------------------------
(* Passwords *)

LEMMA PasswordStep == IInv /\ [Next]_vars => RehashHonest' /\ PasswordIsLastChosen'
<1> SUFFICES ASSUME IInv, [Next]_vars PROVE RehashHonest' /\ PasswordIsLastChosen'
  OBVIOUS
<1>a. /\ users \in [Users -> Rows] /\ chosen \in [Users -> 0..MaxWord] /\ overtaken \subseteq Users
      /\ req \in [Threads -> [pc : Pcs, user : Users \union {None}, word : 0..MaxWord, row : Rows]]
      /\ TypeOK /\ Acting /\ RehashHonest /\ PasswordIsLastChosen
  BY DEF IInv, TypeOK
\* Steps that touch no password, and take no request into a verification.
<1>s. ASSUME \A u \in Users : users'[u].exists = users[u].exists /\ users'[u].word = users[u].word,
             chosen' = chosen, overtaken' = overtaken,
             \A t \in Threads : req'[t] = req[t] \/ req'[t].pc \notin {"verify", "rehash"}
      PROVE  RehashHonest' /\ PasswordIsLastChosen'
  BY <1>a, <1>s DEF RehashHonest, PasswordIsLastChosen, Verifies, Acting
<1>0. CASE UNCHANGED vars
  BY <1>0, <1>s DEF vars
<1>1. ASSUME NEW t \in Threads, NEW u \in Users, NEW w \in 0..MaxWord, Login(t, u, w)
      PROVE  RehashHonest' /\ PasswordIsLastChosen'
  <2>1. \A r \in Threads : req'[r] = req[r] \/ req'[r].pc \notin {"verify", "rehash"}
    BY <1>1, <1>a DEF Login, Idle
  <2> QED
    BY <1>1, <1>s, <2>1 DEF Login
<1>2. ASSUME NEW t \in Threads, ReadUser(t) PROVE RehashHonest' /\ PasswordIsLastChosen'
  <2>1. req[t].user \in Users /\ req'[t].user = req[t].user /\ req'[t].row = users[req[t].user]
        /\ req'[t].pc = "verify" /\ \A r \in Threads \ {t} : req'[r] = req[r]
    BY <1>2, <1>a DEF ReadUser, Acting
  <2>2. users' = users /\ chosen' = chosen /\ overtaken' = overtaken
    BY <1>2 DEF ReadUser
  <2> QED
    BY <1>a, <2>1, <2>2 DEF RehashHonest, PasswordIsLastChosen, Verifies
<1>3. ASSUME NEW t \in Threads, Mismatch(t) \/ ReadOld(t)
             \/ \E s \in Sids : Open(t, s) \/ Current(t, s, "change") \/ Current(t, s, "switch")
      PROVE  RehashHonest' /\ PasswordIsLastChosen'
  <2>1. \A r \in Threads : req'[r] = req[r] \/ req'[r].pc \notin {"verify", "rehash"}
    BY <1>3, <1>a, QuietSteps, QuietMeans
  <2>2. users' = users /\ chosen' = chosen /\ overtaken' = overtaken
    BY <1>3 DEF Mismatch, ReadOld, Open, Current
  <2> QED
    BY <1>s, <2>1, <2>2
<1>4. ASSUME NEW t \in Threads, Match(t) PROVE RehashHonest' /\ PasswordIsLastChosen'
  <2>1. users' = users /\ chosen' = chosen /\ overtaken' = overtaken
    BY <1>4 DEF Match
  <2>2. CASE Rehashing(t)
    <3>1. /\ req'[t].pc = "rehash" /\ req'[t].user = req[t].user /\ req'[t].row = req[t].row
          /\ req'[t].word = req[t].word /\ \A r \in Threads \ {t} : req'[r] = req[r]
      BY <1>4, <2>2, <1>a DEF Match, Rehashing, Goto
    <3>2. req[t].pc = "verify" /\ req[t].row.exists /\ req[t].row.word = req[t].word
      BY <1>4 DEF Match
    <3> QED
      BY <1>a, <2>1, <2>2, <3>1, <3>2 DEF RehashHonest, PasswordIsLastChosen, Verifies, Rehashing
  <2>3. CASE ~Rehashing(t)
    <3>1. \A r \in Threads : req'[r] = req[r] \/ req'[r].pc \notin {"verify", "rehash"}
      BY <2>3, <1>4, <1>a, QuietSteps, QuietMeans
    <3> QED
      BY <1>s, <2>1, <3>1
  <2> QED
    BY <2>2, <2>3
<1>5. ASSUME NEW t \in Threads, Rehash(t) PROVE RehashHonest' /\ PasswordIsLastChosen'
  <2>1. /\ req[t].pc = "rehash" /\ req[t].user \in Users
        /\ req[t].user \in overtaken \/ req[t].word = chosen[req[t].user]
    BY <1>5, <1>a DEF Rehash, RehashHonest, Verifies, Acting
  <2>2. /\ chosen' = chosen /\ overtaken' = overtaken
        /\ \A u \in Users : users'[u].exists = users[u].exists
        /\ \A u \in Users \ {req[t].user} : users'[u].word = users[u].word
        /\ users'[req[t].user].word = req[t].word
    BY <1>5, <1>a, <2>1 DEF Rehash, Rows
  <2>3. \A r \in Threads : req'[r] = req[r] \/ req'[r].pc \notin {"verify", "rehash"}
    BY <1>5, <1>a DEF Rehash, Verified, Idle
  <2>4. PasswordIsLastChosen'
    BY <1>a, <2>1, <2>2 DEF PasswordIsLastChosen
  <2>5. RehashHonest'
    BY <1>a, <2>2, <2>3 DEF RehashHonest, Verifies, Acting
  <2> QED
    BY <2>4, <2>5
<1>6. ASSUME NEW t \in Threads, NEW w \in Words, StoreNew(t, w)
      PROVE  RehashHonest' /\ PasswordIsLastChosen'
  <2> DEFINE u == req[t].user
  <2>1. u \in Users
    BY <1>6, <1>a DEF StoreNew, Acting
  <2>2. /\ \A v \in Users : users'[v].exists = users[v].exists
        /\ \A v \in Users \ {u} : users'[v].word = users[v].word /\ chosen'[v] = chosen[v]
        /\ users'[u].word = w /\ chosen'[u] = w
        /\ overtaken' = IF Rehashes(u) THEN overtaken \union {u} ELSE overtaken \ {u}
    BY <1>6, <1>a, <2>1 DEF StoreNew, Rows
  <2>3. \A r \in Threads : req'[r] = req[r] \/ req'[r].pc \notin {"verify", "rehash"}
    BY <1>6, <1>a DEF StoreNew, Done, Idle
  <2>4. PasswordIsLastChosen'
    BY <1>a, <2>1, <2>2 DEF PasswordIsLastChosen
  <2>5. ASSUME NEW r \in Threads, req[r].user = u, Verifies(r), req[r].row.outdated
        PROVE  u \in overtaken'
    BY <2>2, <2>5 DEF Rehashes, Verifies
  <2>6. RehashHonest'
    <3> SUFFICES ASSUME NEW r \in Threads
                 PROVE  /\ req'[r].pc = "rehash" => /\ req'[r].row.exists /\ req'[r].row.outdated
                                                    /\ req'[r].row.word = req'[r].word
                        /\ Verifies(r)' => users'[req'[r].user].exists
                        /\ Verifies(r)' /\ req'[r].row.outdated =>
                             req'[r].user \in overtaken' \/ req'[r].row.word = chosen'[req'[r].user]
      BY DEF RehashHonest
    <3>1. CASE req'[r].pc \notin {"verify", "rehash"}
      BY <3>1 DEF Verifies
    <3>2. CASE req'[r] = req[r] /\ req[r].pc \in {"verify", "rehash"}
      <4>1. req[r].user \in Users
        BY <1>a, <3>2 DEF Acting
      <4>2. Verifies(r)' <=> Verifies(r)
        BY <3>2 DEF Verifies
      <4> QED
        BY <1>a, <2>1, <2>2, <2>5, <3>2, <4>1, <4>2 DEF RehashHonest
    <3> QED
      BY <2>3, <3>1, <3>2
  <2> QED
    BY <2>4, <2>6
<1>7. ASSUME NEW t \in Threads, NEW v \in Users, CreateUser(t, v)
      PROVE  RehashHonest' /\ PasswordIsLastChosen'
  <2>1. ~users[v].exists /\ overtaken' = overtaken
    BY <1>7 DEF CreateUser
  <2>2. /\ \A u \in Users \ {v} : users'[u] = users[u] /\ chosen'[u] = chosen[u]
        /\ users'[v].exists /\ users'[v].word = 1 /\ chosen'[v] = 1
    BY <1>7, <1>a DEF CreateUser
  <2>3. \A r \in Threads : req'[r] = req[r] \/ req'[r].pc \notin {"verify", "rehash"}
    BY <1>7, <1>a DEF CreateUser, Done, Idle
  <2>4. PasswordIsLastChosen'
    BY <1>a, <2>1, <2>2 DEF PasswordIsLastChosen
  <2>5. \A r \in Threads : Verifies(r) => req[r].user \in Users \ {v}
    BY <1>a, <2>1 DEF RehashHonest, Verifies, Acting
  <2>6. RehashHonest'
    BY <1>a, <2>1, <2>2, <2>3, <2>5 DEF RehashHonest, Verifies
  <2> QED
    BY <2>4, <2>6
<1>8. ASSUME NEW t \in Threads, NEW v \in Users, SwitchOn(t, v) \/ SwitchOff(t, v)
      PROVE  RehashHonest' /\ PasswordIsLastChosen'
  <2>1. \A u \in Users : users'[u].exists = users[u].exists /\ users'[u].word = users[u].word
    <3>1. users' = [users EXCEPT ![v].enabled = TRUE] \/ users' = [users EXCEPT ![v].enabled = FALSE]
      BY <1>8 DEF SwitchOn, SwitchOff
    <3> QED
      BY <1>a, <3>1 DEF Rows
  <2>2. \A r \in Threads : req'[r] = req[r] \/ req'[r].pc \notin {"verify", "rehash"}
    BY <1>8, <1>a DEF SwitchOn, SwitchOff, Done, Idle
  <2> QED
    BY <1>8, <1>s, <2>1, <2>2 DEF SwitchOn, SwitchOff
<1>9. CASE (\E s \in Sids : Forget(s)) \/ \E u \in Users : Age(u)
  BY <1>9, <1>s DEF Forget, Age
<1> QED
  BY <1>0, <1>1, <1>2, <1>3, <1>4, <1>5, <1>6, <1>7, <1>8, <1>9 DEF Next
------------------------------------------------------------------------------
(* The limit on failed logins *)

\* The sums behind the limit.
LEMMA FewerAttempts ==
    ASSUME NEW a \in Nat, NEW b \in Nat, NEW m \in Nat, NEW n \in Nat, NEW c \in Nat,
           NEW max \in Nat, b <= a, m <= n, a + n <= max - 1 + c
    PROVE  b + m <= max - 1 + c /\ b <= max - 1 + c
OBVIOUS
LEMMA UnderLimit ==
    ASSUME NEW a \in Nat, NEW m \in Nat, NEW c \in Nat, NEW max \in Nat, a < max, m <= c
    PROVE  a + m <= max - 1 + c
OBVIOUS

\* A login enters under the limit and every other step lets the sum of what is
\* counted and what is in flight be, or lowers it.
LEMMA LimitStep == IInv /\ [Next]_vars => LimitKept'
<1> SUFFICES ASSUME IInv, [Next]_vars PROVE LimitKept'
  OBVIOUS
<1>a. /\ req \in [Threads -> [pc : Pcs, user : Users \union {None}, word : 0..MaxWord, row : Rows]]
      /\ attempts \in [Users -> Nat] /\ Acting /\ LimitKept /\ MaxAttempts \in Nat \ {0}
  BY AuthAssumption DEF IInv, TypeOK
<1>q. TypeOK /\ \A t \in Threads : Quiet(t) =>
        /\ \A r \in Threads \ {t} : req'[r] = req[r]
        /\ req'[t].pc \notin {"read", "verify", "rehash"}
  BY QuietMeans DEF IInv
<1>n. \A u : /\ IsFiniteSet(InFlight(u)) /\ Cardinality(InFlight(u)) \in Nat
             /\ Cardinality(InFlight(u)) <= Cardinality(Threads) /\ Cardinality(Threads) \in Nat
  BY InFlightFinite
\* No more attempts, and nobody newly in flight.
<1>s. ASSUME \A u \in Users : attempts'[u] \in Nat /\ attempts'[u] <= attempts[u],
             \A u \in Users : InFlight(u)' \subseteq InFlight(u)
      PROVE  LimitKept'
  <2>1. \A u \in Users : Cardinality(InFlight(u)') \in Nat
                         /\ Cardinality(InFlight(u)') <= Cardinality(InFlight(u))
    BY <1>n, <1>s, FS_Subset, FS_CardinalityType
  <2>2. ASSUME NEW u \in Users
        PROVE  attempts'[u] + Cardinality(InFlight(u)') <= MaxAttempts - 1 + Cardinality(Threads)
    <3>1. attempts[u] + Cardinality(InFlight(u)) <= MaxAttempts - 1 + Cardinality(Threads)
      BY <1>a DEF LimitKept
    <3>2. attempts[u] \in Nat /\ attempts'[u] \in Nat /\ attempts'[u] <= attempts[u]
      BY <1>a, <1>s
    <3> QED
      BY <1>a, <1>n, <2>1, <3>1, <3>2, FewerAttempts
  <2> QED
    BY <2>2 DEF LimitKept
<1>1. ASSUME NEW t \in Threads, NEW u \in Users, NEW w \in 0..MaxWord, Login(t, u, w) PROVE LimitKept'
  <2>1. attempts' = attempts /\ attempts[u] < MaxAttempts /\ req[t].pc = "idle"
    BY <1>1 DEF Login
  <2>2. \A v \in Users \ {u} : InFlight(v)' = InFlight(v)
    BY <1>1, <1>a, <2>1 DEF Login, InFlight, Idle
  <2>3. InFlight(u)' \subseteq Threads
    BY DEF InFlight
  <2>4. Cardinality(InFlight(u)') \in Nat /\ Cardinality(InFlight(u)') <= Cardinality(Threads)
    BY <2>3, AuthAssumption, FS_Subset, FS_CardinalityType
  <2>5. attempts'[u] + Cardinality(InFlight(u)') <= MaxAttempts - 1 + Cardinality(Threads)
    <3>1. attempts'[u] \in Nat /\ attempts'[u] < MaxAttempts
      BY <1>a, <2>1
    <3> QED
      BY <1>a, <1>n, <2>4, <3>1, UnderLimit
  <2> QED
    BY <1>a, <2>1, <2>2, <2>5 DEF LimitKept
<1>2. ASSUME NEW t \in Threads, Mismatch(t) PROVE LimitKept'
  <2>0. PICK u \in Users : u = req[t].user
    BY <1>2, <1>a DEF Mismatch, Acting
  <2>1. t \in InFlight(u)
    BY <1>2, <2>0 DEF Mismatch, InFlight
  <2>2. attempts' = [attempts EXCEPT ![u] = @ + 1]
    BY <1>2, <2>0 DEF Mismatch
  <2>3. InFlight(u)' = InFlight(u) \ {t} /\ \A v \in Users \ {u} : InFlight(v)' = InFlight(v)
    <3>1. Quiet(t)
      BY <1>2, <1>a, <1>q, QuietSteps
    <3> QED
      BY <1>q, <2>0, <3>1 DEF InFlight
  <2>4. Cardinality(InFlight(u)') = Cardinality(InFlight(u)) - 1
    BY <1>n, <2>1, <2>3, FS_RemoveElement
  <2>5. attempts'[u] + Cardinality(InFlight(u)') <= MaxAttempts - 1 + Cardinality(Threads)
    <3>1. attempts[u] + Cardinality(InFlight(u)) <= MaxAttempts - 1 + Cardinality(Threads)
      BY <1>a, <2>1 DEF LimitKept
    <3>2. attempts'[u] = attempts[u] + 1 /\ attempts[u] \in Nat
      BY <1>a, <2>1, <2>2
    <3>3. attempts'[u] + Cardinality(InFlight(u)') = attempts[u] + Cardinality(InFlight(u))
      BY <1>n, <2>4, <3>2
    <3> QED
      BY <3>1, <3>3
  <2>6. \A v \in Users \ {u} : attempts'[v] = attempts[v]
    BY <1>a, <2>1, <2>2
  <2>7. ASSUME NEW v \in Users \ {u}
        PROVE  attempts'[v] + Cardinality(InFlight(v)') <= MaxAttempts - 1 + Cardinality(Threads)
    BY <1>a, <2>3, <2>6 DEF LimitKept
  <2> QED
    BY <2>5, <2>7 DEF LimitKept
<1>3. ASSUME NEW t \in Threads, ReadUser(t) PROVE LimitKept'
  <2>1. \A u \in Users : InFlight(u)' \subseteq InFlight(u)
    BY <1>3, <1>a DEF ReadUser, InFlight
  <2> QED
    BY <1>3, <1>a, <1>s, <2>1 DEF ReadUser
<1>4. ASSUME NEW t \in Threads, Match(t) PROVE LimitKept'
  <2>1. \A u \in Users : InFlight(u)' \subseteq InFlight(u)
    <3>1. CASE ~Rehashing(t)
      BY <1>4, <1>a, <1>q, <3>1, QuietSteps DEF InFlight
    <3>2. CASE Rehashing(t)
      BY <1>4, <1>a, <3>2 DEF Match, Rehashing, Goto, InFlight
    <3> QED
      BY <3>1, <3>2
  <2>2. \A u \in Users : attempts'[u] \in Nat /\ attempts'[u] <= attempts[u]
    BY <1>4, <1>a DEF Match, Acting
  <2> QED
    BY <1>s, <2>1, <2>2
<1>5. ASSUME NEW t \in Threads,
             \/ Rehash(t) \/ ReadOld(t) \/ \E w \in Words : StoreNew(t, w)
             \/ \E s \in Sids : Open(t, s) \/ Current(t, s, "change") \/ Current(t, s, "switch")
             \/ \E v \in Users : CreateUser(t, v) \/ SwitchOn(t, v) \/ SwitchOff(t, v)
      PROVE  LimitKept'
  <2>1. \A u \in Users : InFlight(u)' \subseteq InFlight(u)
    BY <1>5, <1>a, <1>q, QuietSteps DEF InFlight
  <2>2. attempts' = attempts
    BY <1>5 DEF Rehash, ReadOld, StoreNew, Open, Current, CreateUser, SwitchOn, SwitchOff
  <2> QED
    BY <1>a, <1>s, <2>1, <2>2
<1>6. CASE UNCHANGED vars \/ \E s \in Sids : Forget(s)
  <2>1. attempts' = attempts /\ req' = req
    BY <1>6 DEF vars, Forget
  <2> QED
    BY <1>a, <1>s, <2>1 DEF InFlight
<1>7. ASSUME NEW u \in Users, Age(u) PROVE LimitKept'
  <2>1. \A v \in Users : attempts'[v] \in Nat /\ attempts'[v] <= attempts[v]
    BY <1>7, <1>a DEF Age
  <2> QED
    BY <1>7, <1>s, <2>1 DEF Age, InFlight
<1> QED
  BY <1>1, <1>2, <1>3, <1>4, <1>5, <1>6, <1>7 DEF Next
------------------------------------------------------------------------------
\* The inductive invariant holds in every reachable state.
THEOREM Invariance == Spec => []IInv
<1>1. IInv /\ [Next]_vars => IInv'
  BY TypeStep, EnabledStep, RevokedStep, PasswordStep, LimitStep DEF IInv
<1> QED
  BY InitIInv, <1>1, PTL DEF Spec

\* Accounts, sessions, counters and requests keep their types (AuthService).
THEOREM TypeCorrect == Spec => []TypeOK
<1>1. IInv => TypeOK
  BY DEF IInv
<1> QED
  BY Invariance, <1>1, PTL

\* Whatever logins rehash and whoever changes what, no account gets a password
\* back that was replaced before the rehashing login read it (login, line 112).
THEOREM NoOldPassword == Spec => []PasswordIsLastChosen
<1>1. IInv => PasswordIsLastChosen
  BY DEF IInv
<1> QED
  BY Invariance, <1>1, PTL

\* The service never locks everybody out, but by a request that outlives the
\* account it was let in for (set_user_enabled).
THEOREM NobodyLockedOut == Spec => []SomebodyEnabled
<1>1. IInv => SomebodyEnabled
  BY DEF IInv
<1> QED
  BY Invariance, <1>1, PTL

\* Disabling an account revokes its sessions for good (set_user_enabled).
THEOREM DisablingRevokes == Spec => []NoSessionRevived
<1>1. IInv => NoSessionRevived
  BY DEF IInv
<1> QED
  BY Invariance, <1>1, PTL

\* The limit on failed logins holds up to the requests in flight together
\* (_check_rate_limit and _record_failed_attempt).
THEOREM LimitHolds == Spec => []AttemptsBounded
<1>1. IInv => AttemptsBounded
  <2> SUFFICES ASSUME IInv, NEW u \in Users
               PROVE  attempts[u] <= MaxAttempts - 1 + Cardinality(Threads)
    BY DEF AttemptsBounded
  <2>1. attempts[u] + Cardinality(InFlight(u)) <= MaxAttempts - 1 + Cardinality(Threads)
    BY DEF IInv, LimitKept
  <2>2. attempts[u] \in Nat
    BY DEF IInv, TypeOK
  <2> QED
    BY <2>1, <2>2, InFlightFinite, AuthAssumption, FewerAttempts
<1> QED
  BY Invariance, <1>1, PTL
==============================================================================
