------------------------------ MODULE CoreProofs ------------------------------
(***************************************************************************)
(* Proofs about Core, for bodies, addresses, tables and sets of tickets of *)
(* every size, every schedule, and every sequence of answers to a probe;   *)
(* and about Monitor, which works by that schedule. A function's result    *)
(* stands in one lemma about its argument, whatever the argument is; the   *)
(* theorem about Core then says that its input is such an argument.        *)
(***************************************************************************)
EXTENDS Core, Monitor, FiniteSetTheorems, WellFoundedInduction, TLAPS

--------------------------------------------------------------------------------
(* The schedule                                                            *)

(* What is left of a division is less than what was divided by             *)
LEMMA Remainder == ASSUME NEW x \in Int, NEW m \in Nat \ {0} PROVE x % m \in 0..(m - 1)
OBVIOUS

(* A twentieth                                                             *)
LEMMA Twentieth == ASSUME NEW n \in Nat PROVE n \div 20 \in Nat /\ 20 * (n \div 20) <= n
OBVIOUS

(* The jitter strays by the spread at most                                 *)
LEMMA JitterBounds ==
  ASSUME NEW id \in Nat, NEW a \in Nat, NEW b \in Nat, NEW spread \in Nat
  PROVE  Jitter(id, a, b, spread) \in (-spread)..spread
<1> DEFINE m == spread * 2 + 1
<1>1. m \in Nat \ {0} OBVIOUS
<1>2. a % m \in Nat BY <1>1
<1>3. id * (a % m) + b \in Int BY <1>2
<1>4. (id * (a % m) + b) % m \in 0..(m - 1) BY <1>1, <1>3, Remainder
<1> QED BY <1>4 DEF Jitter

(* A wait strays from its interval by a twentieth at most                  *)
LEMMA PacedBounds ==
  ASSUME NEW id \in Nat, NEW a \in Nat, NEW b \in Nat, NEW n \in Nat, n >= 30
  PROVE  /\ Paced(id, a, b, n) \in Nat
         /\ 20 * Paced(id, a, b, n) >= 19 * n /\ 20 * Paced(id, a, b, n) <= 21 * n
<1>1. n \div 20 \in Nat /\ 20 * (n \div 20) <= n BY Twentieth
<1>2. Spread(n) \in Nat /\ 20 * Spread(n) <= n BY <1>1 DEF Spread
<1>3. Jitter(id, a, b, Spread(n)) \in (-Spread(n))..Spread(n) BY <1>2, JitterBounds
<1> QED BY <1>2, <1>3 DEF Paced
--------------------------------------------------------------------------------
(* An input is one of those that can be given                              *)
Given == input = NoInput \/ input \in Inputs

(* The input stays what it was                                             *)
LEMMA GivenAlways == CoreSpec => []Given
<1>1. CoreInit => Given BY DEF CoreInit, Given
<1>2. Given /\ [Next /\ UNCHANGED input]_coreVars => Given' BY DEF Given, coreVars
<1> QED BY <1>1, <1>2, PTL DEF CoreSpec

(* The backoff grows with how bad the status is                            *)
LEMMA BackoffGrows ==
  ASSUME NEW e \in Entries, NEW s \in Schedules
  PROVE  LET b(status) == Backoff(e, status, s) IN
         /\ \A status : b(status) \in Nat /\ b(status) >= 30
         /\ b("degraded") >= 2 * b("up") /\ b("degraded") >= 600
         /\ b("rate_limited") >= 900 /\ b("rate_limited") >= 4 * b("up")
         /\ b("degraded") <= 2 * b("up") \/ b("degraded") = 600
         /\ b("rate_limited") <= 4 * b("up") \/ b("rate_limited") = 900
         /\ b("auth_error") >= 12 * b("up") /\ b("auth_error") >= 21600
<1>1. /\ e.interval = 0 \/ (e.interval \in Nat /\ e.interval >= 30)
      /\ s.interval \in Nat /\ s.down \in Nat
  BY ScheduleAssumption DEF Entries, Schedules
<1>2. ASSUME NEW status PROVE Backoff(e, status, s) \in Nat /\ Backoff(e, status, s) >= 30
  BY <1>1 DEF Backoff
<1>3. PICK own \in Nat : own >= 30 /\ Backoff(e, "up", s) = own /\
        own = IF e.interval # 0 THEN e.interval ELSE IF 30 > s.interval THEN 30 ELSE s.interval
  BY <1>1 DEF Backoff
<1>4. /\ Backoff(e, "degraded", s) = IF own * 2 > 600 THEN own * 2 ELSE 600
      /\ Backoff(e, "rate_limited", s) = IF own * 4 > 900 THEN own * 4 ELSE 900
      /\ Backoff(e, "auth_error", s) = IF own * 12 > 21600 THEN own * 12 ELSE 21600
  BY <1>3 DEF Backoff
<1> QED BY <1>2, <1>3, <1>4

(* A wait that is longer by four fifths before the jitter is longer        *)
LEMMA LongerStays ==
  ASSUME NEW w \in Nat, NEW v \in Nat, NEW m \in Nat, NEW n \in Nat,
         20 * w <= 21 * m, 20 * v >= 19 * n, 5 * n >= 6 * m, m >= 30
  PROVE  w < v
OBVIOUS

(* A wait after a check strays from the backoff by a twentieth at most     *)
LEMMA NextCheckBounds ==
  ASSUME NEW e \in Entries, NEW s \in Schedules, NEW status
  PROVE  LET w == NextCheck(e, status, s)
             b == Backoff(e, status, s)
         IN  w \in Nat /\ 20 * w >= 19 * b /\ 20 * w <= 21 * b
<1> DEFINE b == Backoff(e, status, s)
<1>1. b \in Nat /\ b >= 30 BY BackoffGrows
<1> HIDE DEF b
<1>2. e.id \in Nat BY ScheduleAssumption DEF Entries
<1>3. \A x, y \in Nat : LET w == Paced(e.id, x, y, b) IN w \in Nat /\ 20 * w >= 19 * b /\ 20 * w <= 21 * b
  BY <1>1, <1>2, PacedBounds
<1> QED BY <1>3, SMT DEF NextCheck, b

(* ... and a strict check from its interval                                *)
LEMMA NextStrictBounds ==
  ASSUME NEW e \in Entries, NEW s \in Schedules
  PROVE  LET usual == IF s.strict < 300 THEN 300 ELSE s.strict
         IN  20 * (NextStrictCheck(e, s) - usual) \in (-usual)..usual
<1>1. e.id \in Nat /\ s.strict \in Nat BY ScheduleAssumption DEF Entries, Schedules
<1>2. ASSUME NEW n \in Nat, n >= 30, NEW x \in Nat, NEW y \in Nat
      PROVE  20 * (Paced(e.id, x, y, n) - n) \in (-n)..n
  <2>1. PICK w \in Nat : w = Paced(e.id, x, y, n) /\ 20 * w >= 19 * n /\ 20 * w <= 21 * n
    BY <1>1, <1>2, PacedBounds
  <2>2. 20 * (w - n) = 20 * w - 20 * n BY <2>1
  <2>3. 20 * (w - n) \in (-n)..n BY <2>1, <2>2
  <2> QED BY <2>1, <2>3
<1>3. PICK n \in Nat : n >= 30 /\ n = IF s.strict < 300 THEN 300 ELSE s.strict BY <1>1
<1>4. n = IF 300 > s.strict THEN 300 ELSE s.strict BY <1>1, <1>3
<1>5. 20 * (NextStrictCheck(e, s) - n) \in (-n)..n BY <1>2, <1>3, <1>4, SMT DEF NextStrictCheck
<1> QED BY <1>3, <1>5

(* A key in a worse state waits longer, whatever its interval, its id and  *)
(* the settings, and a strict check strays by a twentieth at most          *)
(* (monitor_next_check_at, strict_next_check_at)                           *)
THEOREM WorseWaits == CoreSpec => []WorseWaitsLonger
<1>1. ASSUME NEW e \in Entries, NEW s \in Schedules, Input("entry"), input.of = e
      PROVE  LET wait(status) == NextCheck(e, status, s)
                 usual == IF s.strict < 300 THEN 300 ELSE s.strict
             IN  /\ 20 * (NextStrictCheck(e, s) - usual) \in (-usual)..usual
                 /\ 1 < wait("up") /\ wait("up") < wait("degraded")
                 /\ wait("degraded") < wait("rate_limited") /\ wait("rate_limited") < wait("auth_error")
  <2> DEFINE b(status) == Backoff(e, status, s)
             wait(status) == NextCheck(e, status, s)
             usual == IF s.strict < 300 THEN 300 ELSE s.strict
  <2>1. e.id \in Nat /\ s.strict \in Nat BY ScheduleAssumption DEF Entries, Schedules
  <2>2. /\ \A status : b(status) \in Nat /\ b(status) >= 30
        /\ b("degraded") >= 2 * b("up") /\ b("degraded") >= 600
        /\ b("rate_limited") >= 900 /\ b("rate_limited") >= 4 * b("up")
        /\ b("degraded") <= 2 * b("up") \/ b("degraded") = 600
        /\ b("rate_limited") <= 4 * b("up") \/ b("rate_limited") = 900
        /\ b("auth_error") >= 12 * b("up") /\ b("auth_error") >= 21600
    BY BackoffGrows
  <2> HIDE DEF b
  <2>3. ASSUME NEW status
        PROVE  wait(status) \in Nat /\ 20 * wait(status) >= 19 * b(status) /\ 20 * wait(status) <= 21 * b(status)
    BY NextCheckBounds DEF b
  <2>4. 20 * (NextStrictCheck(e, s) - usual) \in (-usual)..usual BY NextStrictBounds
  <2> HIDE DEF wait, usual
  <2>5. 1 < wait("up") BY <2>2, <2>3
  <2>6. wait("up") < wait("degraded") BY <2>2, <2>3, LongerStays
  <2>7. wait("degraded") < wait("rate_limited") BY <2>2, <2>3, LongerStays
  <2>8. wait("rate_limited") < wait("auth_error") BY <2>2, <2>3, LongerStays
  <2> QED BY <2>4, <2>5, <2>6, <2>7, <2>8 DEF wait, usual
<1>2. Input("entry") /\ Given => input.of \in Entries
  BY DEF Inputs, Input, Calls, Given, NoInput
<1>3. Given => WorseWaitsLonger BY <1>1, <1>2 DEF WorseWaitsLonger
<1> QED BY <1>3, GivenAlways, PTL

--------------------------------------------------------------------------------
(* Sequences and their smallest index                                      *)

(* Every finite, non-empty set of integers has a least element             *)
LEMMA LeastExists ==
  ASSUME NEW S, IsFiniteSet(S), S \subseteq Int, S # {}
  PROVE  \E x \in S : \A y \in S : x <= y
<1> DEFINE HasLeast(X) == \E x \in X : \A y \in X : x <= y
           Bad == {X \in SUBSET S : X # {} /\ ~HasLeast(X)}
<1>1. SUFFICES ASSUME Bad # {} PROVE FALSE
  OBVIOUS
<1>2. Bad \subseteq FiniteSubsetsOf(S)
  BY FS_Subset DEF FiniteSubsetsOf
<1>3. PICK X \in Bad : \A Y \in Bad : ~(<<Y, X>> \in StrictSubsetOrdering(S))
  <2>1. IsWellFoundedOn(StrictSubsetOrdering(S), FiniteSubsetsOf(S))
    BY FS_StrictSubsetOrderingWellFounded
  <2> HIDE DEF Bad
  <2> QED BY <1>1, <1>2, <2>1, WFMin
<1>4. PICK x \in X : TRUE
  OBVIOUS
<1>5. X \ {x} \notin Bad
  <2>1. <<X \ {x}, X>> \in StrictSubsetOrdering(S)
    BY <1>4 DEF StrictSubsetOrdering
  <2> QED BY <1>3, <2>1
<1>6. X \ {x} = {} \/ HasLeast(X \ {x})
  BY <1>5
<1>7. CASE X \ {x} = {}
  <2>1. X = {x} BY <1>4, <1>7
  <2> QED BY <2>1, <1>3, <1>4
<1>8. CASE HasLeast(X \ {x})
  <2>1. PICK y \in X \ {x} : \A z \in X \ {x} : y <= z BY <1>8
  <2>2. x \in Int /\ y \in Int /\ X \subseteq Int BY <1>3, <1>4, <2>1
  <2>3. CASE x <= y
    <3>1. \A z \in X : x <= z BY <2>1, <2>2, <2>3
    <3> QED BY <3>1, <1>3, <1>4
  <2>4. CASE ~(x <= y)
    <3>1. \A z \in X : y <= z BY <2>1, <2>2, <2>4
    <3> QED BY <3>1, <1>3, <2>1
  <2> QED BY <2>3, <2>4
<1> QED BY <1>6, <1>7, <1>8

(* Min finds it                                                            *)
LEMMA MinIsLeast ==
  ASSUME NEW S, IsFiniteSet(S), S \subseteq Int, S # {}
  PROVE  Min(S) \in S /\ \A y \in S : Min(S) <= y
<1>1. \E x \in S : \A y \in S : x <= y BY LeastExists
<1> QED BY <1>1 DEF Min

--------------------------------------------------------------------------------
(* The evidence                                                            *)

(* An answer in the format of chat completions                             *)
LEMMA ChatOk ==
  ASSUME NEW xs \in Seq(ChatChoices)
  PROVE  Chat(xs).ok <=> \E i \in DOMAIN xs : Speaks(xs[i])
<1> DEFINE I == {i \in 1..Len(xs) : Speaks(xs[i])}
           Said(i) == Verdict(xs[i].content.words, Reasons(xs[i]), xs[i].cut)
           Unsaid == Verdict(FALSE, FALSE, \E j \in DOMAIN xs : xs[j].object /\ xs[j].cut)
<1>1. Len(xs) \in Nat /\ DOMAIN xs = 1..Len(xs) OBVIOUS
<1>2. IsFiniteSet(I)
  <2>1. IsFiniteSet(1..Len(xs)) BY <1>1, FS_Interval
  <2> QED BY <2>1, FS_Subset
<1>3. I \subseteq Int /\ 0 \notin I OBVIOUS
<1>4. \A i \in I : i \in DOMAIN xs /\ Speaks(xs[i]) BY <1>1
<1>5. \A i \in DOMAIN xs : Speaks(xs[i]) => i \in I BY <1>1
<1>6. Chat(xs) = IF (IF I # {} THEN Min(I) ELSE 0) # 0 THEN Said(IF I # {} THEN Min(I) ELSE 0) ELSE Unsaid
  BY DEF Chat, SelectInSeq
<1>7. \A i : Said(i).ok = (xs[i].content.words \/ Reasons(xs[i])) BY DEF Verdict
<1>8. Unsaid.ok = FALSE BY DEF Verdict
<1> HIDE DEF I, Said, Unsaid
<1>9. CASE I # {}
  <2>1. Min(I) \in I BY <1>2, <1>3, <1>9, MinIsLeast
  <2>2. Chat(xs) = Said(Min(I)) BY <1>3, <1>6, <1>9, <2>1
  <2> QED BY <1>4, <1>7, <2>1, <2>2 DEF Speaks
<1>10. CASE I = {}
  <2>1. Chat(xs) = Unsaid BY <1>6, <1>10
  <2> QED BY <1>5, <1>8, <1>10, <2>1
<1> QED BY <1>9, <1>10

(* Some of the texts has words, or a block of thinking                     *)
Words(xs) == \E i \in DOMAIN xs : xs[i].words
Thinks(xs) == \E i \in DOMAIN xs : xs[i].think

(* What texts that are joined say                                          *)
LEMMA JoinedSays ==
  ASSUME NEW p \in Seq(Texts), NEW q \in Seq(Texts)
  PROVE  Joined(<<Nothing>> \o p \o q) = [words |-> Words(p) \/ Words(q), think |-> Thinks(p) \/ Thinks(q)]
<1> DEFINE r == <<Nothing>> \o p \o q
<1>1. Nothing \in Texts /\ ~Nothing.words /\ ~Nothing.think BY DEF Nothing, Texts
<1>2. /\ Len(p) \in Nat /\ Len(q) \in Nat /\ DOMAIN p = 1..Len(p) /\ DOMAIN q = 1..Len(q)
      /\ r \in Seq(Texts) /\ Len(r) = 1 + Len(p) + Len(q) /\ DOMAIN r = 1..(1 + Len(p) + Len(q))
  BY <1>1
<1>3. \A i \in DOMAIN r : r[i] = IF i = 1 THEN Nothing ELSE IF i <= 1 + Len(p) THEN p[i - 1] ELSE q[i - 1 - Len(p)]
  BY <1>1, <1>2
<1> HIDE DEF r
<1>4. \A i \in DOMAIN r : \/ r[i] = Nothing \/ (\E j \in DOMAIN p : r[i] = p[j]) \/ \E j \in DOMAIN q : r[i] = q[j]
  <2> TAKE i \in DOMAIN r
  <2>1. CASE i = 1 BY <1>3, <2>1
  <2>2. CASE i # 1 /\ i <= 1 + Len(p)
    <3>1. i - 1 \in DOMAIN p /\ r[i] = p[i - 1] BY <1>2, <1>3, <2>2
    <3> QED BY <3>1
  <2>3. CASE i # 1 /\ ~(i <= 1 + Len(p))
    <3>1. i - 1 - Len(p) \in DOMAIN q /\ r[i] = q[i - 1 - Len(p)] BY <1>2, <1>3, <2>3
    <3> QED BY <3>1
  <2> QED BY <2>1, <2>2, <2>3
<1>5. ASSUME NEW j \in DOMAIN p PROVE \E i \in DOMAIN r : r[i] = p[j]
  <2>1. j + 1 \in DOMAIN r /\ r[j + 1] = p[j] BY <1>2, <1>3
  <2> QED BY <2>1
<1>6. ASSUME NEW j \in DOMAIN q PROVE \E i \in DOMAIN r : r[i] = q[j]
  <2>1. j + 1 + Len(p) \in DOMAIN r /\ r[j + 1 + Len(p)] = q[j] BY <1>2, <1>3
  <2> QED BY <2>1
<1>7. Words(r) <=> Words(p) \/ Words(q) BY <1>1, <1>4, <1>5, <1>6 DEF Words
<1>8. Thinks(r) <=> Thinks(p) \/ Thinks(q) BY <1>1, <1>4, <1>5, <1>6 DEF Thinks
<1>9. Joined(r) = [words |-> Words(r), think |-> Thinks(r)] BY DEF Joined, Words, Thinks
<1>10. Words(r) = (Words(p) \/ Words(q)) /\ Thinks(r) = (Thinks(p) \/ Thinks(q))
  BY <1>7, <1>8 DEF Words, Thinks
<1> QED BY <1>9, <1>10 DEF r

(* An answer in the format of responses                                    *)
LEMMA ResponsesOk ==
  ASSUME NEW xs \in Seq(Items)
  PROVE  Responses(Nothing, xs, FALSE).ok <=> \E i \in DOMAIN xs : {xs[i].content, xs[i].reasoning} # {Nothing}
<1> DEFINE p == [i \in DOMAIN xs |-> xs[i].content]
           q == [i \in DOMAIN xs |-> xs[i].reasoning]
           all == Joined(<<Nothing>> \o p \o q)
           separate == \E i \in DOMAIN xs : xs[i].reasoning # Nothing
<1>0. \A i \in DOMAIN xs : xs[i] \in Items OBVIOUS
<1>1. \A i \in DOMAIN xs : xs[i].content \in Texts /\ xs[i].reasoning \in Texts BY <1>0 DEF Items
<1>2. p \in Seq(Texts) /\ q \in Seq(Texts) /\ DOMAIN p = DOMAIN xs /\ DOMAIN q = DOMAIN xs
  BY <1>1
<1>3. \A i \in DOMAIN xs : p[i] = xs[i].content /\ q[i] = xs[i].reasoning OBVIOUS
<1>4. \A x \in Texts : x # Nothing <=> x.words \/ x.think BY DEF Texts, Nothing
<1>5. Responses(Nothing, xs, FALSE) = Verdict(all.words, separate \/ all.think, FALSE) BY DEF Responses
<1>6. all = [words |-> Words(p) \/ Words(q), think |-> Thinks(p) \/ Thinks(q)]
  <2> HIDE DEF p, q
  <2> QED BY <1>2, JoinedSays
<1> HIDE DEF p, q, all, separate
<1>7. all.words = (Words(p) \/ Words(q)) /\ all.think = (Thinks(p) \/ Thinks(q)) BY <1>6
<1>8. Responses(Nothing, xs, FALSE).ok = (all.words \/ (separate \/ all.think))
  <2> DEFINE thought == separate \/ all.think
             v == Verdict(all.words, thought, FALSE)
  <2>1. Responses(Nothing, xs, FALSE) = v BY <1>5
  <2>2. v.ok = (all.words \/ thought) BY DEF Verdict
  <2> HIDE DEF v
  <2> QED BY <2>1, <2>2, Zenon
<1>9. Words(p) \/ Thinks(p) <=> \E i \in DOMAIN xs : xs[i].content # Nothing
  BY <1>1, <1>2, <1>3, <1>4 DEF Words, Thinks
<1>10. Words(q) \/ Thinks(q) <=> \E i \in DOMAIN xs : xs[i].reasoning # Nothing
  BY <1>1, <1>2, <1>3, <1>4 DEF Words, Thinks
<1>11. \A i \in DOMAIN xs : {xs[i].content, xs[i].reasoning} # {Nothing}
                              <=> xs[i].content # Nothing \/ xs[i].reasoning # Nothing
  OBVIOUS
<1> QED BY <1>7, <1>8, <1>9, <1>10, <1>11 DEF separate

(* An answer in the format of messages                                     *)
LEMMA MessagesOk ==
  ASSUME NEW xs \in Seq(Blocks)
  PROVE  Messages(xs, FALSE).ok <=> \E i \in DOMAIN xs : xs[i].type # "other" /\ xs[i].text # Nothing
<1> DEFINE OfType(type) == {i \in DOMAIN xs : xs[i].type = type /\ xs[i].text # Nothing}
<1>0. \A i \in DOMAIN xs : xs[i] \in Blocks OBVIOUS
<1>1. \A i \in DOMAIN xs : xs[i].type \in {"text", "thinking", "other"} /\ xs[i].text \in Texts BY <1>0 DEF Blocks
<1>2. \A x \in Texts : x # Nothing <=> x.words \/ x.think BY DEF Texts, Nothing
<1>3. Messages(xs, FALSE).ok = ((\E i \in OfType("text") : xs[i].text.words)
                                 \/ OfType("thinking") # {} \/ \E i \in OfType("text") : xs[i].text.think)
  BY DEF Messages, Verdict
<1>4. (\E i \in OfType("text") : xs[i].text.words) \/ (\E i \in OfType("text") : xs[i].text.think)
        <=> \E i \in DOMAIN xs : xs[i].type = "text" /\ xs[i].text # Nothing
  BY <1>1, <1>2
<1>5. OfType("thinking") # {} <=> \E i \in DOMAIN xs : xs[i].type = "thinking" /\ xs[i].text # Nothing OBVIOUS
<1>6. \A i \in DOMAIN xs : xs[i].type # "other" <=> xs[i].type = "text" \/ xs[i].type = "thinking" BY <1>1
<1> QED BY <1>3, <1>4, <1>5, <1>6

(* The three formats agree on the same texts                               *)
LEMMA FormatsAgree ==
  ASSUME NEW xs \in Seq(Texts)
  PROVE  LET chat == Chat([i \in DOMAIN xs |-> Part(xs[i])])
             responses == Responses(Nothing, [i \in DOMAIN xs |->
                                     [content |-> xs[i], reasoning |-> Nothing]], FALSE)
             messages == Messages([i \in DOMAIN xs |-> [type |-> "text", text |-> xs[i]]], FALSE)
         IN  chat.ok = responses.ok /\ responses = messages
<1> DEFINE c == [i \in DOMAIN xs |-> Part(xs[i])]
           r == [i \in DOMAIN xs |-> [content |-> xs[i], reasoning |-> Nothing]]
           m == [i \in DOMAIN xs |-> [type |-> "text", text |-> xs[i]]]
<1>0. Len(xs) \in Nat /\ DOMAIN xs = 1..Len(xs) OBVIOUS
<1>9. \A i \in DOMAIN xs : xs[i] \in Texts OBVIOUS
<1>1. \A i \in DOMAIN xs : xs[i] \in Texts /\ xs[i].words \in BOOLEAN /\ xs[i].think \in BOOLEAN BY <1>9 DEF Texts
<1>2. Nothing \in Texts /\ Nothing.words = FALSE /\ Nothing.think = FALSE BY DEF Nothing, Texts
<1>3. \A x \in Texts : x # Nothing <=> x.words \/ x.think BY DEF Texts, Nothing
<1>4. Chat(c).ok <=> Words(xs) \/ Thinks(xs)
  <2>1. \A i \in DOMAIN xs : Part(xs[i]) \in ChatChoices BY <1>1 DEF Part, ChatChoices
  <2>2. c \in Seq(ChatChoices) BY <1>0, <2>1
  <2>3. \A i \in DOMAIN xs : Speaks(Part(xs[i])) <=> xs[i].words \/ xs[i].think
    BY DEF Speaks, Reasons, Part
  <2>4. DOMAIN c = DOMAIN xs /\ \A i \in DOMAIN xs : c[i] = Part(xs[i]) OBVIOUS
  <2>5. Chat(c).ok <=> \E i \in DOMAIN c : Speaks(c[i])
    <3> HIDE DEF c
    <3> QED BY <2>2, ChatOk
  <2> HIDE DEF c
  <2> QED BY <2>3, <2>4, <2>5 DEF Words, Thinks
<1>5. Responses(Nothing, r, FALSE) = Verdict(Words(xs), Thinks(xs), FALSE)
  <2> DEFINE p == [i \in DOMAIN r |-> r[i].content]
             q == [i \in DOMAIN r |-> r[i].reasoning]
  <2>1. DOMAIN r = DOMAIN xs /\ \A i \in DOMAIN r : r[i].content = xs[i] /\ r[i].reasoning = Nothing OBVIOUS
  <2>2. p = xs /\ q = [i \in DOMAIN xs |-> Nothing] BY <2>1
  <2>3. q \in Seq(Texts) /\ \A i \in DOMAIN q : q[i] = Nothing BY <1>0, <1>2, <2>2
  <2>4. ~Words(q) /\ ~Thinks(q) BY <1>2, <2>3 DEF Words, Thinks
  <2>5. Joined(<<Nothing>> \o p \o q) = [words |-> Words(p) \/ Words(q), think |-> Thinks(p) \/ Thinks(q)]
    <3> HIDE DEF q
    <3> QED BY <2>2, <2>3, JoinedSays
  <2>6. ~\E i \in DOMAIN r : r[i].reasoning # Nothing BY <2>1
  <2>7. Responses(Nothing, r, FALSE)
          = Verdict(Joined(<<Nothing>> \o p \o q).words,
                    (\E i \in DOMAIN r : r[i].reasoning # Nothing) \/ Joined(<<Nothing>> \o p \o q).think, FALSE)
    BY DEF Responses
  <2> DEFINE j == Joined(<<Nothing>> \o p \o q)
  <2>8. j.words = Words(xs) /\ j.think = Thinks(xs)
    <3>1. j.words = (Words(xs) \/ Words(q)) /\ j.think = (Thinks(xs) \/ Thinks(q)) BY <2>2, <2>5
    <3>2. (Words(xs) \/ Words(q)) = Words(xs) /\ (Thinks(xs) \/ Thinks(q)) = Thinks(xs)
      BY <2>4 DEF Words, Thinks
    <3> QED BY <3>1, <3>2, Zenon
  <2> HIDE DEF j, r
  <2>9. ((\E i \in DOMAIN r : r[i].reasoning # Nothing) \/ j.think) = Thinks(xs) BY <2>6, <2>8 DEF Thinks
  <2> QED BY <2>7, <2>8, <2>9 DEF j
<1>6. Messages(m, FALSE) = Verdict(Words(xs), Thinks(xs), FALSE)
  <2> DEFINE OfType(type) == {i \in DOMAIN m : m[i].type = type /\ m[i].text # Nothing}
  <2>1. DOMAIN m = DOMAIN xs /\ \A i \in DOMAIN m : m[i].type = "text" /\ m[i].text = xs[i] OBVIOUS
  <2>2. Messages(m, FALSE) = Verdict(\E i \in OfType("text") : m[i].text.words,
                                     OfType("thinking") # {} \/ \E i \in OfType("text") : m[i].text.think, FALSE)
    BY DEF Messages
  <2> HIDE DEF m
  <2>3. OfType("thinking") = {} /\ OfType("text") = {i \in DOMAIN xs : xs[i] # Nothing} BY <2>1
  <2>4. (\E i \in OfType("text") : m[i].text.words) = Words(xs) BY <1>1, <1>3, <2>1, <2>3 DEF Words
  <2>5. (OfType("thinking") # {} \/ \E i \in OfType("text") : m[i].text.think) = Thinks(xs) BY <1>1, <1>3, <2>1, <2>3 DEF Thinks
  <2> QED BY <2>2, <2>4, <2>5
<1>7. Verdict(Words(xs), Thinks(xs), FALSE).ok = (Words(xs) \/ Thinks(xs)) BY DEF Verdict
<1>8. Chat(c).ok \in BOOLEAN
  <2>1. \A v, t, u : Verdict(v, t, u).ok \in BOOLEAN BY DEF Verdict
  <2> HIDE DEF c
  <2> QED BY <2>1 DEF Chat
<1>10. Chat(c).ok = Responses(Nothing, r, FALSE).ok
  <2> HIDE DEF c, r
  <2>1. Chat(c).ok = (Words(xs) \/ Thinks(xs)) BY <1>4, <1>8
  <2> QED BY <1>5, <1>7, <2>1
<1>11. Responses(Nothing, r, FALSE) = Messages(m, FALSE) BY <1>5, <1>6
<1> QED BY <1>10, <1>11, Zenon

--------------------------------------------------------------------------------
(* The probe. Its stages come in a fixed order, each at most once          *)
Comes(s, t) ==
  \/ s = "openai" /\ t \in {"anthropic", "chat", "responses", "messages"}
  \/ s = "anthropic" /\ t \in {"chat", "responses", "messages"}
  \/ s = "chat" /\ t \in {"responses", "messages"}
  \/ s = "responses" /\ t = "messages"

Found == {"up", "auth_error", "rate_limited", "degraded", "down"}
Results == [status : Found \union {"unknown"}, http : Codes, error : BOOLEAN]

(* What the answers h to a stage say of it, and a result that says just    *)
(* that and is clean when it is up                                         *)
Says(h, s) == IF h[s] = NoAnswer THEN "down" ELSE StatusOf(s, h[s])
Agrees(r, h, s) == r.status = Says(h, s) /\ (r.status = "up" => r.error = FALSE)
Proves(h, s) == h[s].code = 200 /\ (h[s].good \/ s = "openai")
Answered(h) == h \in [Stages -> Answers \union {NoAnswer}]
                 /\ \A s \in Stages : h[s] = NoAnswer \/ ~Silent(h[s])

HeardInv == /\ job \in Jobs /\ stage \in Stages \union {"end"}
            /\ Answered(heard)
            /\ \A s \in Stages : Comes(stage, s) => heard[s] = NoAnswer
(* A stage goes on only as long as it is not up                            *)
ResInv == /\ res \in Results
          /\ stage \in Stages => res.status = Says(heard, stage) /\ res.status # "up"
ProbesInv ==
  /\ probes \in [Protocols -> Results]
  /\ \A p \in Protocols :
       /\ probes[p] # None => Agrees(probes[p], heard, p)
       /\ stage = p \/ Comes(stage, p) => probes[p] = None
       /\ job.op \in {"classify", "health"} /\ stage # p /\ ~Comes(stage, p) => probes[p] # None
ModelsInv ==
  /\ models \in [Protocols -> Results]
  /\ models["openai"] # None => adapter \in {"chat", "responses"} /\ Agrees(models["openai"], heard, adapter)
  /\ models["anthropic"] # None => Agrees(models["anthropic"], heard, "messages")
  /\ stage \in {"openai", "anthropic", "chat"} => models["openai"] = None
  /\ stage = "responses" => adapter = "chat"
  /\ stage # "end" => models["anthropic"] = None
(* What has been proved is not lost                                        *)
ProvenInv ==
  /\ Proves(heard, "chat") => /\ stage \notin {"chat", "responses"} /\ heard["responses"] = NoAnswer
                              /\ models["openai"].status = "up"
  /\ Proves(heard, "responses") => stage # "responses" /\ models["openai"].status = "up"
  /\ Proves(heard, "messages") => stage # "messages" /\ models["anthropic"].status = "up"
ProbeInv == HeardInv /\ ResInv /\ ProbesInv /\ ModelsInv /\ ProvenInv

(* What an answer says                                                     *)
LEMMA StatusOfs ==
  ASSUME NEW s, NEW a \in Answers, ~Silent(a)
  PROVE  /\ StatusOf(s, a) \in Found \ {"down"}
         /\ StatusOf(s, a) = "up" <=> a.code = 200 /\ (a.good \/ s = "openai")
<1>1. a.code \in {200, 400, 401, 418, 429, 500} BY DEF Answers, Codes, Silent
<1> QED BY <1>1 DEF StatusOf, Found

(* The answers so far, with the next one                                   *)
With(a) == IF Silent(a) THEN heard ELSE [heard EXCEPT ![stage] = a]

(* An answer makes of the result what all the stage's answers say          *)
LEMMA RecordedSays ==
  ASSUME HeardInv, ResInv, stage \in Stages, NEW a \in Answers,
         NEW r, r = Recorded(stage, res, a)
  PROVE  /\ Answered(With(a)) /\ \A s \in Stages : s # stage => With(a)[s] = heard[s]
         /\ r \in Results /\ r # None /\ r.http = a.code /\ Agrees(r, With(a), stage)
         /\ r.status = "up" <=> Proves(With(a), stage)
         /\ r.status = "up" => a.code = 200
         /\ r.status = "down" => r.http \in {0, 404}
<1>1. a.code \in Codes /\ a # NoAnswer BY DEF Answers, NoAnswer, Codes
<1>2. Answered(heard) BY DEF HeardInv
<1>3. CASE Silent(a)
  <2>1. With(a) = heard BY <1>3 DEF With
  <2>2. r = [res EXCEPT !.http = a.code, !.error = TRUE] BY <1>3 DEF Recorded
  <2>3. res \in Results /\ res.status = Says(heard, stage) /\ res.status # "up" BY DEF ResInv
  <2>4. r \in Results /\ r.status = res.status /\ r.http = a.code /\ r.error = TRUE
    BY <1>1, <2>2, <2>3 DEF Results
  <2>5. r # None BY <2>4 DEF None
  <2>6. ~Proves(heard, stage)
    <3>1. CASE heard[stage] = NoAnswer BY <3>1 DEF Proves, NoAnswer
    <3>2. CASE heard[stage] # NoAnswer
      <4>1. heard[stage] \in Answers /\ ~Silent(heard[stage]) BY <1>2, <3>2 DEF Answered
      <4> QED BY <2>3, <3>2, <4>1, StatusOfs DEF Says, Proves
    <3> QED BY <3>1, <3>2
  <2>7. a.code \in {0, 404} BY <1>3 DEF Silent
  <2> QED BY <1>2, <2>1, <2>3, <2>4, <2>5, <2>6, <2>7 DEF Agrees
<1>4. CASE ~Silent(a)
  <2>1. With(a) = [heard EXCEPT ![stage] = a] BY <1>4 DEF With
  <2>2. With(a)[stage] = a /\ \A s \in Stages : s # stage => With(a)[s] = heard[s]
    BY <1>2, <2>1 DEF Answered
  <2>3. Answered(With(a)) BY <1>2, <1>4, <2>1 DEF Answered
  <2>4. r = [status |-> StatusOf(stage, a), http |-> a.code, error |-> StatusOf(stage, a) # "up"]
    BY <1>4 DEF Recorded
  <2>5. /\ StatusOf(stage, a) \in Found \ {"down"}
        /\ StatusOf(stage, a) = "up" <=> a.code = 200 /\ (a.good \/ stage = "openai")
    BY <1>4, StatusOfs
  <2>6. Says(With(a), stage) = StatusOf(stage, a) BY <1>1, <2>2 DEF Says
  <2>7. Proves(With(a), stage) <=> a.code = 200 /\ (a.good \/ stage = "openai") BY <2>2 DEF Proves
  <2> HIDE DEF With
  <2>8. r.status = StatusOf(stage, a) /\ r.http = a.code /\ (r.status = "up" => r.error = FALSE)
    <3>1. r.status = StatusOf(stage, a) /\ r.http = a.code BY <2>4
    <3>2. r.error = (StatusOf(stage, a) # "up") BY <2>4
    <3> QED BY <3>1, <3>2
  <2>9. r \in Results BY <1>1, <2>4, <2>5 DEF Results
  <2>10. r # None BY <2>5, <2>8 DEF None, Found
  <2> QED BY <2>2, <2>3, <2>5, <2>6, <2>7, <2>8, <2>9, <2>10 DEF Agrees
<1> QED BY <1>3, <1>4

(* A result that is kept agrees with what its stage heard                  *)
LEMMA StillAgrees ==
  ASSUME NEW x, NEW s, Agrees(x, heard, s), heard'[s] = heard[s]
  PROVE  Agrees(x, heard', s)
BY DEF Agrees, Says

(* ... and so does what was proved                                         *)
LEMMA StillProves ==
  ASSUME NEW s, heard'[s] = heard[s]
  PROVE  Proves(heard', s) <=> Proves(heard, s)
BY DEF Proves

(* The stage goes on, with the next url or again                           *)
LEMMA GoesOn ==
  ASSUME ProbeInv, NEW a \in Answers, stage \in Stages, heard' = With(a),
         res' = Recorded(stage, res, a), res'.status # "up",
         UNCHANGED <<job, stage, probes, models, adapter>>
  PROVE  ProbeInv'
<1>1. HeardInv /\ ResInv /\ ProbesInv /\ ModelsInv /\ ProvenInv BY DEF ProbeInv
<1>2. /\ Answered(heard') /\ \A s \in Stages : s # stage => heard'[s] = heard[s]
      /\ res' \in Results /\ Agrees(res', heard', stage) /\ ~Proves(heard', stage)
  BY <1>1, RecordedSays
<1>3. \A s \in Stages : Comes(stage, s) => s # stage BY DEF Comes
<1>4. HeardInv' BY <1>1, <1>2, <1>3 DEF HeardInv
<1>5. ResInv' BY <1>2 DEF ResInv, Agrees
<1>6. ProbesInv'
  <2>1. \A p \in Protocols : probes[p] # None => Agrees(probes[p], heard', p)
    BY <1>1, <1>2, StillAgrees DEF ProbesInv, Protocols, Stages
  <2> QED BY <1>1, <2>1 DEF ProbesInv
<1>7. ModelsInv'
  <2>1. models["openai"] # None => Agrees(models["openai"], heard', adapter)
    <3>1. models["openai"] # None => adapter \in Stages /\ adapter # stage
      BY <1>1 DEF ModelsInv, Stages
    <3> QED BY <1>1, <1>2, <3>1, StillAgrees DEF ModelsInv
  <2>2. models["anthropic"] = None BY <1>1 DEF ModelsInv, Stages
  <2> QED BY <1>1, <2>1, <2>2 DEF ModelsInv
<1>8. ProvenInv'
  <2>1. \A s \in Stages : Proves(heard', s) => Proves(heard, s) /\ s # stage BY <1>2, StillProves
  <2>2. {"chat", "responses", "messages"} \subseteq Stages BY DEF Stages
  <2>3. Proves(heard', "chat") => heard'["responses"] = heard["responses"]
    BY <1>1, <1>2, <2>1, <2>2 DEF ProvenInv
  <2> QED BY <1>1, <2>1, <2>2, <2>3 DEF ProvenInv
<1> QED BY <1>4, <1>5, <1>6, <1>7, <1>8 DEF ProbeInv

(* What the end of a stage knows                                           *)
Kept(a, r) ==
  /\ HeardInv /\ ResInv /\ ProbesInv /\ ModelsInv /\ ProvenInv
  /\ Answered(heard') /\ \A s \in Stages : s # stage => heard'[s] = heard[s]
  /\ r \in Results /\ r # None /\ Agrees(r, heard', stage)
  /\ r.status = "up" <=> Proves(heard', stage)
  /\ r.status = "up" => r.http = 200
  /\ r.status = "down" => r.http \in {0, 404}
  /\ stage \in Stages /\ job' = job
(* A stage that begins has heard nothing, and its result says so           *)
LEMMA FreshStage ==
  ASSUME Answered(heard'), stage' \in Stages => heard'[stage'] = NoAnswer, res' = Unreachable
  PROVE  ResInv'
<1>1. Unreachable \in Results /\ Unreachable.status = "down" BY DEF Unreachable, Results, Found, Codes
<1> QED BY <1>1 DEF ResInv, Says

(* The probe of a protocol ends                                            *)
LEMMA ProbeEnds ==
  ASSUME NEW a, NEW r, Kept(a, r), EndProbe(stage, r)
  PROVE  ProbeInv'
<1> USE DEF Kept
<1>1. /\ stage \in Protocols /\ probes' = [probes EXCEPT ![stage] = r] /\ res' = Unreachable
      /\ UNCHANGED <<models, adapter>>
  BY DEF EndProbe, Goto
<1>2. stage \in {"openai", "anthropic"} BY <1>1 DEF Protocols
<1>3. /\ stage' \in {"end", "anthropic", "chat", "messages"} /\ (stage = "anthropic" => stage' # "anthropic")
      /\ job.op \in {"classify", "health"} /\ stage = "openai" => stage' = "anthropic"
  BY <1>2 DEF EndProbe, Goto, FirstModelStage
<1>4. HeardInv'
  <2>1. \A s \in Stages : Comes(stage', s) => Comes(stage, s) /\ s # stage BY <1>2, <1>3 DEF Comes
  <2> QED BY <1>3, <2>1 DEF HeardInv, Stages
<1>5. ResInv'
  <2>1. stage' \in Stages => heard'[stage'] = NoAnswer
    <3>1. stage' \in Stages => Comes(stage, stage') /\ stage' # stage BY <1>2, <1>3 DEF Comes, Stages
    <3> QED BY <3>1 DEF HeardInv
  <2> QED BY <1>1, <2>1, FreshStage
<1>6. ProbesInv'
  <2>1. probes' \in [Protocols -> Results] BY <1>1 DEF ProbesInv
  <2>2. ASSUME NEW p \in Protocols PROVE probes'[p] # None => Agrees(probes'[p], heard', p)
    <3>1. CASE p = stage BY <1>1, <3>1 DEF ProbesInv
    <3>2. CASE p # stage
      <4>1. p \in Stages /\ probes'[p] = probes[p] BY <1>1, <3>2 DEF Protocols, Stages, ProbesInv
      <4> QED BY <3>2, <4>1, StillAgrees DEF ProbesInv
    <3> QED BY <3>1, <3>2
  <2>3. ASSUME NEW p \in Protocols, stage' = p \/ Comes(stage', p) PROVE probes'[p] = None
    <3>1. p = "anthropic" /\ stage = "openai" BY <1>2, <1>3, <2>3 DEF Comes, Protocols
    <3>2. probes["anthropic"] = None BY <3>1 DEF ProbesInv, Comes
    <3> QED BY <1>1, <3>1, <3>2 DEF ProbesInv
  <2>4. ASSUME NEW p \in Protocols, job.op \in {"classify", "health"}, stage' # p, ~Comes(stage', p)
        PROVE  probes'[p] # None
    <3>1. CASE p = stage BY <1>1, <3>1 DEF ProbesInv
    <3>2. CASE p # stage
      <4>1. p = "openai" /\ stage = "anthropic" BY <1>2, <1>3, <2>4, <3>2 DEF Protocols
      <4>2. probes["openai"] # None BY <2>4, <4>1 DEF ProbesInv, Comes
      <4> QED BY <1>1, <4>1, <4>2 DEF ProbesInv
    <3> QED BY <3>1, <3>2
  <2> QED BY <2>1, <2>2, <2>3, <2>4 DEF ProbesInv
<1>7. models["openai"] = None /\ models["anthropic"] = None BY <1>2 DEF ModelsInv
<1>8. ModelsInv' BY <1>1, <1>3, <1>7 DEF ModelsInv
<1>9. ProvenInv'
  <2>1. \A s \in {"chat", "responses", "messages"} : heard[s] = NoAnswer /\ heard'[s] = heard[s]
    BY <1>2 DEF HeardInv, Comes, Stages
  <2> QED BY <2>1 DEF ProvenInv, Proves, NoAnswer
<1> QED BY <1>4, <1>5, <1>6, <1>8, <1>9 DEF ProbeInv

(* ... and that of a model by chat completions                             *)
LEMMA ChatEnds ==
  ASSUME NEW a, NEW r, Kept(a, r), EndChat(stage, r)
  PROVE  ProbeInv'
<1> USE DEF Kept
<1>1. /\ stage = "chat" /\ models' = [models EXCEPT !["openai"] = r] /\ adapter' = "chat"
      /\ res' = Unreachable /\ probes' = probes
      /\ stage' \in {"responses", "messages", "end"} /\ (r.status = "up" => stage' # "responses")
  BY DEF EndChat, Goto, AfterChat
<1>2. HeardInv'
  <2>1. \A s \in Stages : Comes(stage', s) => Comes(stage, s) /\ s # stage BY <1>1 DEF Comes
  <2> QED BY <1>1, <2>1 DEF HeardInv, Stages
<1>3. ResInv'
  <2>1. stage' \in Stages => Comes(stage, stage') /\ stage' # stage BY <1>1 DEF Comes, Stages
  <2> QED BY <1>1, <2>1, FreshStage DEF HeardInv
<1>4. ProbesInv'
  <2>1. \A p \in Protocols : p \in Stages /\ p # stage BY <1>1 DEF Protocols, Stages
  <2>2. \A p \in Protocols : probes[p] # None => Agrees(probes[p], heard', p)
    BY <2>1, StillAgrees DEF ProbesInv
  <2>3. \A p \in Protocols : stage # p /\ ~Comes(stage, p) /\ stage' # p /\ ~Comes(stage', p)
    BY <1>1 DEF Protocols, Comes
  <2> QED BY <1>1, <2>2, <2>3 DEF ProbesInv
<1>5. models' \in [Protocols -> Results] /\ models'["openai"] = r /\ models'["anthropic"] = None
  BY <1>1 DEF ModelsInv, Protocols
<1>6. ModelsInv' BY <1>1, <1>5 DEF ModelsInv
<1>7. ProvenInv'
  <2>1. heard["responses"] = NoAnswer /\ heard["messages"] = NoAnswer
    BY <1>1 DEF HeardInv, Comes, Stages
  <2>2. heard'["responses"] = NoAnswer /\ heard'["messages"] = NoAnswer
    BY <1>1, <2>1 DEF Stages
  <2>3. ~Proves(heard', "responses") /\ ~Proves(heard', "messages") BY <2>2 DEF Proves, NoAnswer
  <2> QED BY <1>1, <1>5, <2>2, <2>3 DEF ProvenInv
<1> QED BY <1>2, <1>3, <1>4, <1>6, <1>7 DEF ProbeInv

(* ... or by responses                                                     *)
LEMMA ResponsesEnds ==
  ASSUME NEW a, NEW r, Kept(a, r), EndResponses(stage, r)
  PROVE  ProbeInv'
<1> USE DEF Kept
<1>1. /\ stage = "responses" /\ res' = Unreachable /\ probes' = probes /\ stage' \in {"messages", "end"}
      /\ \/ r.status = "down" /\ UNCHANGED <<models, adapter>>
         \/ r.status # "down" /\ models' = [models EXCEPT !["openai"] = r] /\ adapter' = "responses"
  BY DEF EndResponses, Goto, AfterChat
<1>2. HeardInv'
  <2>1. \A s \in Stages : Comes(stage', s) => Comes(stage, s) /\ s # stage BY <1>1 DEF Comes
  <2> QED BY <1>1, <2>1 DEF HeardInv, Stages
<1>3. ResInv'
  <2>1. stage' \in Stages => Comes(stage, stage') /\ stage' # stage BY <1>1 DEF Comes, Stages
  <2> QED BY <1>1, <2>1, FreshStage DEF HeardInv
<1>4. ProbesInv'
  <2>1. \A p \in Protocols : p \in Stages /\ p # stage BY <1>1 DEF Protocols, Stages
  <2>2. \A p \in Protocols : probes[p] # None => Agrees(probes[p], heard', p)
    BY <2>1, StillAgrees DEF ProbesInv
  <2>3. \A p \in Protocols : stage # p /\ ~Comes(stage, p) /\ stage' # p /\ ~Comes(stage', p)
    BY <1>1 DEF Protocols, Comes
  <2> QED BY <1>1, <2>2, <2>3 DEF ProbesInv
<1>5. ~Proves(heard, "chat") /\ ~Proves(heard', "chat") /\ adapter = "chat" /\ heard'["chat"] = heard["chat"]
      /\ "chat" \in Stages
  <2>1. heard'["chat"] = heard["chat"] /\ "chat" \in Stages BY <1>1 DEF Stages
  <2> QED BY <1>1, <2>1, StillProves DEF ProvenInv, ModelsInv
<1>6. ModelsInv'
  <2>1. CASE r.status = "down"
    <3>1. models["openai"] # None => Agrees(models["openai"], heard', adapter)
      BY <1>5, StillAgrees DEF ModelsInv
    <3>2. models["anthropic"] = None BY <1>1 DEF ModelsInv
    <3> QED BY <1>1, <2>1, <3>1, <3>2 DEF ModelsInv
  <2>2. CASE r.status # "down"
    <3>1. models' \in [Protocols -> Results] /\ models'["openai"] = r /\ models'["anthropic"] = None
      BY <1>1, <2>2 DEF ModelsInv, Protocols
    <3> QED BY <1>1, <2>2, <3>1 DEF ModelsInv
  <2> QED BY <2>1, <2>2
<1>7. ProvenInv'
  <2>1. heard["messages"] = NoAnswer /\ heard'["messages"] = heard["messages"]
    BY <1>1 DEF HeardInv, Comes, Stages
  <2>2. ~Proves(heard', "messages") BY <2>1 DEF Proves, NoAnswer
  <2>3. Proves(heard', "responses") => models'["openai"].status = "up"
    BY <1>1 DEF ModelsInv, Protocols
  <2> QED BY <1>1, <1>5, <2>2, <2>3 DEF ProvenInv
<1> QED BY <1>2, <1>3, <1>4, <1>6, <1>7 DEF ProbeInv

(* ... or by messages                                                      *)
LEMMA MessagesEnds ==
  ASSUME NEW a, NEW r, Kept(a, r), EndMessages(stage, r)
  PROVE  ProbeInv'
<1> USE DEF Kept
<1>1. /\ stage = "messages" /\ stage' = "end" /\ models' = [models EXCEPT !["anthropic"] = r]
      /\ res' = Unreachable /\ UNCHANGED <<probes, adapter>>
  BY DEF EndMessages, Goto
<1>2. HeardInv' BY <1>1 DEF HeardInv, Comes
<1>3. ResInv' BY <1>1, FreshStage DEF Stages
<1>4. ProbesInv'
  <2>1. \A p \in Protocols : p \in Stages /\ p # stage BY <1>1 DEF Protocols, Stages
  <2>2. \A p \in Protocols : probes[p] # None => Agrees(probes[p], heard', p)
    BY <2>1, StillAgrees DEF ProbesInv
  <2>3. \A p \in Protocols : stage # p /\ ~Comes(stage, p) /\ stage' # p /\ ~Comes(stage', p)
    BY <1>1 DEF Protocols, Comes
  <2> QED BY <1>1, <2>2, <2>3 DEF ProbesInv
<1>5. models' \in [Protocols -> Results] /\ models'["anthropic"] = r /\ models'["openai"] = models["openai"]
  BY <1>1 DEF ModelsInv, Protocols
<1>6. \A s \in {"chat", "responses"} : s \in Stages /\ heard'[s] = heard[s] BY <1>1 DEF Stages
<1>7. ModelsInv'
  <2>1. models["openai"] # None => Agrees(models["openai"], heard', adapter)
    BY <1>6, StillAgrees DEF ModelsInv
  <2> QED BY <1>1, <1>5, <2>1 DEF ModelsInv
<1>8. ProvenInv'
  <2>1. \A s \in {"chat", "responses"} : Proves(heard', s) <=> Proves(heard, s) BY <1>6, StillProves
  <2> QED BY <1>1, <1>5, <1>6, <2>1 DEF ProvenInv
<1> QED BY <1>2, <1>3, <1>4, <1>7, <1>8 DEF ProbeInv

(* Every answer keeps the invariant                                        *)
LEMMA ProbeStep ==
  ASSUME ProbeInv, NEW a \in Answers, Answer(a)
  PROVE  ProbeInv'
<1> DEFINE r == Recorded(stage, res, a)
<1>1. stage \in Stages /\ heard' = With(a) /\ job' = job BY DEF Answer, With, ProbeInv, HeardInv
<1>2. /\ r \in Results /\ r # None /\ r.http = a.code /\ Agrees(r, heard', stage)
      /\ r.status = "up" <=> Proves(heard', stage)
      /\ r.status = "up" => a.code = 200
      /\ r.status = "down" => r.http \in {0, 404}
      /\ Answered(heard') /\ \A s \in Stages : s # stage => heard'[s] = heard[s]
  BY <1>1, RecordedSays DEF ProbeInv
<1> HIDE DEF r
<1>3. CASE NextUrl(stage, r, a)
  <2>1. r.status # "up" BY <1>2, <1>3 DEF NextUrl, Silent
  <2> QED BY <1>1, <1>3, <2>1, GoesOn DEF NextUrl, r
<1>4. CASE NextAttempt(stage, r, a)
  BY <1>1, <1>4, GoesOn DEF NextAttempt, Retry, r
<1>5. Kept(a, r) BY <1>1, <1>2 DEF Kept, ProbeInv
<1>6. \/ NextUrl(stage, r, a) \/ NextAttempt(stage, r, a)
      \/ EndProbe(stage, r) \/ EndChat(stage, r) \/ EndResponses(stage, r) \/ EndMessages(stage, r)
  BY DEF Answer, r
<1> QED BY <1>3, <1>4, <1>5, <1>6, ProbeEnds, ChatEnds, ResponsesEnds, MessagesEnds

(* The first probe has heard nothing                                       *)
LEMMA ProbeStarts == ASSUME CoreInit PROVE ProbeInv
<1>1. /\ stage \in Stages \union {"end"} /\ res = Unreachable
      /\ probes = [p \in Protocols |-> None] /\ models = [p \in Protocols |-> None]
      /\ heard = [s \in Stages |-> NoAnswer]
  BY DEF CoreInit, NoProbe, Init, FirstModelStage, Stages
<1>2. job \in Jobs BY DEF CoreInit, NoProbe, Init, Jobs
<1>3. job.op \in {"classify", "health"} => stage = "openai"
  BY DEF CoreInit, NoProbe, Init
<1>4. None \in Results /\ Unreachable \in Results /\ Unreachable.status = "down"
  BY DEF None, Unreachable, Results, Found, Codes
<1>5. HeardInv BY <1>1, <1>2 DEF HeardInv, Answered
<1>6. ResInv BY <1>1, <1>4 DEF ResInv, Says
<1>7. ProbesInv BY <1>1, <1>3, <1>4 DEF ProbesInv, Comes, Protocols
<1>8. ModelsInv
  <2>1. stage # "responses" BY DEF CoreInit, NoProbe, Init, FirstModelStage
  <2> QED BY <1>1, <1>4, <2>1 DEF ModelsInv, Protocols
<1>9. ProvenInv
  <2>1. \A s \in {"chat", "responses", "messages"} : ~Proves(heard, s) BY <1>1 DEF Proves, Stages, NoAnswer
  <2> QED BY <2>1 DEF ProvenInv
<1> QED BY <1>5, <1>6, <1>7, <1>8, <1>9 DEF ProbeInv

(* It holds in every state                                                 *)
LEMMA ProbeAlways == CoreSpec => []ProbeInv
<1>1. ProbeInv /\ [Next /\ UNCHANGED input]_coreVars => ProbeInv'
  <2>1. ProbeInv /\ UNCHANGED vars => ProbeInv'
    BY DEF vars, ProbeInv, HeardInv, ResInv, ProbesInv, ModelsInv, ProvenInv
  <2> QED BY <2>1, ProbeStep DEF Next, coreVars
<1> QED BY <1>1, ProbeStarts, PTL DEF CoreSpec

(* The status of several results is that of the best, with its errors      *)
LEMMA Aggregated ==
  ASSUME NEW results, \A p \in Protocols : results[p] # None => results[p].status \in Found
  PROVE  LET all == Aggregate(results) IN
         /\ all.status = "up" <=> \E p \in Protocols : results[p].status = "up"
         /\ all.status = "down" => \A p \in Protocols : results[p] # None => results[p].status = "down"
         /\ (\A p \in Protocols : results[p].status = "up" => results[p].error = FALSE)
              => (all.status = "up" => all.error = FALSE)
<1> DEFINE asked == {p \in Protocols : results[p] # None}
           found == {i \in DOMAIN Priority : \E p \in asked : results[p].status = Priority[i]}
           best == CHOOSE i \in found : \A j \in found : i <= j
           status == IF found = {} THEN "unknown" ELSE Priority[best]
           error == \E p \in asked : results[p].status = status /\ results[p].error
<1>1. Aggregate(results) = [status |-> status, error |-> error] BY DEF Aggregate
<1>2. /\ DOMAIN Priority = 1..5 /\ Priority[1] = "up" /\ Priority[2] = "auth_error"
      /\ Priority[3] = "rate_limited" /\ Priority[4] = "degraded" /\ Priority[5] = "down"
  BY DEF Priority
<1>3. found # {} => best \in found /\ \A j \in found : best <= j
  <2>1. PICK n \in Nat : n = 5 /\ found \subseteq 1..n BY <1>2
  <2>2. IsFiniteSet(1..n) BY FS_Interval
  <2> HIDE DEF found
  <2>3. IsFiniteSet(found) BY <2>1, <2>2, FS_Subset
  <2>4. found \subseteq Int BY <2>1
  <2>5. ASSUME found # {} PROVE \E i \in found : \A j \in found : i <= j BY <2>3, <2>4, <2>5, LeastExists
  <2> QED BY <2>5
<1>4. None.status = "unknown" BY DEF None
<1>5. \A p \in Protocols : p \in asked <=> results[p] # None OBVIOUS
<1>6. \A p \in asked : p \in Protocols /\ \E i \in found : results[p].status = Priority[i]
  BY <1>2 DEF Found
<1>7. \A i \in found : i \in 1..5 /\ \E p \in asked : results[p].status = Priority[i] BY <1>2
<1>8. \A i \in 1..5 : (\E p \in asked : results[p].status = Priority[i]) => i \in found BY <1>2
<1> HIDE DEF asked, found, best
<1>9. status = "up" <=> \E p \in Protocols : results[p].status = "up"
  <2>1. ASSUME status = "up" PROVE \E p \in Protocols : results[p].status = "up"
    <3>1. found # {} /\ Priority[best] = "up" BY <2>1
    <3> QED BY <1>3, <1>6, <1>7, <3>1
  <2>2. ASSUME NEW p \in Protocols, results[p].status = "up" PROVE status = "up"
    <3>1. p \in asked BY <1>4, <1>5, <2>2
    <3>2. 1 \in found BY <1>2, <1>8, <2>2, <3>1
    <3>3. best \in 1..5 /\ best <= 1 BY <1>3, <1>7, <3>2
    <3>4. best = 1 BY <3>3
    <3> QED BY <1>2, <3>2, <3>4
  <2> QED BY <2>1, <2>2
<1>10. ASSUME status = "down", NEW p \in Protocols, results[p] # None PROVE results[p].status = "down"
  <2>1. p \in asked BY <1>5, <1>10
  <2>2. PICK i \in found : results[p].status = Priority[i] BY <1>6, <2>1
  <2>3. Priority[best] = "down" /\ best \in 1..5 /\ best <= i /\ i \in 1..5 BY <1>3, <1>7, <1>10, <2>2
  <2>4. best = 5 BY <1>2, <2>3
  <2>5. i = 5 BY <2>3, <2>4
  <2> QED BY <1>2, <2>2, <2>5
<1>11. ASSUME \A p \in Protocols : results[p].status = "up" => results[p].error = FALSE, status = "up"
       PROVE  error = FALSE
  BY <1>6, <1>11
<1> HIDE DEF status, error
<1>12. Aggregate(results).status = status /\ Aggregate(results).error = error BY <1>1
<1> QED BY <1>9, <1>10, <1>11, <1>12

(* A proved answer says up, and only that                                  *)
LEMMA UpIsProved ==
  ASSUME Answered(heard), NEW s \in Stages
  PROVE  /\ Says(heard, s) = "up" <=> Proves(heard, s)
         /\ Says(heard, s) = "down" <=> heard[s] = NoAnswer
         /\ Says(heard, s) \in Found
<1>1. CASE heard[s] = NoAnswer BY <1>1 DEF Says, Proves, NoAnswer, Found
<1>2. CASE heard[s] # NoAnswer
  <2>1. heard[s] \in Answers /\ ~Silent(heard[s]) BY <1>2 DEF Answered
  <2> QED BY <1>2, <2>1, StatusOfs DEF Says, Proves
<1> QED BY <1>1, <1>2

(* What a caller is told of a key follows from what its servers answered,  *)
(* whatever answers come in whatever order (probe, classify_key,           *)
(* model_check, _aggregate)                                                *)
THEOREM StatusFollows == CoreSpec => []StatusJustified
<1> SUFFICES ASSUME ProbeInv PROVE StatusJustified
  BY ProbeAlways, PTL
<1>1. HeardInv /\ ResInv /\ ProbesInv /\ ModelsInv /\ ProvenInv BY DEF ProbeInv
<1>2. Answered(heard) BY <1>1 DEF HeardInv
<1>3. \A s \in Stages : Proven(s) <=> Proves(heard, s) BY DEF Proven, Proves
<1>4. \A p \in Protocols : p \in Stages BY DEF Protocols, Stages
<1>5. None.status = "unknown" /\ None.error = FALSE BY DEF None
<1>6. \A p \in Protocols : probes[p] # None =>
        /\ probes[p].status = Says(heard, p) /\ probes[p].status \in Found
        /\ probes[p].status = "up" => Proves(heard, p) /\ probes[p].error = FALSE
        /\ probes[p].status = "down" => heard[p] = NoAnswer
  BY <1>1, <1>2, <1>4, UpIsProved DEF ProbesInv, Agrees
<1>7. \A p \in Protocols : models[p] # None =>
        models[p].status \in Found /\ (models[p].status = "up" => models[p].error = FALSE)
  <2>1. adapter \in {"chat", "responses"} => adapter \in Stages BY DEF Stages
  <2>2. "messages" \in Stages BY DEF Stages
  <2> QED BY <1>1, <1>2, <2>1, <2>2, UpIsProved DEF ModelsInv, Agrees, Protocols
<1>8. models["openai"].status = "up" => adapter \in {"chat", "responses"} /\ Proves(heard, adapter)
  <2>1. adapter \in {"chat", "responses"} => adapter \in Stages BY DEF Stages
  <2> QED BY <1>1, <1>2, <1>5, <2>1, UpIsProved DEF ModelsInv, Agrees
<1>9. models["anthropic"].status = "up" => Proves(heard, "messages")
  <2>1. "messages" \in Stages BY DEF Stages
  <2> QED BY <1>1, <1>2, <1>5, <2>1, UpIsProved DEF ModelsInv, Agrees
<1>10. \A p \in Protocols : probes[p] # None =>
         probes[p].status = IF heard[p] = NoAnswer THEN "down" ELSE StatusOf(p, heard[p])
  BY <1>6 DEF Says
<1>11. /\ ModelOutcome.status = "up" <=> \E p \in Protocols : models[p].status = "up"
       /\ ModelOutcome.status = "up" => ModelOutcome.error = FALSE
  BY <1>5, <1>7, Aggregated DEF ModelOutcome
<1>12. /\ Aggregate(probes).status = "down" => \A p \in Protocols : probes[p] # None => probes[p].status = "down"
       /\ Aggregate(probes).status = "up" => Aggregate(probes).error = FALSE
  <2>1. \A p \in Protocols : probes[p] # None => probes[p].status \in Found BY <1>6
  <2>2. \A p \in Protocols : probes[p].status = "up" => probes[p].error = FALSE BY <1>5, <1>6
  <2> QED BY <2>1, <2>2, Aggregated
<1>13. ASSUME Ended, job.op \in {"classify", "health"}, Outcome.status = "down", NEW p \in Protocols
       PROVE  heard[p] = NoAnswer
  <2>1. Aggregate(probes).status = "down" BY <1>13 DEF Outcome
  <2>2. probes[p] # None BY <1>1, <1>13 DEF ProbesInv, Ended, Comes, Protocols
  <2> QED BY <1>6, <1>12, <2>1, <2>2
<1>14. \A p \in Protocols : Supports(p) => Proven(p) BY <1>3, <1>4, <1>5, <1>6 DEF Supports
<1>15. models["openai"].status = "up" => Proven(adapter) BY <1>8 DEF Proven, Proves
<1>16. ModelOutcome.status = "up" <=> \E s \in {"chat", "responses", "messages"} : Proven(s)
  <2>1. \A s \in {"chat", "responses", "messages"} : s \in Stages BY DEF Stages
  <2>2. "openai" \in Protocols /\ "anthropic" \in Protocols /\ \A p \in Protocols : p = "openai" \/ p = "anthropic"
    BY DEF Protocols
  <2> QED BY <1>1, <1>3, <1>8, <1>9, <1>11, <2>1, <2>2 DEF ProvenInv
<1>17. \A end \in {Outcome, ModelOutcome} : end.status = "up" => ~end.error
  BY <1>11, <1>12 DEF Outcome
<1> QED BY <1>10, <1>13, <1>14, <1>15, <1>16, <1>17 DEF StatusJustified

--------------------------------------------------------------------------------
(* The inputs                                                              *)

(* An input of a call is of the kind that the call takes                   *)
LEMMA InputKinds ==
  ASSUME Given
  PROVE  /\ Input("choices") => input.of \in UpTo(MaxParts, ChatChoices)
         /\ Input("texts") => input.of \in UpTo(MaxParts, Texts)
         /\ Input("items") => input.of \in UpTo(MaxParts, Items)
         /\ Input("blocks") => input.of \in UpTo(MaxParts, Blocks)
         /\ Input("address") => input.of \in Paths \X Tails
         /\ Input("rows") => input.of \in UpTo(MaxRows, Rows)
         /\ Input("lines") => input.of \in UpTo(MaxLines, Lines)
         /\ Input("table") => input.of \in KeyTables
         /\ Input("drag") => input.of \in {d \in (1..MaxShown) \X (1..MaxShown) : d[1] # d[2]}
         /\ Input("identify") => input.of \in Commands
         /\ Input("start") => input.of \in Starts
BY DEF Inputs, Input, Calls, Given, NoInput

(* ... and a sequence                                                      *)
LEMMA UpToSeq == ASSUME NEW n \in Nat, NEW S, NEW x \in UpTo(n, S) PROVE x \in Seq(S)
BY DEF UpTo

(* An answer counts exactly when the model said or thought something, in   *)
(* an answer of any length (model_response_evidence)                       *)
THEOREM EvidenceCounts == CoreSpec => []EvidenceIsContent
<1> SUFFICES ASSUME Given PROVE EvidenceIsContent
  BY GivenAlways, PTL
<1> DEFINE of == input.of
<1>1. /\ Input("choices") => of \in Seq(ChatChoices)
      /\ Input("texts") => of \in Seq(Texts)
      /\ Input("items") => of \in Seq(Items)
      /\ Input("blocks") => of \in Seq(Blocks)
  BY InputKinds, UpToSeq, LengthsAssumption
<1> HIDE DEF of
<1>2. Input("choices") => (Chat(of).ok <=> \E i \in DOMAIN of : Speaks(of[i])) BY <1>1, ChatOk
<1>3. Input("texts") =>
        LET xs == of
            chat == Chat([i \in DOMAIN xs |-> Part(xs[i])])
            responses == Responses(Nothing, [i \in DOMAIN xs |->
                                    [content |-> xs[i], reasoning |-> Nothing]], FALSE)
            messages == Messages([i \in DOMAIN xs |-> [type |-> "text", text |-> xs[i]]], FALSE)
        IN  chat.ok = responses.ok /\ responses = messages
  BY <1>1, FormatsAgree
<1>4. Input("items") => (Responses(Nothing, of, FALSE).ok
                          <=> \E i \in DOMAIN of : {of[i].content, of[i].reasoning} # {Nothing})
  BY <1>1, ResponsesOk
<1>5. Input("blocks") => (Messages(of, FALSE).ok
                           <=> \E i \in DOMAIN of : of[i].type # "other" /\ of[i].text # Nothing)
  BY <1>1, MessagesOk
<1> QED BY <1>2, <1>3, <1>4, <1>5, Zenon DEF EvidenceIsContent, of

--------------------------------------------------------------------------------
(* Whose command it is                                                     *)

(* Where an id's kind stands in the order in which kinds are asked for     *)
Place(id) == W!SelectInSeq(W!Kinds, LAMBDA k : k = id.kind)

(* It is one of the three, or none                                         *)
LEMMA Places == \A id : Place(id) \in Nat /\ Place(id) <= 3
<1> TAKE id
<1> DEFINE I == {i \in 1..Len(W!Kinds) : W!Kinds[i] = id.kind}
<1>1. Len(W!Kinds) = 3 BY DEF W!Kinds
<1>2. Place(id) = IF I # {} THEN W!Min(I) ELSE 0 BY DEF Place, W!SelectInSeq
<1>3. PICK n \in Nat : n = 3 /\ I \subseteq 1..n BY <1>1
<1>4. IsFiniteSet(1..n) BY FS_Interval
<1> HIDE DEF I
<1>5. IsFiniteSet(I) BY <1>3, <1>4, FS_Subset
<1>6. I \subseteq Int BY <1>3
<1>7. ASSUME I # {} PROVE W!Min(I) \in I
  <2>1. \E x \in I : \A y \in I : x <= y BY <1>5, <1>6, <1>7, LeastExists
  <2> QED BY <2>1 DEF W!Min
<1>8. CASE I # {}
  <2>1. W!Min(I) \in 1..n BY <1>3, <1>7, <1>8
  <2>2. Place(id) = W!Min(I) BY <1>2, <1>8
  <2> QED BY <1>3, <2>1, <2>2
<1>9. CASE I = {}
  <2>1. Place(id) = 0 BY <1>2, <1>9
  <2> QED BY <2>1
<1> QED BY <1>8, <1>9

(* Of ids that are there, one is the earliest                              *)
LEMMA EarliestIsThere ==
  ASSUME NEW ids, ids # {}
  PROVE  W!Earliest(ids) \in ids
<1> DEFINE P == {Place(id) : id \in ids}
<1>1. PICK n \in Nat : n = 3 OBVIOUS
<1>2. P \subseteq 0..n /\ P # {} /\ P \subseteq Int BY <1>1, Places
<1>3. IsFiniteSet(0..n) BY FS_Interval
<1>4. \E id \in ids : \A other \in ids : Place(id) <= Place(other)
  <2> HIDE DEF P
  <2>1. IsFiniteSet(P) BY <1>2, <1>3, FS_Subset
  <2>2. PICK x \in P : \A y \in P : x <= y BY <1>2, <2>1, LeastExists
  <2> QED BY <2>2 DEF P
<1> QED BY <1>4 DEF W!Earliest, Place

(* What the environment tells is one of the ids in it                      *)
LEMMA EnvKeyIsExported ==
  ASSUME NEW env, NEW platform, W!Exported(env, platform) # {}
  PROVE  \E e \in W!Exported(env, platform) : W!EnvKey(env, platform) = W!ContextKey(e[1], e[2])
<1> DEFINE seen == W!Exported(env, platform)
           first == W!Earliest({e[2] : e \in seen})
           who == CHOOSE e \in seen : e[2].kind = first.kind
<1>1. W!EnvKey(env, platform) = W!ContextKey(who[1], who[2]) BY DEF W!EnvKey
<1>2. first \in {e[2] : e \in seen}
  <2> DEFINE ids == {e[2] : e \in seen}
  <2>1. ids # {} OBVIOUS
  <2> HIDE DEF ids
  <2>2. W!Earliest(ids) \in ids BY <2>1, EarliestIsThere
  <2> QED BY <2>2 DEF ids
<1>3. who \in seen
  <2>1. \E e \in seen : e[2] = first BY <1>2
  <2> HIDE DEF seen, first
  <2> QED BY <2>1
<1> QED BY <1>1, <1>3

(* The cardinality of the module Identity is that of FiniteSets            *)
LEMMA SameCardinality == \A S : W!Cardinality(S) = Cardinality(S)
BY DEF W!Cardinality, Cardinality

(* Tickets name a window only together                                     *)
LEMMA TicketsAgree ==
  ASSUME NEW tickets \in SUBSET Ticket, NEW command,
         NEW t \in tickets, t.window = "a", t.here, W!Fresh(t), W!Matches(t, command)
  PROVE  W!TicketKey(tickets, command).window \in {"a", "none"}
<1> DEFINE Key(w) == W!ContextKey("cursor", [window |-> w, kind |-> "conversation"])
           keys == W!TicketKeys(tickets, command)
<1>1. keys \subseteq {Key("a"), Key("b")}
  <2>1. \A u \in tickets : u.window \in {"a", "b"} BY DEF Ticket, W!Windows
  <2> QED BY <2>1 DEF W!TicketKeys
<1>2. Key("a") \in keys BY DEF W!TicketKeys
<1>3. Key("a").window = "a" BY DEF W!ContextKey
<1> HIDE DEF Key, keys
<1>4. IsFiniteSet(keys)
  <2>1. IsFiniteSet({Key("a")}) /\ IsFiniteSet({Key("a")} \union {Key("b")})
    BY FS_Singleton, FS_AddElement, FS_EmptySet
  <2>2. keys \subseteq {Key("a")} \union {Key("b")} BY <1>1
  <2> QED BY <2>1, <2>2, FS_Subset
<1>5. CASE Cardinality(keys) = 1
  <2>1. PICK k : keys = {k} BY <1>4, <1>5, FS_Singleton
  <2>2. k = Key("a") BY <1>2, <2>1
  <2>3. (CHOOSE x \in keys : TRUE) = Key("a") BY <2>1, <2>2
  <2>4. W!Cardinality(keys) = 1 BY <1>5, SameCardinality
  <2> QED BY <1>3, <2>3, <2>4 DEF W!TicketKey, keys
<1>6. CASE Cardinality(keys) # 1
  <2>1. W!Cardinality(keys) # 1 BY <1>6, SameCardinality
  <2>2. W!TicketKey(tickets, command) = W!Nobody BY <2>1 DEF W!TicketKey, keys
  <2> QED BY <2>2 DEF W!Nobody
<1> QED BY <1>5, <1>6

(* A window that has told its command who it is is never taken for         *)
(* another, whatever it tells and whatever tickets lie about               *)
(* (resolve_context_key, _lookup_cursor_shell_ticket_context_key)          *)
THEOREM IdentityIsKept == CoreSpec => []IdentityKept
<1> SUFFICES ASSUME Given, Input("identify") PROVE IdentityKept
  BY GivenAlways, PTL DEF IdentityKept
<1>1. PICK c \in Commands : c = input.of BY InputKinds
<1>2. /\ c.override \subseteq Mine /\ c.given \subseteq Mine
      /\ \A e \in c.env : e[2] \in Mine
  BY IdentityAssumption DEF Commands
<1>3. \A id \in Mine : id.window = "a" BY DEF Mine
<1>4. \A platform, id : W!ContextKey(platform, id).window = id.window BY DEF W!ContextKey
<1>5. W!Nobody.window = "none" BY DEF W!Nobody
<1>6. W!EnvKey(c.env, c.platform) = W!Nobody \/ W!EnvKey(c.env, c.platform).window = "a"
  <2>1. CASE W!Exported(c.env, c.platform) = {} BY <2>1 DEF W!EnvKey
  <2>2. CASE W!Exported(c.env, c.platform) # {}
    <3>1. PICK e \in W!Exported(c.env, c.platform) :
            W!EnvKey(c.env, c.platform) = W!ContextKey(e[1], e[2])
      BY <2>2, EnvKeyIsExported
    <3>2. e \in c.env BY <3>1 DEF W!Exported
    <3> QED BY <1>2, <1>3, <1>4, <3>1, <3>2
  <2> QED BY <2>1, <2>2
<1>7. ASSUME NEW tickets \in TicketSets, c.override \union c.given # {}
      PROVE  W!ResolvedKey(c, tickets).window = "a"
  <2>1. CASE c.override # {}
    <3>1. (CHOOSE id \in c.override : TRUE) \in c.override BY <2>1
    <3> QED BY <1>2, <1>3, <1>4, <2>1, <3>1 DEF W!ResolvedKey
  <2>2. CASE c.override = {}
    <3>1. c.given # {} BY <1>7, <2>2
    <3>2. W!Earliest(c.given) \in c.given BY <3>1, EarliestIsThere
    <3> QED BY <1>2, <1>3, <1>4, <2>2, <3>1, <3>2 DEF W!ResolvedKey
  <2> QED BY <2>1, <2>2
<1>8. ASSUME NEW tickets \in TicketSets,
             \E t \in tickets : t.window = "a" /\ t.here /\ W!Fresh(t) /\ W!Matches(t, c)
      PROVE  W!ResolvedKey(c, tickets).window \in {"a", "none"}
  <2>1. W!TicketKey(tickets, c).window \in {"a", "none"}
    BY <1>8, TicketsAgree, IdentityAssumption
  <2>2. CASE c.override \union c.given # {} BY <1>7, <2>2
  <2>3. CASE c.override = {} /\ c.given = {}
    BY <1>5, <1>6, <2>1, <2>3 DEF W!ResolvedKey
  <2> QED BY <2>2, <2>3
<1>9. ASSUME c.override = {}, c.platform # "none", NEW id \in c.given, id.kind \in W!Exports[c.platform]
      PROVE  W!ResolvedKey([c EXCEPT !.given = {id}], {})
               = W!ResolvedKey([c EXCEPT !.given = {}, !.env = {<<c.platform, id>>}], {})
  <2> DEFINE p == c.platform
             x == [c EXCEPT !.given = {id}]
             y == [c EXCEPT !.given = {}, !.env = {<<p, id>>}]
  <2>1. /\ x.override = {} /\ x.given = {id} /\ x.platform = p
        /\ y.override = {} /\ y.given = {} /\ y.platform = p /\ y.env = {<<p, id>>}
    BY <1>9 DEF Commands
  <2>2. W!Earliest({id}) = id BY EarliestIsThere
  <2>3. W!Exported({<<p, id>>}, p) = {<<p, id>>} BY <1>9 DEF W!Exported
  <2>4. W!EnvKey({<<p, id>>}, p) = W!ContextKey(p, id)
    <3>1. W!Exported({<<p, id>>}, p) # {} BY <2>3
    <3>2. PICK e \in W!Exported({<<p, id>>}, p) : W!EnvKey({<<p, id>>}, p) = W!ContextKey(e[1], e[2])
      BY <3>1, EnvKeyIsExported
    <3> QED BY <2>3, <3>2
  <2>5. W!ContextKey(p, id) # W!Nobody BY <1>2, <1>3, <1>4, <1>5, <1>9
  <2> HIDE DEF x, y, p
  <2>6. W!ResolvedKey(x, {}) = W!ContextKey(p, id) BY <1>9, <2>1, <2>2 DEF W!ResolvedKey, p
  <2>7. W!ResolvedKey(y, {}) = W!ContextKey(p, id) BY <2>1, <2>4, <2>5 DEF W!ResolvedKey
  <2> QED BY <2>6, <2>7 DEF x, y, p
<1> QED BY <1>1, <1>7, <1>8, <1>9 DEF IdentityKept

--------------------------------------------------------------------------------
(* The list and the panel                                                  *)

(* ... and so is that of ListFilter                                        *)
LEMMA SameSize == \A S : F!Cardinality(S) = Cardinality(S)
BY DEF F!Cardinality, Cardinality

(* Rows without one of them                                                *)
LEMMA RemovedRow ==
  ASSUME NEW m \in Nat, NEW k \in 1..m
  PROVE  LET rest == F!Removed([n \in 1..m |-> n], k) IN
         DOMAIN rest = 1..(m - 1) /\ \A n \in DOMAIN rest : rest[n] = IF n < k THEN n ELSE n + 1
<1> DEFINE shown == [n \in 1..m |-> n]
           I == {i \in 1..Len(shown) : shown[i] = k}
           rest == SubSeq(shown, 1, k - 1) \o SubSeq(shown, k + 1, m)
<1>1. shown \in Seq(Nat) /\ Len(shown) = m /\ \A n \in 1..m : shown[n] = n OBVIOUS
<1>2. I = {k} BY <1>1
<1>3. F!Min(I) = k BY <1>2 DEF F!Min
<1> HIDE DEF shown
<1>4. F!SelectInSeq(shown, LAMBDA v : v = k) = k BY <1>2, <1>3 DEF F!SelectInSeq
<1>5. \E i \in 1..Len(shown) : shown[i] = k BY <1>1
<1>6. F!Removed(shown, k) = rest
  BY <1>1, <1>4, <1>5 DEF F!Removed, F!RemoveFirst, F!RemoveAt
<1>7. DOMAIN rest = 1..(m - 1) /\ \A n \in DOMAIN rest : rest[n] = IF n < k THEN n ELSE n + 1
  <2> DEFINE x == SubSeq(shown, 1, k - 1)
             y == SubSeq(shown, k + 1, m)
  <2>1. x \in Seq(Nat) /\ Len(x) = k - 1 /\ \A n \in 1..(k - 1) : x[n] = n BY <1>1
  <2>2. y \in Seq(Nat) /\ Len(y) = m - k /\ \A n \in 1..(m - k) : y[n] = n + k BY <1>1
  <2> HIDE DEF x, y
  <2>3. DOMAIN (x \o y) = 1..(m - 1) BY <2>1, <2>2
  <2>4. ASSUME NEW n \in 1..(m - 1) PROVE (x \o y)[n] = IF n < k THEN n ELSE n + 1
    <3>1. CASE n < k BY <2>1, <2>2, <3>1
    <3>2. CASE ~(n < k)
      <4>1. (x \o y)[n] = y[n - (k - 1)] /\ n - (k - 1) \in 1..(m - k) BY <2>1, <2>2, <3>2
      <4> QED BY <2>2, <3>2, <4>1
    <3> QED BY <3>1, <3>2
  <2> QED BY <2>3, <2>4 DEF x, y
<1> QED BY <1>6, <1>7 DEF shown

(* A row that is dragged upwards stands for both before the row it is      *)
(* dropped on                                                              *)
LEMMA DraggedUp ==
  ASSUME NEW m \in Nat, NEW source \in 1..m, NEW target \in 1..m, source > target
  PROVE  F!PanelMoved([n \in 1..m |-> n], source, target) = F!MovedBefore([n \in 1..m |-> n], source, target)
<1> DEFINE shown == [n \in 1..m |-> n]
           rest == F!Removed(shown, source)
<1>1. DOMAIN rest = 1..(m - 1) /\ \A n \in DOMAIN rest : rest[n] = IF n < source THEN n ELSE n + 1
  BY RemovedRow
<1>2. DOMAIN shown = 1..m /\ \A n \in DOMAIN shown : shown[n] = n OBVIOUS
<1> HIDE DEF shown, rest
<1>3. target \in DOMAIN rest /\ rest[target] = target /\ \A n \in DOMAIN rest : rest[n] = target => n = target
  BY <1>1
<1>4. (CHOOSE n \in DOMAIN rest : rest[n] = target) = target BY <1>3
<1>5. (CHOOSE n \in DOMAIN shown : shown[n] = target) = target BY <1>2
<1>6. target \in F!Range(rest) BY <1>3 DEF F!Range
<1>7. F!MovedBefore(shown, source, target) = F!InsertAt(rest, target, source)
  BY <1>4, <1>6 DEF F!MovedBefore, rest
<1>8. F!PanelMoved(shown, source, target) = F!InsertAt(rest, target, source)
  BY <1>5 DEF F!PanelMoved, rest
<1> QED BY <1>7, <1>8 DEF shown

(* What each tile counts is what a click on it shows                       *)
LEMMA TilesCount ==
  ASSUME NEW q \in Filters, NEW rows \in SUBSET ListRow, IsFiniteSet(rows), NEW tile \in Tiles
  PROVE  F!Summary(q, rows)[tile] = Cardinality(F!Shown([q EXCEPT !.status = tile], rows))
<1> DEFINE facet == F!Facet(q, q.range, rows)
           p == [q EXCEPT !.status = tile]
           Is(s) == {r \in facet : r.status = s}
           up == {r \in facet : F!HealthyUp(r)}
           shown == {r \in facet : F!StatusShows(tile, r)}
           s == F!Summary(q, rows)
<1>1. /\ p.status = tile /\ p.range = q.range /\ p.protocol = q.protocol
      /\ p.hasModel = q.hasModel /\ p.search = q.search
  BY DEF Filters
<1>2. F!Shown(p, rows) = shown
  <2> HIDE DEF p
  <2> QED BY <1>1 DEF F!Shown, F!Facet, F!SearchShows
<1>3. facet \subseteq rows /\ IsFiniteSet(facet)
  <2>1. facet \subseteq rows BY DEF F!Facet
  <2> QED BY <2>1, FS_Subset
<1>4. \A r \in facet : r.status \in F!Statuses BY <1>3 DEF ListRow
<1>5. /\ s.all = Cardinality(facet) /\ s.up = Cardinality(up) /\ s.down = Cardinality(Is("down"))
      /\ s.auth_error = Cardinality(Is("auth_error")) /\ s.rate_limited = Cardinality(Is("rate_limited"))
      /\ s.unknown = Cardinality(Is("unknown"))
      /\ s.issue = Cardinality(Is("rate_limited")) + Cardinality(Is("degraded"))
                     + Cardinality(F!StrictIssues(facet))
      /\ s.problem = Cardinality(facet) - Cardinality(up)
  BY SameSize DEF F!Summary
<1> HIDE DEF facet, s
<1>6. CASE tile = "all"
  <2>1. shown = facet BY <1>6 DEF F!StatusShows
  <2> QED BY <1>2, <1>5, <1>6, <2>1 DEF p, s
<1>7. CASE tile = "up"
  <2>1. shown = up BY <1>7 DEF F!StatusShows
  <2> QED BY <1>2, <1>5, <1>7, <2>1 DEF p, s
<1>8. CASE tile \in {"down", "auth_error", "rate_limited", "unknown"}
  <2>1. shown = Is(tile) BY <1>8 DEF F!StatusShows, F!Statuses
  <2> HIDE DEF shown
  <2>2. s[tile] = Cardinality(Is(tile)) BY <1>5, <1>8
  <2> QED BY <1>2, <2>1, <2>2 DEF p, s
<1>9. CASE tile = "issue"
  <2> DEFINE x == Is("rate_limited")
             y == Is("degraded")
             z == F!StrictIssues(facet)
  <2>1. x \subseteq facet /\ y \subseteq facet /\ z \subseteq facet BY DEF F!StrictIssues
  <2>2. x \intersect y = {} /\ (x \union y) \intersect z = {} BY DEF F!StrictIssues, F!Issue
  <2>3. shown = (x \union y) \union z
    BY <1>9 DEF F!StatusShows, F!StrictIssues, F!Issue, F!Statuses
  <2> HIDE DEF x, y, z, shown
  <2>4. IsFiniteSet(x) /\ IsFiniteSet(y) /\ IsFiniteSet(z) BY <1>3, <2>1, FS_Subset
  <2>5. /\ IsFiniteSet(x \union y)
        /\ Cardinality(x \union y) = Cardinality(x) + Cardinality(y) - Cardinality(x \intersect y)
    BY <2>4, FS_Union
  <2>6. Cardinality((x \union y) \union z)
          = Cardinality(x \union y) + Cardinality(z) - Cardinality((x \union y) \intersect z)
    BY <2>4, <2>5, FS_Union
  <2>7. Cardinality(x \intersect y) = 0 /\ Cardinality((x \union y) \intersect z) = 0
    BY <2>2, FS_EmptySet
  <2>8. Cardinality(x) \in Nat /\ Cardinality(y) \in Nat /\ Cardinality(z) \in Nat
    BY <2>4, FS_CardinalityType
  <2>9. Cardinality(shown) = Cardinality(x) + Cardinality(y) + Cardinality(z)
    BY <2>3, <2>5, <2>6, <2>7, <2>8
  <2>10. s.issue = Cardinality(x) + Cardinality(y) + Cardinality(z) BY <1>5 DEF x, y, z
  <2> QED BY <1>2, <1>9, <2>9, <2>10 DEF p, s
<1>10. CASE tile = "problem"
  <2>1. shown = facet \ up
    BY <1>4, <1>10 DEF F!StatusShows, F!HealthyUp, F!Problem, F!Statuses
  <2>2. up \subseteq facet /\ facet \intersect up = up OBVIOUS
  <2> HIDE DEF up, shown
  <2>3. Cardinality(facet \ up) = Cardinality(facet) - Cardinality(facet \intersect up)
    BY <1>3, FS_Difference
  <2>4. s.problem = Cardinality(shown) BY <1>5, <2>1, <2>2, <2>3
  <2> QED BY <1>2, <1>10, <2>4 DEF p, s
<1> QED BY <1>6, <1>7, <1>8, <1>9, <1>10 DEF Tiles

(* ... and so for the filters by age                                       *)
LEMMA AgesCount ==
  ASSUME NEW q \in Filters, NEW rows
  PROVE  /\ F!Summary(q, rows).today = Cardinality(F!Shown([q EXCEPT !.status = "all", !.range = "today"], rows))
         /\ F!Summary(q, rows).days3 = Cardinality(F!Shown([q EXCEPT !.status = "all", !.range = "3d"], rows))
<1>1. ASSUME NEW range
      PROVE  F!Shown([q EXCEPT !.status = "all", !.range = range], rows) = F!Facet(q, range, rows)
  <2> DEFINE p == [q EXCEPT !.status = "all", !.range = range]
  <2>1. /\ p.status = "all" /\ p.range = range /\ p.protocol = q.protocol
        /\ p.hasModel = q.hasModel /\ p.search = q.search
    BY DEF Filters
  <2> HIDE DEF p
  <2>2. F!Facet(p, range, rows) = F!Facet(q, range, rows) BY <2>1 DEF F!Facet, F!SearchShows
  <2>3. F!Shown(p, rows) = F!Facet(q, range, rows) BY <2>1, <2>2 DEF F!Shown, F!StatusShows
  <2> QED BY <2>3 DEF p
<1>2. /\ F!Summary(q, rows).today = Cardinality(F!Facet(q, "today", rows))
      /\ F!Summary(q, rows).days3 = Cardinality(F!Facet(q, "3d", rows))
  BY SameSize DEF F!Summary
<1> QED BY <1>1, <1>2

(* The panel shows the rows that it is sent                                *)
LEMMA PanelShowsThem ==
  ASSUME NEW q \in Filters, NEW rows \in SUBSET ListRow, NEW r \in F!Shown(q, rows), r.hit # {}
  PROVE  F!PanelShows(q, r)
<1>1. r \in rows /\ F!StatusShows(q.status, r) BY DEF F!Shown, F!Facet
<1>2. r \in ListRow BY <1>1
<1>3. r.hit \intersect {"name", "base_url", "check_model"} # {} BY <1>2 DEF ListRow
<1>4. q.status \in Tiles BY DEF Filters
<1>5. q.status = "issue" => r.status \in F!Issue \/ F!Strict(r, F!Issue)
  BY <1>1 DEF F!StatusShows, F!Statuses
<1>6. q.status = "problem" => r.status \in F!Problem \/ F!Strict(r, F!StrictProblem)
  BY <1>1 DEF F!StatusShows, F!Statuses
<1>7. q.status = "up" => F!PanelHealthy(r)
  BY <1>1 DEF F!StatusShows, F!Statuses, F!HealthyUp, F!PanelHealthy, F!Strict
<1>8. q.status \notin {"issue", "problem", "up"} => q.status = "all" \/ r.status = q.status
  BY <1>1 DEF F!StatusShows
<1> QED BY <1>3, <1>5, <1>6, <1>7, <1>8 DEF F!PanelShows

(* The counts above the list are those of the rows that are shown, and the *)
(* panel shows what the server sends, for a table of any size              *)
(* (_page_summary, _page_conditions, getVisibleKeys, moveKey)              *)
THEOREM PanelAgreesAlways == CoreSpec => []PanelAgrees
<1> SUFFICES ASSUME Given PROVE PanelAgrees
  BY GivenAlways, PTL
<1>1. ASSUME Input("drag"), input.of[1] > input.of[2]
      PROVE  F!PanelMoved([n \in 1..MaxShown |-> n], input.of[1], input.of[2])
               = F!MovedBefore([n \in 1..MaxShown |-> n], input.of[1], input.of[2])
  BY <1>1, InputKinds, DraggedUp, LengthsAssumption
<1>2. Input("table") => input.of \in SUBSET ListRow /\ IsFiniteSet(input.of)
  BY InputKinds, TablesAssumption
<1>3. ASSUME Input("table"), NEW q \in Filters
      PROVE  LET summary == F!Summary(q, input.of)
                 size(p) == Cardinality(F!Shown(p, input.of))
             IN  /\ \A tile \in Tiles : summary[tile] = size([q EXCEPT !.status = tile])
                 /\ summary.today = size([q EXCEPT !.status = "all", !.range = "today"])
                 /\ summary.days3 = size([q EXCEPT !.status = "all", !.range = "3d"])
                 /\ \A r \in F!Shown(q, input.of) : r.hit # {} => F!PanelShows(q, r)
  BY <1>2, <1>3, TilesCount, AgesCount, PanelShowsThem
<1> QED BY <1>1, <1>3 DEF PanelAgrees

--------------------------------------------------------------------------------
(* Addresses                                                               *)

(* A suffix, by its elements                                               *)
LEMMA SuffixIs ==
  ASSUME NEW S, NEW s \in Seq(S), NEW t \in Seq(S)
  PROVE  IsSuffix(s, t) <=> Len(s) <= Len(t) /\ \A i \in 1..Len(s) : s[i] = t[Len(t) - Len(s) + i]
<1> DEFINE n == Len(s)
           m == Len(t)
           x == Reverse(s)
           y == Reverse(t)
<1>1. n \in Nat /\ m \in Nat OBVIOUS
<1>2. /\ x \in Seq(S) /\ Len(x) = n /\ \A i \in 1..n : x[i] = s[n - i + 1]
      /\ y \in Seq(S) /\ Len(y) = m /\ \A i \in 1..m : y[i] = t[m - i + 1]
  BY DEF Reverse
<1>3. IsSuffix(s, t) <=> n <= m /\ SubSeq(x, 1, n) = SubSeq(y, 1, n)
  <2> HIDE DEF x, y
  <2> QED BY <1>2 DEF IsSuffix, IsPrefix, x, y
<1> HIDE DEF x, y
<1>4. ASSUME n <= m PROVE SubSeq(x, 1, n) = SubSeq(y, 1, n) <=> \A i \in 1..n : x[i] = y[i]
  <2> DEFINE u == SubSeq(x, 1, n)
             v == SubSeq(y, 1, n)
  <2>1. u \in Seq(S) /\ Len(u) = n /\ \A i \in 1..n : u[i] = x[i] BY <1>2
  <2>2. v \in Seq(S) /\ Len(v) = n /\ \A i \in 1..n : v[i] = y[i] BY <1>2, <1>4
  <2> HIDE DEF u, v
  <2>3. u = v <=> \A i \in 1..n : u[i] = v[i] BY <2>1, <2>2
  <2> QED BY <2>1, <2>2, <2>3 DEF u, v
<1>5. ASSUME n <= m
      PROVE  (\A i \in 1..n : x[i] = y[i]) <=> \A i \in 1..n : s[i] = t[m - n + i]
  <2>1. \A i \in 1..n : n - i + 1 \in 1..n /\ n - (n - i + 1) + 1 = i /\ m - n + (n - i + 1) = m - i + 1
    BY <1>1
  <2>2. \A i \in 1..n : x[i] = s[n - i + 1] /\ y[i] = t[m - i + 1] BY <1>2, <1>5
  <2>3. ASSUME \A i \in 1..n : x[i] = y[i], NEW i \in 1..n PROVE s[i] = t[m - n + i]
    <3> DEFINE j == n - i + 1
    <3>1. j \in 1..n /\ n - j + 1 = i /\ m - j + 1 = m - n + i BY <1>1
    <3> HIDE DEF j
    <3> QED BY <2>2, <2>3, <3>1
  <2>4. ASSUME \A i \in 1..n : s[i] = t[m - n + i], NEW i \in 1..n PROVE x[i] = y[i]
    <3> DEFINE j == n - i + 1
    <3>1. j \in 1..n /\ m - n + j = m - i + 1 BY <1>1
    <3> HIDE DEF j
    <3>2. s[j] = t[m - n + j] BY <2>4, <3>1
    <3> QED BY <2>2, <3>1, <3>2 DEF j
  <2> QED BY <2>3, <2>4
<1> QED BY <1>3, <1>4, <1>5

(* What has a suffix is something and the suffix                           *)
LEMMA SuffixOf ==
  ASSUME NEW S, NEW a \in Seq(S), NEW e \in Seq(S)
  PROVE  IsSuffix(e, a \o e) /\ Without(a \o e, e) = a
<1>1. a \o e \in Seq(S) /\ Len(a \o e) = Len(a) + Len(e) /\ Len(a) \in Nat /\ Len(e) \in Nat OBVIOUS
<1>2. \A i \in 1..Len(e) : (a \o e)[Len(a) + i] = e[i] OBVIOUS
<1>3. IsSuffix(e, a \o e)
  <2> DEFINE t == a \o e
  <2>1. t \in Seq(S) /\ Len(t) = Len(a) + Len(e) BY <1>1
  <2>2. \A i \in 1..Len(e) : e[i] = t[Len(t) - Len(e) + i] BY <1>1, <1>2
  <2> HIDE DEF t
  <2>3. IsSuffix(e, t) <=> Len(e) <= Len(t) /\ \A i \in 1..Len(e) : e[i] = t[Len(t) - Len(e) + i]
    BY <2>1, SuffixIs
  <2> QED BY <1>1, <2>1, <2>2, <2>3 DEF t
<1>4. SubSeq(a \o e, 1, Len(a)) = a OBVIOUS
<1> QED BY <1>1, <1>3, <1>4 DEF Without

(* ... and is what is left when it is taken off                            *)
LEMMA SuffixLeaves ==
  ASSUME NEW S, NEW e \in Seq(S), NEW t \in Seq(S), IsSuffix(e, t)
  PROVE  Without(t, e) \in Seq(S) /\ t = Without(t, e) \o e
<1> DEFINE w == Without(t, e)
<1>1. /\ Len(t) \in Nat /\ Len(e) \in Nat /\ Len(e) <= Len(t)
      /\ \A i \in 1..Len(e) : e[i] = t[Len(t) - Len(e) + i]
  BY SuffixIs
<1>2. w \in Seq(S) /\ Len(w) = Len(t) - Len(e) /\ \A i \in 1..(Len(t) - Len(e)) : w[i] = t[i]
  BY <1>1 DEF Without
<1> HIDE DEF w
<1>3. w \o e \in Seq(S) /\ Len(w \o e) = Len(t) BY <1>1, <1>2
<1>4. ASSUME NEW i \in 1..Len(t) PROVE (w \o e)[i] = t[i]
  <2>1. CASE i <= Len(w) BY <1>1, <1>2, <2>1
  <2>2. CASE ~(i <= Len(w))
    <3>1. (w \o e)[i] = e[i - Len(w)] /\ i - Len(w) \in 1..Len(e) BY <1>1, <1>2, <2>2
    <3>2. Len(t) - Len(e) + (i - Len(w)) = i BY <1>1, <1>2
    <3> QED BY <1>1, <3>1, <3>2
  <2> QED BY <2>1, <2>2
<1>5. w \o e = t
  <2> DEFINE u == w \o e
  <2>1. u \in Seq(S) /\ Len(u) = Len(t) /\ \A i \in 1..Len(t) : u[i] = t[i] BY <1>3, <1>4
  <2> HIDE DEF u
  <2>2. u = t BY <2>1
  <2> QED BY <2>2 DEF u
<1> QED BY <1>2, <1>5 DEF w

(* The last segment, and the segments that endpoints are made of           *)
LastOf(p) == p[Len(p)]
Names == {"v1", "messages", "responses", "models", "chat", "completions"}

(* A sequence over a set is one over a larger set                          *)
LEMMA NamesMore == ASSUME NEW S, NEW T, S \subseteq T, NEW s \in Seq(S) PROVE s \in Seq(T)
OBVIOUS

(* A sequence of one                                                       *)
LEMMA Single == ASSUME NEW S, NEW x \in S PROVE <<x>> \in Seq(S) /\ Len(<<x>>) = 1 /\ <<x>>[1] = x
OBVIOUS

(* A sequence of two                                                       *)
LEMMA Double ==
  ASSUME NEW S, NEW x \in S, NEW y \in S
  PROVE  <<x, y>> \in Seq(S) /\ Len(<<x, y>>) = 2 /\ <<x, y>>[1] = x /\ <<x, y>>[2] = y
OBVIOUS

(* The endpoints are known by their last segment                           *)
LEMMA EndpointsDiffer ==
  /\ \A e \in Endpoints : /\ e \in Seq(Names) /\ Len(e) \in {1, 2} /\ e[1] # "v1"
                          /\ LastOf(e) # "v1"
  /\ \A d, e \in Endpoints : LastOf(d) = LastOf(e) => d = e
<1>1. ASSUME NEW e \in Endpoints
      PROVE  e \in Seq(Names) /\ Len(e) \in {1, 2} /\ e[1] # "v1" /\ LastOf(e) # "v1"
  <2>1. \A x \in Names : <<x>> \in Seq(Names) /\ Len(<<x>>) = 1 /\ <<x>>[1] = x BY Single
  <2>2. \A x, y \in Names : /\ <<x, y>> \in Seq(Names) /\ Len(<<x, y>>) = 2
                            /\ <<x, y>>[1] = x /\ <<x, y>>[2] = y
    BY Double
  <2>3. CASE \E x \in Names \ {"v1"} : e = <<x>> BY <2>1, <2>3 DEF LastOf
  <2>4. CASE e = <<"chat", "completions">> BY <2>2, <2>4 DEF LastOf, Names
  <2> QED BY <2>3, <2>4 DEF Endpoints, Names
<1>2. \A d, e \in Endpoints : LastOf(d) = LastOf(e) => d = e
  BY DEF Endpoints, LastOf
<1> QED BY <1>1, <1>2

(* ... and with a version before them                                      *)
LEMMA VersionedSeq ==
  ASSUME NEW e \in Endpoints
  PROVE  /\ Versioned(e) \in Seq(Names) /\ Len(Versioned(e)) = Len(e) + 1
         /\ Versioned(e)[1] = "v1" /\ LastOf(Versioned(e)) = LastOf(e)
         /\ Tail(Versioned(e)) = e
<1>1. e \in Seq(Names) /\ Len(e) \in {1, 2} BY EndpointsDiffer
<1>2. <<"v1">> \in Seq(Names) /\ Len(<<"v1">>) = 1 BY Single DEF Names
<1> DEFINE v == <<"v1">> \o e
<1>3. v \in Seq(Names) /\ Len(v) = Len(e) + 1 /\ v[1] = "v1" /\ \A i \in 1..Len(e) : v[i + 1] = e[i]
  BY <1>1, <1>2
<1>4. Tail(v) = e
  <2> HIDE DEF v
  <2> DEFINE u == Tail(v)
  <2>1. u \in Seq(Names) /\ Len(u) = Len(e) /\ \A i \in 1..Len(e) : u[i] = e[i] BY <1>1, <1>3
  <2> HIDE DEF u
  <2>2. u = e BY <1>1, <2>1
  <2> QED BY <2>2 DEF u
<1>5. LastOf(v) = LastOf(e)
  <2> HIDE DEF v
  <2>1. Len(e) \in 1..Len(e) BY <1>1
  <2> QED BY <1>1, <1>3, <2>1 DEF LastOf
<1> QED BY <1>3, <1>4, <1>5 DEF Versioned

(* What a suffix ends in, its sequence ends in                             *)
LEMMA SameLast ==
  ASSUME NEW S, NEW e \in Seq(S), e # <<>>, NEW t \in Seq(S), IsSuffix(e, t)
  PROVE  LastOf(e) = LastOf(t)
<1>1. /\ Len(t) \in Nat /\ Len(e) \in Nat /\ Len(e) <= Len(t)
      /\ \A i \in 1..Len(e) : e[i] = t[Len(t) - Len(e) + i]
  BY SuffixIs
<1>2. Len(e) \in 1..Len(e) /\ Len(t) - Len(e) + Len(e) = Len(t) BY <1>1
<1>3. e[Len(e)] = t[Len(t) - Len(e) + Len(e)] BY <1>1, <1>2
<1> QED BY <1>2, <1>3 DEF LastOf

(* Which endpoint is taken off an address                                  *)
LEMMA NormalOf ==
  ASSUME NEW S, Names \subseteq S, NEW a \in Seq(S), NEW e \in Endpoints
  PROVE  /\ Normal(a \o Versioned(e)) = a
         /\ ~IsSuffix(<<"v1">>, a) => Normal(a \o e) = a
<1>2. ASSUME NEW d \in Endpoints
      PROVE  d \in Seq(S) /\ Versioned(d) \in Seq(S) /\ d # <<>> /\ Versioned(d) # <<>>
  <2>1. d \in Seq(Names) /\ Len(d) \in {1, 2} BY EndpointsDiffer
  <2>2. Versioned(d) \in Seq(Names) /\ Len(Versioned(d)) = Len(d) + 1 BY VersionedSeq
  <2>3. d \in Seq(S) /\ Versioned(d) \in Seq(S) BY <2>1, <2>2, NamesMore
  <2>4. Len(<<>>) = 0 OBVIOUS
  <2>5. Len(d) # 0 /\ Len(Versioned(d)) # 0 BY <2>1, <2>2
  <2> QED BY <2>3, <2>4, <2>5
<1>1. e \in Seq(S) /\ Versioned(e) \in Seq(S) /\ e # <<>> /\ Versioned(e) # <<>>
  BY <1>2
<1>3. ASSUME NEW t \in Seq(S), NEW d \in Endpoints, NEW f \in Endpoints,
             IsSuffix(d, t) \/ IsSuffix(Versioned(d), t), IsSuffix(f, t) \/ IsSuffix(Versioned(f), t)
      PROVE  d = f
  <2>1. LastOf(d) = LastOf(t) BY <1>2, <1>3, SameLast, VersionedSeq
  <2>2. LastOf(f) = LastOf(t) BY <1>2, <1>3, SameLast, VersionedSeq
  <2> QED BY <2>1, <2>2, EndpointsDiffer
<1>4. Normal(a \o Versioned(e)) = a
  <2> DEFINE t == a \o Versioned(e)
  <2>1. t \in Seq(S) /\ IsSuffix(Versioned(e), t) /\ Without(t, Versioned(e)) = a BY <1>1, SuffixOf
  <2> HIDE DEF t
  <2>2. \A d \in Endpoints : IsSuffix(Versioned(d), t) => d = e BY <1>3, <2>1
  <2>3. (CHOOSE d \in Endpoints : IsSuffix(Versioned(d), t)) = e BY <2>1, <2>2
  <2> QED BY <2>1, <2>3 DEF Normal, t
<1>5. ASSUME ~IsSuffix(<<"v1">>, a) PROVE Normal(a \o e) = a
  <2> DEFINE t == a \o e
  <2>1. t \in Seq(S) /\ IsSuffix(e, t) /\ Without(t, e) = a BY <1>1, SuffixOf
  <2>2. ASSUME NEW d \in Endpoints, IsSuffix(Versioned(d), t) PROVE FALSE
    <3> HIDE DEF t
    <3>1. d = e BY <1>3, <2>1, <2>2
    <3>2. /\ Len(Versioned(e)) <= Len(t)
          /\ \A i \in 1..Len(Versioned(e)) : Versioned(e)[i] = t[Len(t) - Len(Versioned(e)) + i]
      BY <1>1, <2>1, <2>2, <3>1, SuffixIs
    <3>3. Len(Versioned(e)) = Len(e) + 1 /\ Versioned(e)[1] = "v1" /\ Len(e) \in Nat
      BY VersionedSeq, EndpointsDiffer
    <3>4. Len(t) = Len(a) + Len(e) /\ Len(a) \in Nat BY <1>1 DEF t
    <3>5. 1 \in 1..Len(Versioned(e)) /\ Len(t) - Len(Versioned(e)) + 1 = Len(a) /\ Len(a) >= 1
      BY <3>2, <3>3, <3>4
    <3>6. t[Len(a)] = "v1" BY <3>2, <3>3, <3>5
    <3>7. a[Len(a)] = "v1" BY <1>1, <3>4, <3>5, <3>6 DEF t
    <3>8. <<"v1">> \in Seq(S) /\ Len(<<"v1">>) = 1 BY Single DEF Names
    <3>9. IsSuffix(<<"v1">>, a)
      <4>1. IsSuffix(<<"v1">>, a) <=> Len(<<"v1">>) <= Len(a) /\
              \A i \in 1..Len(<<"v1">>) : <<"v1">>[i] = a[Len(a) - Len(<<"v1">>) + i]
        BY <3>8, SuffixIs
      <4>2. \A i \in 1..1 : <<"v1">>[i] = a[Len(a) - 1 + i] BY <3>4, <3>7
      <4> QED BY <3>5, <3>8, <4>1, <4>2
    <3> QED BY <1>5, <3>9
  <2> HIDE DEF t
  <2>3. \A d \in Endpoints : IsSuffix(d, t) => d = e BY <1>3, <2>1
  <2>4. (CHOOSE d \in Endpoints : IsSuffix(d, t)) = e BY <2>1, <2>3
  <2> QED BY <2>1, <2>2, <2>4 DEF Normal, t
<1> QED BY <1>4, <1>5

(* Whether something begins with a version                                 *)
LEMMA BeginsWithV1 ==
  ASSUME NEW S, Names \subseteq S, NEW s \in Seq(S), Len(s) >= 1
  PROVE  IsPrefix(<<"v1">>, s) <=> s[1] = "v1"
<1>1. <<"v1">> \in Seq(S) /\ Len(<<"v1">>) = 1 /\ <<"v1">>[1] = "v1" BY Single DEF Names
<1> DEFINE v == <<"v1">>
           x == SubSeq(v, 1, 1)
           y == SubSeq(s, 1, 1)
<1>2. Len(s) \in Nat OBVIOUS
<1> HIDE DEF v
<1>3. v \in Seq(S) /\ Len(v) = 1 /\ v[1] = "v1" BY <1>1 DEF v
<1>4. x \in Seq(S) /\ Len(x) = 1 /\ x[1] = "v1" BY <1>3
<1>5. y \in Seq(S) /\ Len(y) = 1 /\ y[1] = s[1] BY <1>2
<1>6. IsPrefix(v, s) <=> x = y BY <1>2, <1>3 DEF IsPrefix
<1> HIDE DEF x, y
<1>7. x = y <=> x[1] = y[1] BY <1>4, <1>5
<1> QED BY <1>4, <1>5, <1>6, <1>7 DEF v

(* ... or ends with one                                                    *)
LEMMA EndsInV1 ==
  ASSUME NEW S, Names \subseteq S, NEW s \in Seq(S)
  PROVE  IsSuffix(<<"v1">>, s) <=> Len(s) >= 1 /\ LastOf(s) = "v1"
<1>1. <<"v1">> \in Seq(S) /\ Len(<<"v1">>) = 1 /\ <<"v1">>[1] = "v1" BY Single DEF Names
<1> DEFINE v == <<"v1">>
<1> HIDE DEF v
<1>2. v \in Seq(S) /\ Len(v) = 1 /\ v[1] = "v1" BY <1>1 DEF v
<1>3. IsSuffix(v, s) <=> Len(v) <= Len(s) /\ \A i \in 1..Len(v) : v[i] = s[Len(s) - Len(v) + i]
  BY <1>2, SuffixIs
<1>4. Len(s) \in Nat OBVIOUS
<1>5. (\A i \in 1..1 : v[i] = s[Len(s) - 1 + i]) <=> v[1] = s[Len(s)]
  <2>1. \A i \in 1..1 : i = 1 OBVIOUS
  <2>2. Len(s) - 1 + 1 = Len(s) /\ 1 \in 1..1 BY <1>4
  <2> QED BY <2>1, <2>2
<1> QED BY <1>2, <1>3, <1>4, <1>5 DEF v, LastOf

(* Which endpoint is at the end of what was appended                       *)
LEMMA TailsEndpoint ==
  ASSUME NEW e \in Endpoints, NEW b \in {e, Versioned(e)}
  PROVE  (CHOOSE x \in Endpoints : IsSuffix(x, b)) = e
<1>1. /\ \A d \in Endpoints : d \in Seq(Names) /\ Len(d) \in {1, 2} /\ d # <<>>
      /\ Versioned(e) \in Seq(Names) /\ LastOf(Versioned(e)) = LastOf(e)
  <2>1. \A d \in Endpoints : d \in Seq(Names) /\ Len(d) \in {1, 2} BY EndpointsDiffer
  <2>2. Len(<<>>) = 0 OBVIOUS
  <2> QED BY <2>1, <2>2, VersionedSeq
<1>2. b \in Seq(Names) /\ LastOf(b) = LastOf(e) BY <1>1
<1>3. \A x \in Endpoints : IsSuffix(x, b) => x = e
  BY <1>1, <1>2, SameLast, EndpointsDiffer
<1>4. IsSuffix(e, b)
  <2>1. CASE b = e
    <3>1. IsSuffix(e, e) <=> Len(e) <= Len(e) /\ \A i \in 1..Len(e) : e[i] = e[Len(e) - Len(e) + i]
      BY <1>1, SuffixIs
    <3>2. \A i \in 1..Len(e) : Len(e) - Len(e) + i = i BY <1>1
    <3> QED BY <1>1, <2>1, <3>1, <3>2
  <2>2. CASE b = Versioned(e)
    <3>1. <<"v1">> \in Seq(Names) BY Single DEF Names
    <3> QED BY <1>1, <2>2, <3>1, SuffixOf DEF Versioned
  <2> QED BY <2>1, <2>2
<1> QED BY <1>3, <1>4

(* The candidates of an address that is normal                             *)
LEMMA JoinOf ==
  ASSUME NEW S, Names \subseteq S, NEW a \in Seq(S), IsNormal(a), NEW e \in Endpoints
  PROVE  /\ Join(a, e) = a \o e
         /\ ~IsSuffix(<<"v1">>, a) => Join(a, Versioned(e)) = a \o Versioned(e)
<1>1. Normal(a) = a BY DEF IsNormal
<1>2. ~IsPrefix(<<"v1">>, e)
  <2>1. e \in Seq(Names) /\ Len(e) >= 1 /\ e[1] # "v1" BY EndpointsDiffer
  <2> QED BY <2>1, BeginsWithV1
<1>3. Join(a, e) = a \o e BY <1>1, <1>2 DEF Join
<1>4. ~IsSuffix(<<"v1">>, a) => Join(a, Versioned(e)) = a \o Versioned(e) BY <1>1 DEF Join
<1> QED BY <1>3, <1>4

(* An endpoint's address is asked, whatever stands before the endpoint     *)
LEMMA PastedIsAsked ==
  ASSUME NEW S, Names \subseteq S, NEW a \in Seq(S), NEW e \in Endpoints, NEW b \in {e, Versioned(e)},
         IsNormal(a), IsNormal(Normal(a \o b)), ~Twice(a \o b)
  PROVE  a \o b \in {Candidates(Normal(a \o b), e)[i] : i \in 1..2}
<1>1. /\ e \in Seq(S) /\ Len(e) \in {1, 2}
      /\ Versioned(e) \in Seq(S) /\ Len(Versioned(e)) = Len(e) + 1 /\ Versioned(e)[1] = "v1"
  BY EndpointsDiffer, VersionedSeq, NamesMore
<1>2. \A n : /\ Join(n, Versioned(e)) \in {Candidates(n, e)[i] : i \in 1..2}
             /\ Join(n, e) \in {Candidates(n, e)[i] : i \in 1..2}
  <2> TAKE n
  <2>1. Candidates(n, e)[1] = Join(n, Versioned(e)) /\ Candidates(n, e)[2] = Join(n, e) BY DEF Candidates
  <2>2. 1 \in 1..2 /\ 2 \in 1..2 OBVIOUS
  <2> QED BY <2>1, <2>2
<1>3. Len(a) \in Nat OBVIOUS
<1>4. ASSUME NEW x \in Seq(S), ~Twice(x \o Versioned(e)) PROVE ~IsSuffix(<<"v1">>, x)
  <2> DEFINE t == x \o Versioned(e)
             n == Len(x)
  <2>1. SUFFICES ASSUME n >= 1, x[n] = "v1" PROVE FALSE BY EndsInV1 DEF LastOf
  <2>2. n \in Nat OBVIOUS
  <2>3. Len(t) = n + Len(e) + 1 /\ t[n] = x[n] /\ t[n + 1] = Versioned(e)[1]
    <3>1. ASSUME NEW y \in Seq(S), Len(y) >= 1
          PROVE  Len(x \o y) = n + Len(y) /\ (x \o y)[n] = x[n] /\ (x \o y)[n + 1] = y[1]
      <4>1. Len(y) \in Nat /\ Len(x) \in Nat /\ Len(x \o y) = Len(x) + Len(y) OBVIOUS
      <4>2. n \in 1..Len(x) /\ n + 1 \in 1..(Len(x) + Len(y)) /\ ~(n + 1 <= Len(x)) /\ (n + 1) - Len(x) = 1
        BY <2>1, <2>2, <3>1, <4>1
      <4>3. \A i \in 1..(Len(x) + Len(y)) : (x \o y)[i] = IF i <= Len(x) THEN x[i] ELSE y[i - Len(x)]
        OBVIOUS
      <4> HIDE DEF n
      <4>4. (x \o y)[n + 1] = y[1] BY <4>2, <4>3
      <4>5. (x \o y)[n] = x[n] BY <2>2, <4>1, <4>2, <4>3
      <4> QED BY <4>1, <4>4, <4>5 DEF n
    <3>2. Len(Versioned(e)) >= 1 BY <1>1
    <3> HIDE DEF n
    <3>3. Len(t) = n + Len(Versioned(e)) /\ t[n] = x[n] /\ t[n + 1] = Versioned(e)[1]
      BY <1>1, <3>1, <3>2
    <3> HIDE DEF t
    <3>4. Len(e) \in Nat BY <1>1
    <3> QED BY <1>1, <2>2, <3>3, <3>4
  <2> HIDE DEF t, n
  <2>4. n \in 1..(Len(t) - 1) /\ t[n] = t[n + 1] /\ t[n] \in {"v1", "anthropic"}
    BY <1>1, <2>1, <2>2, <2>3
  <2>5. Twice(t) BY <2>4 DEF Twice
  <2> QED BY <1>4, <2>5 DEF t
<1>5. CASE b = Versioned(e)
  <2>1. Normal(a \o b) = a BY <1>5, NormalOf
  <2>2. ~IsSuffix(<<"v1">>, a) BY <1>4, <1>5
  <2>3. Join(a, Versioned(e)) = a \o b BY <1>5, <2>2, JoinOf
  <2> QED BY <1>2, <2>1, <2>3
<1>6. CASE b = e /\ ~IsSuffix(<<"v1">>, a)
  <2>1. Normal(a \o b) = a BY <1>6, NormalOf
  <2>2. Join(a, e) = a \o b BY <1>6, JoinOf
  <2> QED BY <1>2, <2>1, <2>2
<1>7. CASE b = e /\ IsSuffix(<<"v1">>, a)
  <2> DEFINE c == Without(a, <<"v1">>)
  <2>1. <<"v1">> \in Seq(S) BY Single DEF Names
  <2>2. c \in Seq(S) /\ a = c \o <<"v1">> BY <1>7, <2>1, SuffixLeaves
  <2> HIDE DEF c
  <2>3. a \o e = c \o Versioned(e) BY <1>1, <2>1, <2>2 DEF Versioned
  <2>4. Normal(a \o b) = c BY <1>7, <2>2, <2>3, NormalOf
  <2>5. ~IsSuffix(<<"v1">>, c) BY <1>4, <1>7, <2>2, <2>3
  <2>6. Join(c, Versioned(e)) = a \o b BY <1>7, <2>2, <2>3, <2>4, <2>5, JoinOf
  <2> QED BY <1>2, <2>4, <2>6
<1> QED BY <1>5, <1>6, <1>7

(* Whatever endpoint address is pasted is among those the probe asks, for  *)
(* addresses of any length (normalize_base_url, candidate_urls)            *)
THEOREM PastedIsProbed == CoreSpec => []PastedAddressIsProbed
<1> SUFFICES ASSUME Given, Input("address") PROVE PastedAddressIsProbed
  BY GivenAlways, PTL DEF PastedAddressIsProbed
<1> DEFINE a == input.of[1]
           b == input.of[2]
           S == Segments \union Names
<1>1. input.of \in Paths \X Tails BY InputKinds
<1>2. a \in Seq(S) /\ Names \subseteq S
  <2>1. a \in Seq(Segments) BY <1>1, UpToSeq, LengthsAssumption DEF Paths
  <2> QED BY <2>1, NamesMore
<1>3. PICK e \in Endpoints : b \in {e, Versioned(e)} BY <1>1 DEF Tails
<1> HIDE DEF a, b, S
<1>4. (CHOOSE x \in Endpoints : IsSuffix(x, b)) = e BY <1>3, TailsEndpoint
<1>5. IsNormal(a) /\ IsNormal(Normal(a \o b)) /\ ~Twice(a \o b)
        => a \o b \in {Candidates(Normal(a \o b), e)[i] : i \in 1..2}
  BY <1>2, <1>3, PastedIsAsked
<1> QED BY <1>4, <1>5 DEF PastedAddressIsProbed, a, b


--------------------------------------------------------------------------------
(* What is pasted, and what is exported and read back                      *)

(* Numbers in ascending order: each of them, and no other, has a place     *)
LEMMA AscendingLists ==
  ASSUME NEW m \in Nat, NEW I \in SUBSET (1..m)
  PROVE  /\ IsFiniteSet(I) /\ Cardinality(I) \in Nat
         /\ DOMAIN Ascending(I) = 1..Cardinality(I)
         /\ \A n \in DOMAIN Ascending(I) : Ascending(I)[n] \in I
         /\ \A i \in I : \E n \in DOMAIN Ascending(I) : Ascending(I)[n] = i
<1> DEFINE Less(i) == {j \in I : j < i}
           rank == [i \in I |-> Cardinality(Less(i))]
           N == Cardinality(I)
<1>1. IsFiniteSet(I) /\ N \in Nat /\ I \subseteq Int
  <2>1. IsFiniteSet(1..m) BY FS_Interval
  <2>2. IsFiniteSet(I) /\ N \in Nat BY <2>1, FS_Subset, FS_CardinalityType
  <2>3. I \subseteq Int OBVIOUS
  <2> QED BY <2>2, <2>3
<1>2. \A i \in I : /\ IsFiniteSet(Less(i)) /\ Cardinality(Less(i)) \in Nat
                   /\ Cardinality(Less(i)) < N
  <2> TAKE i \in I
  <2>1. Less(i) \in SUBSET I /\ Less(i) # I BY <1>1
  <2> QED BY <1>1, <2>1, FS_Subset, FS_CardinalityType
<1>3. rank \in Injection(I, 0..(N - 1))
  <2>1. rank \in [I -> 0..(N - 1)] BY <1>1, <1>2
  <2>2. ASSUME NEW i \in I, NEW j \in I, i < j PROVE rank[i] < rank[j]
    <3>1. Less(i) \in SUBSET Less(j) /\ i \in Less(j) /\ i \notin Less(i)
      <4>1. i \in Int /\ j \in Int /\ \A k \in I : k \in Int BY <1>1
      <4>2. ASSUME NEW k \in Less(i) PROVE k \in Less(j)
        <5>1. k \in I /\ k < i OBVIOUS
        <5>2. k < j BY <2>2, <4>1, <5>1
        <5> QED BY <5>1, <5>2
      <4>3. i \in Less(j) BY <2>2
      <4>4. ~(i < i) BY <4>1
      <4>5. i \notin Less(i) BY <4>4
      <4> HIDE DEF Less
      <4> QED BY <4>2, <4>3, <4>5
    <3>2. Cardinality(Less(i)) # Cardinality(Less(j)) /\ Cardinality(Less(i)) <= Cardinality(Less(j))
      BY <1>2, <3>1, FS_Subset
    <3> QED BY <1>2, <3>2
  <2>3. \A i, j \in I : rank[i] = rank[j] => i = j
    <3> TAKE i \in I, j \in I
    <3> HAVE rank[i] = rank[j]
    <3>1. ~(i < j) /\ ~(j < i)
      <4> HIDE DEF rank
      <4>1. rank[i] \in Int /\ rank[j] \in Int BY <1>1, <2>1
      <4> QED BY <2>2, <4>1
    <3> QED BY <3>1
  <2> HIDE DEF rank
  <2> QED BY <2>1, <2>3 DEF Injection, IsInjective
<1>4. rank \in Surjection(I, 0..(N - 1))
  <2>1. ASSUME NEW n \in Nat PROVE IsFiniteSet(0..(n - 1)) /\ Cardinality(0..(n - 1)) = n
    <3>1. 0 \in Int /\ n - 1 \in Int /\ (IF 0 > n - 1 THEN 0 ELSE (n - 1) - 0 + 1) = n OBVIOUS
    <3> QED BY ONLY <3>1, FS_Interval
  <2> HIDE DEF rank, N
  <2>2. IsFiniteSet(0..(N - 1)) /\ Cardinality(0..(N - 1)) = N BY <1>1, <2>1
  <2> QED BY <1>1, <1>3, <2>2, FS_Injection DEF N
<1>5. \A i \in I : rank[i] \in 0..(N - 1) BY <1>3 DEF Injection
<1>6. \A r \in 0..(N - 1) : \E i \in I : rank[i] = r BY <1>4 DEF Surjection
<1>7. \A i, j \in I : rank[i] = rank[j] => i = j BY <1>3 DEF Injection, IsInjective
<1>8. DOMAIN Ascending(I) = 1..N BY DEF Ascending
<1>9. ASSUME NEW n \in 1..N PROVE Ascending(I)[n] \in I /\ rank[Ascending(I)[n]] = n - 1
  <2>1. n - 1 \in 0..(N - 1) BY <1>1
  <2>2. PICK i \in I : rank[i] = n - 1 BY <1>6, <2>1
  <2>3. Cardinality({j \in I : j < i}) = n - 1 BY <2>2
  <2>4. Ascending(I)[n] = CHOOSE x \in I : Cardinality({j \in I : j < x}) = n - 1 BY DEF Ascending
  <2>5. Ascending(I)[n] \in I /\ Cardinality({j \in I : j < Ascending(I)[n]}) = n - 1 BY <2>3, <2>4, Zenon
  <2> QED BY <2>5
<1> HIDE DEF rank, N
<1>10. ASSUME NEW i \in I PROVE \E n \in 1..N : Ascending(I)[n] = i
  <2>1. rank[i] + 1 \in 1..N /\ (rank[i] + 1) - 1 = rank[i] BY <1>1, <1>5
  <2>2. Ascending(I)[rank[i] + 1] \in I /\ rank[Ascending(I)[rank[i] + 1]] = rank[i] BY <1>9, <2>1
  <2> QED BY <1>7, <2>1, <2>2
<1> QED BY <1>1, <1>8, <1>9, <1>10 DEF N

(* All elements of a sequence are the sequence                             *)
LEMMA AllChosen ==
  ASSUME NEW m \in Nat, NEW s, DOMAIN s = 1..m, s = [i \in 1..m |-> s[i]]
  PROVE  Chosen(s, 1..m) = s
<1>1. Cardinality(1..m) = m BY FS_Interval
<1>2. ASSUME NEW i \in 1..m PROVE Cardinality({j \in 1..m : j < i}) = i - 1
  <2>1. {j \in 1..m : j < i} = 1..(i - 1) BY <1>2
  <2>2. PICK k \in Nat : k = i - 1 OBVIOUS
  <2>3. Cardinality(1..k) = k BY FS_Interval
  <2> QED BY <2>1, <2>2, <2>3
<1>3. \A n \in 1..m : (CHOOSE i \in 1..m : Cardinality({j \in 1..m : j < i}) = n - 1) = n
  BY <1>2
<1>4. Ascending(1..m) = [n \in 1..m |-> n] BY <1>1, <1>3 DEF Ascending
<1> QED BY <1>4 DEF Chosen

(* Each pair of the entries is there once, and has one of them             *)
LEMMA OnceHas ==
  ASSUME NEW m \in Nat, NEW s, DOMAIN s = 1..m
  PROVE  LET once == Once(s) IN
         /\ \A n \in DOMAIN once : \E i \in 1..m : once[n] = s[i]
         /\ \A i \in 1..m : \E n \in DOMAIN once : Pair(once[n]) = Pair(s[i])
<1> DEFINE I == {i \in 1..m : \A j \in 1..(i - 1) : Pair(s[j]) # Pair(s[i])}
           a == Ascending(I)
<1>1. Once(s) = [n \in DOMAIN a |-> s[a[n]]] BY DEF Once, Chosen
<1>2. I \in SUBSET (1..m) OBVIOUS
<1>3. /\ DOMAIN a = 1..Cardinality(I) /\ \A n \in DOMAIN a : a[n] \in I
      /\ \A i \in I : \E n \in DOMAIN a : a[n] = i
  <2> HIDE DEF I
  <2> QED BY <1>2, AscendingLists
<1> HIDE DEF a
<1>4. ASSUME NEW i \in 1..m PROVE \E k \in I : Pair(s[k]) = Pair(s[i])
  <2> DEFINE Same == {k \in 1..m : Pair(s[k]) = Pair(s[i])}
  <2>1. IsFiniteSet(Same) /\ Same \subseteq Int /\ i \in Same
    <3>1. IsFiniteSet(1..m) BY FS_Interval
    <3> QED BY <3>1, FS_Subset
  <2>2. PICK k \in Same : \A x \in Same : k <= x
    <3> HIDE DEF Same
    <3> QED BY <2>1, LeastExists
  <2>3. ASSUME NEW j \in 1..(k - 1) PROVE Pair(s[j]) # Pair(s[k])
    <3>1. j \in 1..m /\ j < k BY <2>2
    <3>2. j \notin Same
      <4>1. k \in Int /\ j \in Int /\ ~(k <= j) BY <2>2, <3>1
      <4> HIDE DEF Same
      <4> QED BY <2>2, <4>1
    <3> QED BY <2>2, <3>1, <3>2
  <2> QED BY <2>2, <2>3
<1>5. DOMAIN Once(s) = DOMAIN a /\ \A n \in DOMAIN a : Once(s)[n] = s[a[n]] BY <1>1
<1>6. \A n \in DOMAIN Once(s) : \E i \in 1..m : Once(s)[n] = s[i] BY <1>2, <1>3, <1>5
<1>7. ASSUME NEW i \in 1..m PROVE \E n \in DOMAIN Once(s) : Pair(Once(s)[n]) = Pair(s[i])
  <2>1. PICK k \in I : Pair(s[k]) = Pair(s[i]) BY <1>4
  <2>2. PICK n \in DOMAIN a : a[n] = k BY <1>3
  <2> QED BY <1>5, <2>1, <2>2
<1> QED BY <1>6, <1>7

(* Of nothing, nothing is left                                             *)
LEMMA NoneAscend == Ascending({}) = <<>>
<1>1. Cardinality({}) = 0 BY FS_EmptySet
<1> QED BY <1>1 DEF Ascending

LEMMA Nothings == Once(<<>>) = <<>>
<1>1. DOMAIN <<>> = {} OBVIOUS
<1>2. Chosen(<<>>, {}) = <<>> BY NoneAscend DEF Chosen
<1> QED BY <1>1, <1>2 DEF Once

(* The greatest of a set of numbers is one of them                         *)
LEMMA MaxIsIn ==
  ASSUME NEW S, IsFiniteSet(S), S \subseteq Int, S # {}
  PROVE  Max(S) \in S
<1> DEFINE M == {-x : x \in S}
<1>1. IsFiniteSet(M)
  <2> DEFINE neg == [x \in S |-> -x]
  <2>1. neg \in Surjection(S, M) BY DEF Surjection
  <2> HIDE DEF M, neg
  <2> QED BY <2>1, FS_Surjection
<1>2. M \subseteq Int /\ M # {} OBVIOUS
<1>3. PICK y \in M : \A z \in M : y <= z
  <2> HIDE DEF M
  <2> QED BY <1>1, <1>2, LeastExists
<1>4. PICK x \in S : y = -x OBVIOUS
<1>5. ASSUME NEW z \in S PROVE x >= z
  <2>1. -z \in M OBVIOUS
  <2>2. y <= -z BY <1>3, <2>1
  <2>3. x \in Int /\ z \in Int OBVIOUS
  <2> HIDE DEF M
  <2> QED BY <1>4, <2>2, <2>3
<1> HIDE DEF M
<1>6. \E w \in S : \A z \in S : w >= z BY <1>5
<1> QED BY <1>6 DEF Max

(* A line is in one paragraph                                              *)
LEMMA RunsApart ==
  ASSUME NEW lines, Len(lines) \in Nat, NEW r \in Runs(lines), NEW q \in Runs(lines),
         NEW k \in r[1]..r[2], k \in q[1]..q[2]
  PROVE  r = q
<1>1. ASSUME NEW s \in Runs(lines)
      PROVE  /\ s = <<s[1], s[2]>> /\ s[1] \in 1..Len(lines) /\ s[2] \in 1..Len(lines)
             /\ Run(lines, s[1], s[2])
  BY DEF Runs
<1>2. ASSUME NEW s \in Runs(lines), NEW t \in Runs(lines), k \in s[1]..s[2], k \in t[1]..t[2]
      PROVE  ~(s[1] < t[1]) /\ ~(t[2] < s[2])
  <2>1. /\ s[1] \in 1..Len(lines) /\ s[2] \in 1..Len(lines) /\ t[1] \in 1..Len(lines)
        /\ t[2] \in 1..Len(lines) /\ k \in Int /\ s[1] <= k /\ k <= s[2] /\ t[1] <= k /\ k <= t[2]
    BY <1>1, <1>2
  <2>2. /\ \A i \in s[1]..s[2] : lines[i].kind \in TokenKinds
        /\ t[1] = 1 \/ lines[t[1] - 1].kind \notin TokenKinds
        /\ t[2] = Len(lines) \/ lines[t[2] + 1].kind \notin TokenKinds
    BY <1>1 DEF Run
  <2>3. ASSUME s[1] < t[1] PROVE FALSE
    <3>1. t[1] - 1 \in s[1]..s[2] /\ t[1] # 1 BY <2>1, <2>3
    <3> QED BY <2>2, <3>1
  <2>4. ASSUME t[2] < s[2] PROVE FALSE
    <3>1. t[2] + 1 \in s[1]..s[2] /\ t[2] # Len(lines) BY <2>1, <2>4
    <3> QED BY <2>2, <3>1
  <2> QED BY <2>3, <2>4
<1>3. r[1] = q[1] /\ r[2] = q[2]
  <2>1. ~(r[1] < q[1]) /\ ~(q[1] < r[1]) /\ ~(r[2] < q[2]) /\ ~(q[2] < r[2]) BY <1>2
  <2>2. r[1] \in Int /\ q[1] \in Int /\ r[2] \in Int /\ q[2] \in Int BY <1>1
  <2> QED BY <2>1, <2>2
<1> QED BY <1>1, <1>3

(* The url of a key is a line of its paragraph, when that has one          *)
LEMMA UrlIsNear ==
  ASSUME NEW lines, NEW m \in Nat, NEW r \in (1..m) \X (1..m), NEW k \in r[1]..r[2],
         lines[k].kind # "url"
  PROVE  LET urls == {i \in r[1]..r[2] : lines[i].kind = "url"}  u == UrlLine(lines, r, k) IN
         /\ u # 0 => u \in urls
         /\ urls # {} => u # 0
<1> DEFINE urls == {i \in r[1]..r[2] : lines[i].kind = "url"}
           u == UrlLine(lines, r, k)
           b == Before(lines, r, k, "url")
           a == After(lines, r, k, "url")
<1>1. r[1] \in 1..m /\ r[2] \in 1..m /\ k \in Int /\ r[1] <= k /\ k <= r[2] OBVIOUS
<1>2. urls \subseteq 1..m BY <1>1
<1>3. b \subseteq urls /\ a \subseteq urls BY <1>1 DEF Before, After
<1>4. urls # {} => b # {} \/ a # {}
  <2> SUFFICES ASSUME NEW i \in urls PROVE i \in b \/ i \in a OBVIOUS
  <2>1. i \in Int /\ r[1] <= i /\ i <= r[2] /\ lines[i].kind = "url" /\ i # k BY <1>1
  <2>2. i \in r[1]..(k - 1) \/ i \in (k + 1)..r[2] BY <1>1, <2>1
  <2> QED BY <2>1, <2>2 DEF Before, After
<1>5. IsFiniteSet(1..m) BY FS_Interval
<1>6. u = IF b # {} /\ (a = {} \/ Gap(lines, Max(b), k) <= Gap(lines, k, Min(a))) THEN Max(b)
          ELSE IF a # {} THEN Min(a) ELSE 0
  BY DEF UrlLine
<1> HIDE DEF urls, a, b, u
<1>7. \A X \in {a, b} : IsFiniteSet(X) /\ X \subseteq Int
  <2>1. \A X \in {a, b} : X \subseteq 1..m BY <1>2, <1>3
  <2>2. 1..m \subseteq Int OBVIOUS
  <2>3. \A X \in {a, b} : IsFiniteSet(X) BY <1>5, <2>1, FS_Subset
  <2> QED BY <2>1, <2>2, <2>3
<1>8. b # {} => Max(b) \in b BY <1>7, MaxIsIn
<1>9. a # {} => Min(a) \in a BY <1>7, MinIsLeast
<1>10. 0 \notin 1..m OBVIOUS
<1>11. u \in a \/ u \in b \/ (u = 0 /\ a = {} /\ b = {}) BY <1>6, <1>8, <1>9
<1>12. (u # 0 => u \in urls) /\ (urls # {} => u # 0)
  BY <1>2, <1>3, <1>4, <1>10, <1>11
<1> QED BY <1>12 DEF urls, u

(* Pasted pairs: a key that occurs once is paired with an address of its   *)
(* own paragraph, and is paired when its paragraph has an address, in      *)
(* texts of any number of lines (the docstring of parse_paste)             *)
THEOREM PairsKept == CoreSpec => []PairsStayInParagraph
<1> SUFFICES ASSUME Given, Input("lines") PROVE PairsStayInParagraph
  BY GivenAlways, PTL DEF PairsStayInParagraph
<1> DEFINE lines == input.of
           m == Len(lines)
           pairs == Pasted(lines)
           K == {k \in DOMAIN lines : lines[k].kind = "key" /\ UrlOf(lines, k) # 0}
           order == Ascending(K)
           entries == [n \in DOMAIN order |-> PastedEntry(lines, order[n])]
<1>1. lines \in Seq(Lines) /\ m \in Nat /\ DOMAIN lines = 1..m
  <2>1. lines \in UpTo(MaxLines, Lines) BY InputKinds
  <2>2. lines \in Seq(Lines) BY <2>1, UpToSeq, LengthsAssumption
  <2> QED BY <2>2
<1>2. pairs = Once(entries) BY DEF Pasted
<1> HIDE DEF lines
<1>3. /\ DOMAIN order = 1..Cardinality(K) /\ Cardinality(K) \in Nat
      /\ \A n \in DOMAIN order : order[n] \in K
      /\ \A k \in K : \E n \in DOMAIN order : order[n] = k
  <2>1. K \in SUBSET (1..m) BY <1>1
  <2> HIDE DEF K, m
  <2> QED BY <1>1, <2>1, AscendingLists
<1>4. /\ \A i \in DOMAIN pairs : \E n \in DOMAIN order : pairs[i] = PastedEntry(lines, order[n])
      /\ \A n \in DOMAIN order : \E i \in DOMAIN pairs : Pair(pairs[i]) = Pair(PastedEntry(lines, order[n]))
  <2>1. DOMAIN entries = 1..Cardinality(K) /\ \A n \in DOMAIN order : entries[n] = PastedEntry(lines, order[n])
    BY <1>3
  <2> HIDE DEF entries, order, K, pairs
  <2>2. /\ \A i \in DOMAIN pairs : \E n \in 1..Cardinality(K) : pairs[i] = entries[n]
        /\ \A n \in 1..Cardinality(K) : \E i \in DOMAIN pairs : Pair(pairs[i]) = Pair(entries[n])
    <3>1. PICK c : c = Cardinality(K) OBVIOUS
    <3>2. c \in Nat /\ DOMAIN entries = 1..c BY <1>3, <2>1, <3>1
    <3>3. /\ \A i \in DOMAIN Once(entries) : \E n \in 1..c : Once(entries)[i] = entries[n]
          /\ \A n \in 1..c : \E i \in DOMAIN Once(entries) : Pair(Once(entries)[i]) = Pair(entries[n])
      BY ONLY <3>2, OnceHas
    <3> QED BY ONLY <1>2, <3>1, <3>3
  <2>3. ASSUME NEW n \in DOMAIN order
        PROVE  n \in 1..Cardinality(K) /\ entries[n] = PastedEntry(lines, order[n])
    BY <1>3, <2>1
  <2>4. DOMAIN order = 1..Cardinality(K) BY <1>3
  <2>5. ASSUME NEW i \in DOMAIN pairs PROVE \E n \in DOMAIN order : pairs[i] = PastedEntry(lines, order[n])
    <3>1. PICK n \in 1..Cardinality(K) : pairs[i] = entries[n] BY <2>2
    <3>2. n \in DOMAIN order BY <2>4
    <3> QED BY <2>3, <3>1, <3>2
  <2>6. ASSUME NEW n \in DOMAIN order
        PROVE  \E i \in DOMAIN pairs : Pair(pairs[i]) = Pair(PastedEntry(lines, order[n]))
    BY <2>2, <2>3
  <2> QED BY <2>5, <2>6
<1> HIDE DEF pairs, order, entries, m
<1>5. ASSUME NEW r \in Runs(lines), NEW k \in r[1]..r[2], lines[k].kind = "key",
             \A j \in DOMAIN lines : j # k => lines[j] # lines[k]
      PROVE  LET urls == {lines[i].value : i \in {j \in r[1]..r[2] : lines[j].kind = "url"}}
                 got == {pairs[i].base : i \in {j \in DOMAIN pairs : pairs[j].key = lines[k].value}}
             IN  got \subseteq urls /\ (urls # {} => got # {})
  <2> DEFINE near == {j \in r[1]..r[2] : lines[j].kind = "url"}
             its == UrlOf(lines, k)
  <2>1. r \in (1..m) \X (1..m) /\ k \in 1..m BY <1>1 DEF Runs, m
  <2>2. RunOf(lines, k) = r
    <3>1. \A q \in Runs(lines) : k \in q[1]..q[2] => q = r BY <1>1, <1>5, RunsApart DEF m
    <3> QED BY <1>5, <3>1 DEF RunOf
  <2>3. (its # 0 => its \in near) /\ (near # {} => its # 0)
    <3>1. lines[k].kind # "url" BY <1>5
    <3> QED BY <1>1, <1>5, <2>1, <2>2, <3>1, UrlIsNear DEF UrlOf
  <2>4. ASSUME NEW i \in DOMAIN pairs, pairs[i].key = lines[k].value
        PROVE  pairs[i].base = lines[its].value /\ its # 0
    <3>1. PICK n \in DOMAIN order : pairs[i] = PastedEntry(lines, order[n]) BY <1>4
    <3>2. order[n] \in K BY <1>3
    <3>3. order[n] \in 1..m /\ UrlOf(lines, order[n]) # 0 BY <1>1, <3>2
    <3>4. lines[order[n]].value = lines[k].value BY <2>4, <3>1 DEF PastedEntry
    <3>5. lines[order[n]] \in Lines /\ lines[k] \in Lines BY <1>1, <2>1, <3>3
    <3>6. lines[order[n]] = lines[k] BY <3>4, <3>5, LinesAssumption
    <3>7. order[n] = k BY <1>1, <1>5, <3>3, <3>6
    <3> QED BY <3>1, <3>3, <3>7 DEF PastedEntry
  <2>5. ASSUME near # {} PROVE \E i \in DOMAIN pairs : pairs[i].key = lines[k].value
    <3>1. k \in K BY <1>1, <1>5, <2>1, <2>3, <2>5
    <3>2. PICK n \in DOMAIN order : order[n] = k BY <1>3, <3>1
    <3>3. PICK i \in DOMAIN pairs : Pair(pairs[i]) = Pair(PastedEntry(lines, k)) BY <1>4, <3>2
    <3>4. pairs[i].key = PastedEntry(lines, k).key BY <3>3 DEF Pair
    <3> QED BY <3>4 DEF PastedEntry
  <2> HIDE DEF its, K
  <2> QED BY <2>3, <2>4, <2>5
<1> QED BY <1>5 DEF PairsStayInParagraph, lines, pairs

(* The fields of an item                                                   *)
LEMMA ItemFields ==
  ASSUME NEW b, NEW k, NEW p, NEW n
  PROVE  LET it == Item(b, k, p, n) IN it.base = b /\ it.key = k /\ it.path = p /\ it.notes = n
BY DEF Item

(* A backup restores the table: read back by either parser it gives every  *)
(* row's address, key and path again, in order, without the notes, for     *)
(* tables of any size (export_backup, parse_sync_payload and               *)
(* parse_import_text)                                                      *)
THEOREM BackupKept == CoreSpec => []BackupRestores
<1> SUFFICES ASSUME Given, Input("rows") PROVE BackupRestores
  BY GivenAlways, PTL DEF BackupRestores
<1> DEFINE rows == input.of
           m == Len(rows)
           items == Backup(rows)
<1>1. rows \in Seq(Rows) /\ m \in Nat /\ DOMAIN rows = 1..m
  <2>1. rows \in UpTo(MaxRows, Rows) BY InputKinds
  <2>2. rows \in Seq(Rows) BY <2>1, UpToSeq, LengthsAssumption
  <2> QED BY <2>2
<1> HIDE DEF rows, m
<1>2. ASSUME NEW i \in 1..m
      PROVE  /\ items[i].base # NoBase /\ items[i].key # ""
             /\ SyncItem(items[i]) = items[i] /\ NormalItem(items[i]) = items[i]
             /\ items[i] = Restored(rows)[i]
  <2> DEFINE b == rows[i].base
             k == rows[i].key
             p == rows[i].path
  <2>1. rows[i] \in Rows BY <1>1
  <2>2. Normal(b) = b /\ b # NoBase /\ k # "" /\ p # "bad" BY <2>1, RowsAssumption DEF IsNormal
  <2>3. items[i] = Item(b, k, p, "") BY <1>1, <2>2 DEF Backup, Exported
  <2>4. Restored(rows)[i] = Item(b, k, p, "") BY <1>1 DEF Restored
  <2>5. ASSUME NEW none, none = "" PROVE items[i] = Item(b, k, p, none) BY <2>3, <2>5
  <2> HIDE DEF b, k, p, items
  <2>6. PICK none, it : none = "" /\ it = items[i] OBVIOUS
  <2>7. it = Item(b, k, p, none) BY <2>5, <2>6
  <2>8. it.base = b /\ it.key = k /\ it.path = p /\ it.notes = none BY ONLY <2>7, ItemFields
  <2>9. SyncItem(it) = Item(Normal(b), k, IF p = "bad" THEN "" ELSE p, "") BY ONLY <2>8 DEF SyncItem
  <2>10. SyncItem(it) = it BY <2>2, <2>6, <2>7, <2>9
  <2>11. NormalItem(it) = it BY <2>2, <2>7, <2>8 DEF NormalItem
  <2> QED BY <2>2, <2>3, <2>4, <2>6, <2>8, <2>10, <2>11
<1>3. /\ DOMAIN items = 1..m /\ items = [i \in 1..m |-> items[i]]
      /\ Restored(rows) = [i \in 1..m |-> Restored(rows)[i]]
  BY <1>1 DEF Backup, Restored
<1> HIDE DEF items
<1>4. UsableItems(items) = items
  <2>1. {i \in DOMAIN items : items[i].base # NoBase /\ items[i].key # ""} = 1..m BY <1>2, <1>3
  <2>2. Chosen(items, 1..m) = items BY <1>1, <1>3, AllChosen
  <2> QED BY <2>1, <2>2 DEF UsableItems
<1>5. ParseSync(items) = Restored(rows)
  <2>1. ParseSync(items) = [i \in 1..m |-> SyncItem(items[i])] BY <1>3, <1>4 DEF ParseSync
  <2> QED BY <1>2, <1>3, <2>1
<1>6. ParseJson(items) = Once(Restored(rows))
  <2>1. ParseJson(items) = Once([i \in 1..m |-> NormalItem(items[i])]) BY <1>3, <1>4 DEF ParseJson
  <2>2. [i \in 1..m |-> NormalItem(items[i])] = Restored(rows) BY <1>2, <1>3
  <2> QED BY <2>1, <2>2
<1>7. Imported(items, <<>>, <<>>) = ParseJson(items)
  <2> SUFFICES ASSUME ParseJson(items) = <<>> PROVE Imported(items, <<>>, <<>>) = <<>>
    BY DEF Imported
  <2>1. [i \in DOMAIN <<>> |-> ParseJson(<<>>[i])] = <<>> OBVIOUS
  <2>2. Once(FlattenSeq(<<>>)) = <<>> BY Nothings DEF FlattenSeq
  <2>3. Pasted(<<>>) = <<>>
    <3>1. {k \in DOMAIN <<>> : <<>>[k].kind = "key" /\ UrlOf(<<>>, k) # 0} = {} OBVIOUS
    <3>2. [n \in DOMAIN Ascending({}) |-> PastedEntry(<<>>, Ascending({})[n])] = <<>> BY NoneAscend
    <3> QED BY <3>1, <3>2, Nothings DEF Pasted
  <2> QED BY <2>1, <2>2, <2>3 DEF Imported
<1> QED BY <1>5, <1>6, <1>7 DEF BackupRestores, items, rows

--------------------------------------------------------------------------------
(* The migration of the database                                           *)

(* A database with the fields that one has                                 *)
Record(d) == d = [f \in D!Fields |-> d[f]]

(* Databases of equal fields are equal                                     *)
LEMMA SameRecord ==
  ASSUME NEW a, NEW b, Record(a), Record(b), a.old = b.old, a.new = b.new, a.columns = b.columns,
         a.indexes = b.indexes, a.settings = b.settings, a.stamped = b.stamped, a.failed = b.failed
  PROVE  a = b
<1>1. \A f \in D!Fields : a[f] = b[f] BY DEF D!Fields
<1>2. a = [f \in D!Fields |-> b[f]] BY <1>1 DEF Record
<1> QED BY <1>2 DEF Record

(* What each step makes of the fields                                      *)
LEMMA Renamed ==
  ASSUME NEW db, Record(db), NEW ts
  PROVE  LET d == D!Rename(db, ts)
         IN  /\ Record(d)
             /\ d.old = [t \in D!Tables |-> IF t \in ts /\ db.old[t] # "absent" THEN "absent" ELSE db.old[t]]
             /\ d.new = [t \in D!Tables |-> IF t \in ts /\ db.old[t] # "absent" THEN db.old[t] ELSE db.new[t]]
             /\ d.columns = db.columns /\ d.indexes = db.indexes /\ d.settings = db.settings
             /\ d.stamped = db.stamped /\ d.failed = db.failed
<1> DEFINE found == {t \in ts : db.old[t] # "absent"}
           was == [t \in D!Tables |-> IF t \in found THEN "absent" ELSE db.old[t]]
           is == [t \in D!Tables |-> IF t \in found THEN db.old[t] ELSE db.new[t]]
<1>1. D!Rename(db, ts) = [db EXCEPT !.old = was, !.new = is] BY DEF D!Rename
<1>2. \A t : t \in found <=> t \in ts /\ db.old[t] # "absent" OBVIOUS
<1>3. /\ was = [t \in D!Tables |-> IF t \in ts /\ db.old[t] # "absent" THEN "absent" ELSE db.old[t]]
      /\ is = [t \in D!Tables |-> IF t \in ts /\ db.old[t] # "absent" THEN db.old[t] ELSE db.new[t]]
  BY <1>2
<1> HIDE DEF found, was, is
<1>4. DOMAIN db = D!Fields BY DEF Record
<1>5. PICK d : d = D!Rename(db, ts) OBVIOUS
<1>6. d = [f \in D!Fields |-> IF f = "new" THEN is ELSE IF f = "old" THEN was ELSE db[f]]
  BY <1>1, <1>4, <1>5
<1>7. /\ Record(d) /\ d.old = was /\ d.new = is /\ d.columns = db.columns /\ d.indexes = db.indexes
      /\ d.settings = db.settings /\ d.stamped = db.stamped /\ d.failed = db.failed
  BY ONLY <1>6 DEF Record, D!Fields
<1> QED BY <1>3, <1>5, <1>7

LEMMA Created ==
  ASSUME NEW db, Record(db), NEW ts
  PROVE  LET d == D!Create(db, ts)
         IN  /\ Record(d)
             /\ d.new = [t \in D!Tables |-> IF t \in ts /\ db.new[t] = "absent" THEN "empty" ELSE db.new[t]]
             /\ d.columns = db.columns
                  \union (IF "keys" \in ts /\ db.new["keys"] = "absent" THEN D!Columns \ {"enabled"} ELSE {})
                  \union (IF "users" \in ts /\ db.new["users"] = "absent" THEN {"enabled"} ELSE {})
             /\ d.old = db.old /\ d.indexes = db.indexes /\ d.settings = db.settings
             /\ d.stamped = db.stamped /\ d.failed = db.failed
<1> DEFINE made == {t \in ts : db.new[t] = "absent"}
           is == [t \in D!Tables |-> IF t \in made THEN "empty" ELSE db.new[t]]
           wide == db.columns \union (IF "keys" \in made THEN D!Columns \ {"enabled"} ELSE {})
                     \union (IF "users" \in made THEN {"enabled"} ELSE {})
<1>1. D!Create(db, ts) = [db EXCEPT !.new = is, !.columns = wide] BY DEF D!Create
<1>2. \A t : t \in made <=> t \in ts /\ db.new[t] = "absent" OBVIOUS
<1> HIDE DEF made
<1>3. is = [t \in D!Tables |-> IF t \in ts /\ db.new[t] = "absent" THEN "empty" ELSE db.new[t]]
  BY <1>2
<1>4. wide = db.columns
               \union (IF "keys" \in ts /\ db.new["keys"] = "absent" THEN D!Columns \ {"enabled"} ELSE {})
               \union (IF "users" \in ts /\ db.new["users"] = "absent" THEN {"enabled"} ELSE {})
  BY <1>2
<1> HIDE DEF is, wide
<1>5. PICK d : d = D!Create(db, ts) OBVIOUS
<1>6. d = [f \in D!Fields |-> IF f = "columns" THEN wide ELSE IF f = "new" THEN is ELSE db[f]]
  BY <1>1, <1>5 DEF Record
<1>7. /\ Record(d) /\ d.new = is /\ d.columns = wide /\ d.old = db.old /\ d.indexes = db.indexes
      /\ d.settings = db.settings /\ d.stamped = db.stamped /\ d.failed = db.failed
  BY ONLY <1>6 DEF Record, D!Fields
<1> QED BY <1>3, <1>4, <1>5, <1>7

LEMMA Added ==
  ASSUME NEW db, Record(db), NEW cs
  PROVE  LET d == D!AddColumns(db, cs)
         IN  /\ Record(d) /\ d.columns = db.columns \union cs
             /\ d.old = db.old /\ d.new = db.new /\ d.indexes = db.indexes /\ d.settings = db.settings
             /\ d.stamped = db.stamped /\ d.failed = db.failed
<1> DEFINE wide == db.columns \union cs
<1>1. D!AddColumns(db, cs) = [db EXCEPT !.columns = wide] BY DEF D!AddColumns
<1> HIDE DEF wide
<1>2. PICK d : d = D!AddColumns(db, cs) OBVIOUS
<1>3. d = [f \in D!Fields |-> IF f = "columns" THEN wide ELSE db[f]] BY <1>1, <1>2 DEF Record
<1>4. /\ Record(d) /\ d.columns = wide /\ d.old = db.old /\ d.new = db.new /\ d.indexes = db.indexes
      /\ d.settings = db.settings /\ d.stamped = db.stamped /\ d.failed = db.failed
  BY ONLY <1>3 DEF Record, D!Fields
<1> QED BY <1>2, <1>4 DEF wide

LEMMA Indexed ==
  ASSUME NEW db, Record(db), NEW c \in db.columns
  PROVE  LET d == D!Index(db, c)
         IN  /\ Record(d) /\ d.indexes = db.indexes \union {c}
             /\ d.old = db.old /\ d.new = db.new /\ d.columns = db.columns /\ d.settings = db.settings
             /\ d.stamped = db.stamped /\ d.failed = db.failed
<1> DEFINE more == db.indexes \union {c}
<1>1. D!Index(db, c) = [db EXCEPT !.indexes = more] BY DEF D!Index
<1> HIDE DEF more
<1>2. PICK d : d = D!Index(db, c) OBVIOUS
<1>3. d = [f \in D!Fields |-> IF f = "indexes" THEN more ELSE db[f]] BY <1>1, <1>2 DEF Record
<1>4. /\ Record(d) /\ d.indexes = more /\ d.old = db.old /\ d.new = db.new /\ d.columns = db.columns
      /\ d.settings = db.settings /\ d.stamped = db.stamped /\ d.failed = db.failed
  BY ONLY <1>3 DEF Record, D!Fields
<1> QED BY <1>2, <1>4 DEF more

LEMMA Stamped ==
  ASSUME NEW db, Record(db)
  PROVE  LET d == D!Stamp(db)
         IN  /\ Record(d) /\ d.stamped = TRUE
             /\ d.old = db.old /\ d.new = db.new /\ d.columns = db.columns /\ d.indexes = db.indexes
             /\ d.settings = db.settings /\ d.failed = db.failed
<1>1. PICK d : d = D!Stamp(db) OBVIOUS
<1>2. d = [f \in D!Fields |-> IF f = "stamped" THEN TRUE ELSE db[f]] BY <1>1 DEF Record, D!Stamp
<1>3. /\ Record(d) /\ d.stamped = TRUE /\ d.old = db.old /\ d.new = db.new /\ d.columns = db.columns
      /\ d.indexes = db.indexes /\ d.settings = db.settings /\ d.failed = db.failed
  BY ONLY <1>2 DEF Record, D!Fields
<1> QED BY <1>1, <1>3

(* What a start makes of the settings                                      *)
SettingAfter(backend, settings, order) ==
  D!Seeded(IF backend = "sqlite" THEN D!Raised(D!CamelCased(settings, order)) ELSE D!CamelCased(settings, order))

LEMMA Settled ==
  ASSUME NEW db, Record(db), NEW backend, NEW order
  PROVE  LET d == D!Settle(db, backend, order)
         IN  /\ Record(d) /\ d.settings = SettingAfter(backend, db.settings, order)
             /\ d.new = [t \in D!Tables |-> IF t = "settings" THEN "filled" ELSE db.new[t]]
             /\ d.old = db.old /\ d.columns = db.columns /\ d.indexes = db.indexes
             /\ d.stamped = db.stamped /\ d.failed = db.failed
<1> DEFINE outcome == SettingAfter(backend, db.settings, order)
           is == [t \in D!Tables |-> IF t = "settings" THEN "filled" ELSE db.new[t]]
<1>1. D!Settle(db, backend, order) = [db EXCEPT !.settings = outcome, !.new = is]
  BY DEF D!Settle, SettingAfter
<1> HIDE DEF outcome, is
<1>2. PICK d : d = D!Settle(db, backend, order) OBVIOUS
<1>3. d = [f \in D!Fields |-> IF f = "new" THEN is ELSE IF f = "settings" THEN outcome ELSE db[f]]
  BY <1>1, <1>2 DEF Record
<1>4. /\ Record(d) /\ d.settings = outcome /\ d.new = is /\ d.old = db.old /\ d.columns = db.columns
      /\ d.indexes = db.indexes /\ d.stamped = db.stamped /\ d.failed = db.failed
  BY ONLY <1>3 DEF Record, D!Fields
<1> QED BY <1>2, <1>4 DEF outcome, is

(* What becomes of a table, whatever name it is found under                *)
Content(db, t) ==
  IF db.old[t] # "absent" THEN db.old[t] ELSE IF db.new[t] # "absent" THEN db.new[t] ELSE "empty"

(* A database that a start may find and that it does not refuse            *)
Sound(backend, db) == D!Found(backend, db) /\ ~D!Collides(db)

(* Until a start comes to its end, it leaves a database such as it finds,  *)
(* in which nothing is lost                                                *)
Keeps(backend, db, d) ==
  /\ Sound(backend, d) /\ \A t \in D!Tables : Content(d, t) = Content(db, t)
  /\ d.settings = db.settings
Moved(db, d) == \A t \in D!Tables : d.old[t] = "absent" /\ d.new[t] = Content(db, t)
LEMMA PreparedKeeps ==
  ASSUME NEW backend, NEW db, Sound(backend, db), NEW ts \in SUBSET D!Tables, NEW us \in SUBSET D!Tables,
         us = {} \/ ts = D!Tables, NEW cs \in SUBSET D!Columns
  PROVE  LET d == D!Prepared(db, ts, us, cs)
         IN  /\ Keeps(backend, db, d) /\ cs \subseteq d.columns
             /\ us = D!Tables => Moved(db, d)
<1>1. /\ Record(db) /\ db.old \in [D!Tables -> D!Contents] /\ db.new \in [D!Tables -> D!Contents]
      /\ \A t \in D!Tables : db.old[t] = "absent" \/ db.new[t] = "absent"
  BY DEF Sound, D!Found, D!Collides, Record
<1>2. PICK a : a = D!Rename(db, ts) OBVIOUS
<1>3. PICK b : b = D!Create(a, us) OBVIOUS
<1>4. PICK d : d = D!AddColumns(b, cs) OBVIOUS
<1>5. d = D!Prepared(db, ts, us, cs) BY <1>2, <1>3, <1>4 DEF D!Prepared
<1>6. /\ Record(a)
      /\ a.old = [t \in D!Tables |-> IF t \in ts /\ db.old[t] # "absent" THEN "absent" ELSE db.old[t]]
      /\ a.new = [t \in D!Tables |-> IF t \in ts /\ db.old[t] # "absent" THEN db.old[t] ELSE db.new[t]]
      /\ a.columns = db.columns /\ a.indexes = db.indexes /\ a.settings = db.settings
      /\ a.stamped = db.stamped /\ a.failed = db.failed
  BY ONLY <1>1, <1>2, Renamed
<1>7. /\ Record(b)
      /\ b.new = [t \in D!Tables |-> IF t \in us /\ a.new[t] = "absent" THEN "empty" ELSE a.new[t]]
      /\ b.columns = a.columns
           \union (IF "keys" \in us /\ a.new["keys"] = "absent" THEN D!Columns \ {"enabled"} ELSE {})
           \union (IF "users" \in us /\ a.new["users"] = "absent" THEN {"enabled"} ELSE {})
      /\ b.old = a.old /\ b.indexes = a.indexes /\ b.settings = a.settings
      /\ b.stamped = a.stamped /\ b.failed = a.failed
  BY ONLY <1>3, <1>6, Created
<1>8. /\ Record(d) /\ d.columns = b.columns \union cs
      /\ d.old = b.old /\ d.new = b.new /\ d.indexes = b.indexes /\ d.settings = b.settings
      /\ d.stamped = b.stamped /\ d.failed = b.failed
  BY ONLY <1>4, <1>7, Added
<1>9. ASSUME NEW t \in D!Tables
      PROVE  /\ d.old[t] = IF t \in ts THEN "absent" ELSE db.old[t]
             /\ d.new[t] = IF t \in us THEN Content(db, t)
                           ELSE IF t \in ts /\ db.old[t] # "absent" THEN db.old[t] ELSE db.new[t]
             /\ d.old[t] \in D!Contents /\ d.new[t] \in D!Contents
             /\ d.old[t] = "absent" \/ d.new[t] = "absent"
             /\ Content(d, t) = Content(db, t)
  <2>1. /\ db.old[t] \in D!Contents /\ db.new[t] \in D!Contents
        /\ db.old[t] = "absent" \/ db.new[t] = "absent"
        /\ t \in us => t \in ts
    BY <1>1
  <2>2. a.old[t] = IF t \in ts THEN "absent" ELSE db.old[t] BY <1>6
  <2>3. a.new[t] = IF t \in ts /\ db.old[t] # "absent" THEN db.old[t] ELSE db.new[t] BY <1>6
  <2>4. b.new[t] = IF t \in us /\ a.new[t] = "absent" THEN "empty" ELSE a.new[t] BY <1>7
  <2>5. d.old[t] = a.old[t] /\ d.new[t] = b.new[t] BY <1>7, <1>8
  <2> QED BY ONLY <2>1, <2>2, <2>3, <2>4, <2>5 DEF Content, D!Contents
<1>10. d.old \in [D!Tables -> D!Contents] /\ d.new \in [D!Tables -> D!Contents]
  <2>1. d.old = [t \in D!Tables |-> d.old[t]] /\ d.new = [t \in D!Tables |-> d.new[t]]
    BY ONLY <1>6, <1>7, <1>8
  <2> QED BY <1>9, <2>1
<1>11. /\ db.columns \subseteq d.columns /\ d.columns \subseteq D!Columns /\ cs \subseteq d.columns
       /\ "keys" \in us /\ a.new["keys"] = "absent" => "check_model" \in d.columns
  <2>1. db.columns \subseteq D!Columns /\ "enabled" \in D!Columns /\ "check_model" \in D!Columns \ {"enabled"}
    BY DEF Sound, D!Found, D!Columns
  <2>2. b.columns \subseteq D!Columns /\ db.columns \subseteq b.columns BY ONLY <1>6, <1>7, <2>1
  <2> QED BY ONLY <1>7, <1>8, <2>1, <2>2
<1>12. backend = "mysql" /\ D!Has(d, "keys") => "check_model" \in d.columns
  <2>1. "keys" \in D!Tables BY DEF D!Tables
  <2>2. backend = "mysql" /\ D!Has(db, "keys") => "check_model" \in d.columns
    BY <1>11 DEF Sound, D!Found
  <2>3. CASE ~D!Has(db, "keys") /\ D!Has(d, "keys")
    <3>1. db.old["keys"] = "absent" /\ db.new["keys"] = "absent" BY <2>3 DEF D!Has
    <3>2. d.old["keys"] = "absent" BY <1>9, <2>1, <3>1
    <3>3. d.new["keys"] # "absent" BY <2>3, <3>2 DEF D!Has
    <3>4. "keys" \in us BY <1>9, <2>1, <3>1, <3>3
    <3>5. a.new["keys"] = "absent" BY <1>6, <2>1, <3>1
    <3> QED BY <1>11, <3>4, <3>5
  <2> QED BY <2>2, <2>3
<1>13. /\ d.settings = db.settings /\ d.indexes = db.indexes /\ d.stamped = db.stamped /\ d.failed = db.failed
  BY <1>6, <1>7, <1>8
<1>14. D!Found(backend, d)
  BY <1>8, <1>10, <1>11, <1>12, <1>13 DEF Sound, D!Found, Record
<1>15. ~D!Collides(d) BY <1>9 DEF D!Collides
<1>16. us = D!Tables => \A t \in D!Tables : d.old[t] = "absent" /\ d.new[t] = Content(db, t)
  BY <1>9
<1> QED BY <1>5, <1>9, <1>11, <1>13, <1>14, <1>15, <1>16 DEF Sound, Keeps, Moved

(* The first so many of four                                               *)
LEMMA FirstFour ==
  ASSUME NEW S, NEW a \in S, NEW b \in S, NEW c \in S, NEW d \in S, NEW n \in Int
  PROVE  LET s == <<a, b, c, d>>
         IN  /\ D!First(s, n) \subseteq {a, b, c, d}
             /\ n <= 0 => D!First(s, n) = {}
             /\ n >= 4 => D!First(s, n) = {a, b, c, d}
<1> DEFINE s == <<a, b, c, d>>
<1>1. DOMAIN s = 1..4 /\ s[1] = a /\ s[2] = b /\ s[3] = c /\ s[4] = d OBVIOUS
<1> HIDE DEF s
<1>2. 1..4 = {1, 2, 3, 4} OBVIOUS
<1>3. D!First(s, n) = {s[i] : i \in {j \in {1, 2, 3, 4} : j <= n}} BY <1>1, <1>2 DEF D!First
<1>4. D!First(s, n) \subseteq {a, b, c, d} BY <1>1, <1>3
<1>5. n <= 0 => D!First(s, n) = {} BY <1>3
<1>6. n >= 4 => D!First(s, n) = {a, b, c, d} BY <1>1, <1>3
<1> QED BY <1>4, <1>5, <1>6 DEF s

(* ... of the lists that a start goes through                              *)
LEMMA Lists ==
  ASSUME NEW n \in Int
  PROVE  /\ D!First(D!Renames, n) \in SUBSET D!Tables
         /\ n <= 0 => D!First(D!Renames, n) = {}
         /\ n >= 4 => D!First(D!Renames, n) = D!Tables
         /\ D!First(D!AddedColumns("sqlite"), n) \in SUBSET D!Columns
         /\ n >= 4 => D!First(D!AddedColumns("sqlite"), n) = D!Columns \ {"enabled"}
         /\ D!First(D!AddedColumns("mysql"), n) \in SUBSET D!Columns
         /\ n >= 4 => D!First(D!AddedColumns("mysql"), n) = D!Columns \ {"check_model"}
<1>1. ASSUME NEW a, NEW b, NEW c, NEW d
      PROVE  /\ D!First(<<a, b, c, d>>, n) \subseteq {a, b, c, d}
             /\ n <= 0 => D!First(<<a, b, c, d>>, n) = {}
             /\ n >= 4 => D!First(<<a, b, c, d>>, n) = {a, b, c, d}
  <2> DEFINE S == {a, b, c, d}
  <2>1. a \in S /\ b \in S /\ c \in S /\ d \in S OBVIOUS
  <2> HIDE DEF S
  <2> QED BY <2>1, FirstFour
<1>2. D!Tables = {"keys", "settings", "users", "sessions"} BY DEF D!Tables
<1>3. D!Columns \ {"enabled"} = {"check_model", "next_check_at", "created_at", "next_strict_check_at"}
  BY DEF D!Columns
<1>4. D!Columns \ {"check_model"} = {"enabled", "next_check_at", "created_at", "next_strict_check_at"}
  BY DEF D!Columns
<1>5. D!AddedColumns("sqlite") = <<"check_model", "next_check_at", "created_at", "next_strict_check_at">>
  BY DEF D!AddedColumns
<1>6. D!AddedColumns("mysql") = <<"enabled", "next_check_at", "created_at", "next_strict_check_at">>
  BY DEF D!AddedColumns
<1>7. /\ D!First(D!Renames, n) \in SUBSET D!Tables
      /\ n <= 0 => D!First(D!Renames, n) = {}
      /\ n >= 4 => D!First(D!Renames, n) = D!Tables
  BY <1>1, <1>2 DEF D!Renames
<1>8. /\ D!First(D!AddedColumns("sqlite"), n) \in SUBSET D!Columns
      /\ n >= 4 => D!First(D!AddedColumns("sqlite"), n) = D!Columns \ {"enabled"}
  <2> DEFINE cs == D!First(D!AddedColumns("sqlite"), n)
  <2>1. /\ cs \subseteq {"check_model", "next_check_at", "created_at", "next_strict_check_at"}
        /\ n >= 4 => cs = {"check_model", "next_check_at", "created_at", "next_strict_check_at"}
    BY <1>1, <1>5
  <2> HIDE DEF cs
  <2>2. cs \subseteq D!Columns \ {"enabled"} /\ (n >= 4 => cs = D!Columns \ {"enabled"}) BY ONLY <1>3, <2>1
  <2> QED BY <2>2 DEF cs
<1>9. /\ D!First(D!AddedColumns("mysql"), n) \in SUBSET D!Columns
      /\ n >= 4 => D!First(D!AddedColumns("mysql"), n) = D!Columns \ {"check_model"}
  <2> DEFINE cs == D!First(D!AddedColumns("mysql"), n)
  <2>1. /\ cs \subseteq {"enabled", "next_check_at", "created_at", "next_strict_check_at"}
        /\ n >= 4 => cs = {"enabled", "next_check_at", "created_at", "next_strict_check_at"}
    BY <1>1, <1>6
  <2> HIDE DEF cs
  <2>2. cs \subseteq D!Columns \ {"check_model"} /\ (n >= 4 => cs = D!Columns \ {"check_model"}) BY ONLY <1>4, <2>1
  <2> QED BY <2>2 DEF cs
<1> QED BY <1>7, <1>8, <1>9

(* The settings: one row, under the camelCase name, with the value that    *)
(* was there, the one under that name before any other; again, the same    *)
Was(settings) == IF D!CamelCase \in DOMAIN settings THEN {settings[D!CamelCase]} ELSE Range(settings)
OneRow(settings) ==
  DOMAIN settings = {D!CamelCase} /\ settings = [k \in {D!CamelCase} |-> settings[D!CamelCase]]
Becomes(backend, was) ==
  IF was = {} THEN {"45"} ELSE {IF backend = "sqlite" /\ v = "15" THEN "45" ELSE v : v \in was}
LEMMA SettingIs ==
  ASSUME NEW settings, DOMAIN settings \subseteq D!Spellings, NEW order \in Orders, NEW backend
  PROVE  LET o == SettingAfter(backend, settings, order)
         IN  /\ OneRow(o) /\ o[D!CamelCase] \in Becomes(backend, Was(settings))
             /\ backend = "sqlite" => o[D!CamelCase] # "15"
<1> DEFINE names == DOMAIN settings
           camel == D!CamelCased(settings, order)
           taken == D!Taken(settings, order)
<1>1. PICK o : o = SettingAfter(backend, settings, order) OBVIOUS
<1>2. OneRow(o) /\ o[D!CamelCase] \in Becomes(backend, Was(settings))
      /\ (backend = "sqlite" => o[D!CamelCase] # "15")
  <2>1. CASE names = {}
    <3>1. camel = settings BY <2>1 DEF D!CamelCased
    <3>2. DOMAIN (IF backend = "sqlite" THEN D!Raised(camel) ELSE camel) = {} BY <2>1, <3>1 DEF D!Raised
    <3>3. o = D!Default BY <1>1, <3>2 DEF SettingAfter, D!Seeded
    <3>4. D!Default = [k \in {D!CamelCase} |-> "45"] BY DEF D!Default, D!CamelCase
    <3>5. Was(settings) = {} BY <2>1 DEF Was, Range
    <3>6. o = [k \in {D!CamelCase} |-> "45"] BY <3>3, <3>4
    <3> QED BY ONLY <3>5, <3>6 DEF OneRow, Becomes
  <2>2. CASE names # {}
    <3>1. taken \in names /\ (D!CamelCase \in names => taken = D!CamelCase)
      <4>1. CASE D!CamelCase \in names BY <4>1 DEF D!Taken
      <4>2. CASE D!CamelCase \notin names
        <5> DEFINE Met(i) == /\ i \in DOMAIN order /\ order[i] \in names
                             /\ \A j \in 1..(i - 1) : order[j] \notin names
        <5>1. DOMAIN order = 1..3 /\ D!Spellings \subseteq {order[1], order[2], order[3]}
          <6>1. /\ DOMAIN order = 1..3 /\ \A i \in 1..3 : order[i] \in D!Spellings
                /\ order[1] # order[2] /\ order[1] # order[3] /\ order[2] # order[3]
            BY DEF Orders
          <6> QED BY <6>1 DEF D!Spellings
        <5>2. order[1] \in names \/ order[2] \in names \/ order[3] \in names BY <2>2, <5>1
        <5>3. \E i \in 1..3 : Met(i)
          <6>1. CASE order[1] \in names
            <7>1. Met(1) BY <5>1, <6>1
            <7> QED BY <7>1
          <6>2. CASE order[1] \notin names /\ order[2] \in names
            <7>1. Met(2) BY <5>1, <6>2
            <7> QED BY <7>1
          <6>3. CASE order[1] \notin names /\ order[2] \notin names
            <7>1. Met(3) BY <5>1, <5>2, <6>3
            <7> QED BY <7>1
          <6> QED BY <6>1, <6>2, <6>3
        <5>4. PICK i : i = CHOOSE j \in DOMAIN order : Met(j) OBVIOUS
        <5>5. Met(i) BY <5>1, <5>3, <5>4
        <5>6. taken = order[i] BY <4>2, <5>4 DEF D!Taken, D!FirstMet
        <5> QED BY <4>2, <5>5, <5>6
      <4> QED BY <4>1, <4>2
    <3>2. camel = [k \in {D!CamelCase} |-> settings[taken]] BY <2>2 DEF D!CamelCased
    <3>3. PICK v : v = settings[taken] OBVIOUS
    <3>4. v \in Was(settings) BY <3>1, <3>3 DEF Was, Range
    <3> HIDE DEF camel, taken
    <3>5. (IF backend = "sqlite" THEN D!Raised(camel) ELSE camel)
            = [k \in {D!CamelCase} |-> IF backend = "sqlite" /\ v = "15" THEN "45" ELSE v]
      BY <3>2, <3>3 DEF D!Raised
    <3>6. o = [k \in {D!CamelCase} |-> IF backend = "sqlite" /\ v = "15" THEN "45" ELSE v]
      BY <1>1, <3>5 DEF SettingAfter, D!Seeded, camel
    <3> QED BY <3>4, <3>6 DEF OneRow, Becomes
  <2> QED BY <2>1, <2>2
<1> QED BY <1>1, <1>2

(* ... and again, the same                                                 *)
LEMMA SettingStays ==
  ASSUME NEW settings, DOMAIN settings \subseteq D!Spellings, NEW order \in Orders, NEW backend
  PROVE  LET o == SettingAfter(backend, settings, order) IN SettingAfter(backend, o, order) = o
<1>1. PICK o : o = SettingAfter(backend, settings, order) OBVIOUS
<1>2. OneRow(o) /\ (backend = "sqlite" => o[D!CamelCase] # "15") BY <1>1, SettingIs
<1>3. /\ DOMAIN o = {D!CamelCase} /\ o = [k \in {D!CamelCase} |-> o[D!CamelCase]]
      /\ backend = "sqlite" => o[D!CamelCase] # "15"
  BY <1>2 DEF OneRow
<1>4. D!Taken(o, order) = D!CamelCase BY <1>3 DEF D!Taken
<1>5. D!CamelCased(o, order) = o BY <1>3, <1>4 DEF D!CamelCased
<1>6. backend = "sqlite" => D!Raised(o) = o BY <1>3 DEF D!Raised
<1>7. SettingAfter(backend, o, order) = o BY <1>3, <1>5, <1>6 DEF SettingAfter, D!Seeded
<1> QED BY <1>1, <1>7

(* What every start ends with                                              *)
Finished(backend, db, order, e) ==
  /\ Record(e) /\ e.old = [t \in D!Tables |-> "absent"]
  /\ e.new = [t \in D!Tables |-> IF t = "settings" THEN "filled" ELSE Content(db, t)]
  /\ e.columns = D!Columns /\ e.indexes = {"next_check_at", "next_strict_check_at"}
  /\ e.settings = SettingAfter(backend, db.settings, order) /\ e.stamped = TRUE /\ e.failed = FALSE

(* The tables of a database that is prepared to the end, and its columns   *)
Whole(backend, db, d) ==
  /\ Record(d) /\ d.old = [t \in D!Tables |-> "absent"]
  /\ d.new = [t \in D!Tables |-> Content(db, t)]
  /\ d.columns \union {"enabled"} = D!Columns
  /\ backend = "mysql" => d.columns = D!Columns
  /\ d.settings = db.settings /\ d.failed = FALSE
  /\ d.indexes \subseteq {"next_check_at", "next_strict_check_at"}
LEMMA PreparedWhole ==
  ASSUME NEW backend \in D!Backends, NEW db, Sound(backend, db),
         NEW cs \in SUBSET D!Columns, D!Columns \ {IF backend = "sqlite" THEN "enabled" ELSE "check_model"} \subseteq cs
  PROVE  Whole(backend, db, D!Prepared(db, D!Tables, D!Tables, cs))
<1>1. PICK d : d = D!Prepared(db, D!Tables, D!Tables, cs) OBVIOUS
<1>2. /\ Sound(backend, d) /\ d.settings = db.settings /\ cs \subseteq d.columns
      /\ \A t \in D!Tables : d.old[t] = "absent" /\ d.new[t] = Content(db, t)
  <2>1. Keeps(backend, db, d) /\ cs \subseteq d.columns
    BY <1>1, PreparedKeeps
  <2>2. Moved(db, d) BY <1>1, PreparedKeeps
  <2> QED BY <2>1, <2>2 DEF Keeps, Moved
<1>3. /\ Record(d) /\ d.old \in [D!Tables -> D!Contents] /\ d.new \in [D!Tables -> D!Contents]
      /\ d.columns \subseteq D!Columns /\ (backend = "mysql" /\ D!Has(d, "keys") => "check_model" \in d.columns)
      /\ d.failed = FALSE /\ d.indexes \subseteq {"next_check_at", "next_strict_check_at"}
  BY <1>2 DEF Sound, D!Found, Record
<1>4. d.old = [t \in D!Tables |-> "absent"] BY <1>2, <1>3
<1>5. d.new = [t \in D!Tables |-> Content(db, t)] BY <1>2, <1>3
<1>6. "keys" \in D!Tables BY DEF D!Tables
<1>7. Content(db, "keys") # "absent" BY DEF Content
<1>8. D!Has(d, "keys") BY <1>2, <1>6, <1>7 DEF D!Has
<1>9. backend = "mysql" => "check_model" \in d.columns BY <1>3, <1>8
<1>10. backend = "mysql" => d.columns = D!Columns BY <1>2, <1>3, <1>9
<1>11. "enabled" \in D!Columns BY DEF D!Columns
<1>12. d.columns \union {"enabled"} = D!Columns
  <2>1. CASE backend = "sqlite" BY <1>2, <1>3, <1>11, <2>1
  <2>2. CASE backend = "mysql" BY <1>10, <1>11, <2>2
  <2> QED BY <2>1, <2>2 DEF D!Backends
<1> QED BY <1>1, <1>2, <1>3, <1>4, <1>5, <1>10, <1>12 DEF Whole

(* The end of a start, of either backend                                   *)
LEMMA SqliteEnds ==
  ASSUME NEW db, Sound("sqlite", db), NEW order \in Orders
  PROVE  Finished("sqlite", db, order, D!OnSqlite(db, order, 13))
<1>1. /\ D!First(D!Renames, 13) = D!Tables /\ D!First(D!Renames, 13 - 4) = D!Tables
      /\ D!First(D!AddedColumns("sqlite"), 13 - 8) = D!Columns \ {"enabled"}
  BY Lists
<1>2. PICK d : d = D!Prepared(db, D!Tables, D!Tables, D!Columns \ {"enabled"}) OBVIOUS
<1>3. D!OnSqlite(db, order, 13) = D!Finish(d, order) BY <1>1, <1>2 DEF D!OnSqlite
<1>4. /\ Record(d) /\ d.old = [t \in D!Tables |-> "absent"]
      /\ d.new = [t \in D!Tables |-> Content(db, t)]
      /\ d.columns \union {"enabled"} = D!Columns
      /\ d.settings = db.settings /\ d.failed = FALSE /\ d.indexes \subseteq {"next_check_at", "next_strict_check_at"}
  <2>1. "sqlite" \in D!Backends /\ D!Columns \ {"enabled"} \in SUBSET D!Columns
    BY DEF D!Backends
  <2>2. Whole("sqlite", db, d) BY <1>2, <2>1, PreparedWhole
  <2> QED BY <2>2 DEF Whole
<1>5. PICK s : s = D!Stamp(d) OBVIOUS
<1>6. /\ Record(s) /\ s.stamped = TRUE /\ s.old = d.old /\ s.new = d.new /\ s.columns = d.columns
      /\ s.indexes = d.indexes /\ s.settings = d.settings /\ s.failed = d.failed
  BY ONLY <1>4, <1>5, Stamped
<1>7. PICK t : t = D!Settle(s, "sqlite", order) OBVIOUS
<1>8. /\ Record(t) /\ t.settings = SettingAfter("sqlite", s.settings, order)
      /\ t.new = [u \in D!Tables |-> IF u = "settings" THEN "filled" ELSE s.new[u]]
      /\ t.old = s.old /\ t.columns = s.columns /\ t.indexes = s.indexes
      /\ t.stamped = s.stamped /\ t.failed = s.failed
  BY ONLY <1>6, <1>7, Settled
<1>9. PICK a : a = D!AddColumns(t, {"enabled"}) OBVIOUS
<1>10. /\ Record(a) /\ a.columns = t.columns \union {"enabled"}
       /\ a.old = t.old /\ a.new = t.new /\ a.indexes = t.indexes /\ a.settings = t.settings
       /\ a.stamped = t.stamped /\ a.failed = t.failed
  BY ONLY <1>8, <1>9, Added
<1>11. a.columns = D!Columns /\ "next_check_at" \in D!Columns /\ "next_strict_check_at" \in D!Columns
  BY <1>4, <1>6, <1>8, <1>10 DEF D!Columns
<1>12. PICK i : i = D!Index(a, "next_check_at") OBVIOUS
<1>13. /\ Record(i) /\ i.indexes = a.indexes \union {"next_check_at"}
       /\ i.old = a.old /\ i.new = a.new /\ i.columns = a.columns /\ i.settings = a.settings
       /\ i.stamped = a.stamped /\ i.failed = a.failed
  BY ONLY <1>10, <1>11, <1>12, Indexed
<1>14. PICK e : e = D!Index(i, "next_strict_check_at") OBVIOUS
<1>15. /\ Record(e) /\ e.indexes = i.indexes \union {"next_strict_check_at"}
       /\ e.old = i.old /\ e.new = i.new /\ e.columns = i.columns /\ e.settings = i.settings
       /\ e.stamped = i.stamped /\ e.failed = i.failed
  <2>1. "next_strict_check_at" \in i.columns BY <1>10, <1>11, <1>13
  <2> QED BY ONLY <1>13, <1>14, <2>1, Indexed
<1>16. D!Finish(d, order) = e BY <1>5, <1>7, <1>9, <1>12, <1>14 DEF D!Finish
<1>17. e.new = [u \in D!Tables |-> IF u = "settings" THEN "filled" ELSE Content(db, u)]
  BY ONLY <1>4, <1>6, <1>8, <1>10, <1>13, <1>15
<1>18. e.indexes = {"next_check_at", "next_strict_check_at"}
  BY ONLY <1>4, <1>6, <1>8, <1>10, <1>13, <1>15
<1>19. /\ Record(e) /\ e.old = [u \in D!Tables |-> "absent"] /\ e.columns = D!Columns
       /\ e.settings = SettingAfter("sqlite", db.settings, order) /\ e.stamped = TRUE /\ e.failed = FALSE
  BY ONLY <1>4, <1>6, <1>8, <1>10, <1>11, <1>13, <1>15
<1> QED BY <1>3, <1>16, <1>17, <1>18, <1>19 DEF Finished

(* A step that leaves tables, columns and settings alone keeps them        *)
LEMMA KeepsOn ==
  ASSUME NEW backend, NEW db, NEW w, Keeps(backend, db, w), NEW d, Record(d),
         d.old = w.old, d.new = w.new, d.columns = w.columns, d.settings = w.settings,
         d.failed = w.failed, d.stamped \in BOOLEAN,
         d.indexes \subseteq {"next_check_at", "next_strict_check_at"}
  PROVE  Keeps(backend, db, d)
<1>1. Sound(backend, w) /\ w.settings = db.settings /\ \A t \in D!Tables : Content(w, t) = Content(db, t)
  BY DEF Keeps
<1>2. D!Found(backend, d) BY <1>1 DEF Sound, D!Found, D!Has, Record
<1>3. ~D!Collides(d) BY <1>1 DEF Sound, D!Collides
<1>4. \A t \in D!Tables : Content(d, t) = Content(db, t) BY <1>1 DEF Content
<1> QED BY <1>1, <1>2, <1>3, <1>4 DEF Keeps, Sound

LEMMA MysqlLate ==
  ASSUME NEW db, Sound("mysql", db), NEW order \in Orders
  PROVE  /\ Keeps("mysql", db, D!OnMysql(db, order, 10)) /\ Keeps("mysql", db, D!OnMysql(db, order, 11))
         /\ Finished("mysql", db, order, D!OnMysql(db, order, 12))
<1> DEFINE cs == D!Columns \ {"check_model"}
<1>1. ASSUME NEW n \in {10, 11, 12}
      PROVE  /\ n >= 1 /\ D!First(D!Renames, n - 1) = D!Tables
             /\ D!First(D!AddedColumns("mysql"), n - 5) = cs
  BY Lists
<1>2. PICK d : d = D!Prepared(db, D!Tables, D!Tables, cs) OBVIOUS
<1>3. PICK i : i = D!Index(d, "next_strict_check_at") OBVIOUS
<1>4. PICK s : s = D!Stamp(i) OBVIOUS
<1>5. PICK j : j = D!Index(s, "next_check_at") OBVIOUS
<1>6. PICK e : e = D!Settle(j, "mysql", order) OBVIOUS
<1>7. D!OnMysql(db, order, 10) = i BY <1>1, <1>2, <1>3 DEF D!OnMysql
<1>8. D!OnMysql(db, order, 11) = j BY <1>1, <1>2, <1>3, <1>4, <1>5 DEF D!OnMysql
<1>9. D!OnMysql(db, order, 12) = e BY <1>1, <1>2, <1>3, <1>4, <1>5, <1>6 DEF D!OnMysql
<1>10. Keeps("mysql", db, d) /\ Whole("mysql", db, d)
  <2>1. "mysql" \in D!Backends /\ cs \in SUBSET D!Columns BY DEF D!Backends
  <2>2. D!Tables \in SUBSET D!Tables OBVIOUS
  <2>3. Whole("mysql", db, d) BY <1>2, <2>1, PreparedWhole
  <2>4. Keeps("mysql", db, d) BY <1>2, <2>1, <2>2, PreparedKeeps
  <2> QED BY <2>3, <2>4
<1>11. /\ Record(d) /\ d.old = [t \in D!Tables |-> "absent"] /\ d.new = [t \in D!Tables |-> Content(db, t)]
       /\ d.columns = D!Columns /\ d.settings = db.settings /\ d.failed = FALSE
       /\ d.indexes \subseteq {"next_check_at", "next_strict_check_at"} /\ d.stamped \in BOOLEAN
  BY <1>10 DEF Whole, Keeps, Sound, D!Found
<1>12. "next_strict_check_at" \in d.columns /\ "next_check_at" \in d.columns BY <1>11 DEF D!Columns
<1>13. /\ Record(i) /\ i.indexes = d.indexes \union {"next_strict_check_at"}
       /\ i.old = d.old /\ i.new = d.new /\ i.columns = d.columns /\ i.settings = d.settings
       /\ i.stamped = d.stamped /\ i.failed = d.failed
  BY ONLY <1>3, <1>11, <1>12, Indexed
<1>14. /\ Record(s) /\ s.stamped = TRUE
       /\ s.old = i.old /\ s.new = i.new /\ s.columns = i.columns /\ s.indexes = i.indexes
       /\ s.settings = i.settings /\ s.failed = i.failed
  BY ONLY <1>4, <1>13, Stamped
<1>15. "next_check_at" \in s.columns BY <1>12, <1>13, <1>14
<1>16. /\ Record(j) /\ j.indexes = s.indexes \union {"next_check_at"}
       /\ j.old = s.old /\ j.new = s.new /\ j.columns = s.columns /\ j.settings = s.settings
       /\ j.stamped = s.stamped /\ j.failed = s.failed
  BY ONLY <1>5, <1>14, <1>15, Indexed
<1>17. /\ Record(e) /\ e.settings = SettingAfter("mysql", j.settings, order)
       /\ e.new = [t \in D!Tables |-> IF t = "settings" THEN "filled" ELSE j.new[t]]
       /\ e.old = j.old /\ e.columns = j.columns /\ e.indexes = j.indexes
       /\ e.stamped = j.stamped /\ e.failed = j.failed
  BY ONLY <1>6, <1>16, Settled
<1>18. Keeps("mysql", db, i) BY ONLY <1>10, <1>11, <1>13, KeepsOn
<1>19. Keeps("mysql", db, j)
  <2>1. /\ j.old = i.old /\ j.new = i.new /\ j.columns = i.columns /\ j.settings = i.settings
        /\ j.failed = i.failed /\ j.stamped \in BOOLEAN
        /\ j.indexes \subseteq {"next_check_at", "next_strict_check_at"}
    BY ONLY <1>11, <1>13, <1>14, <1>16
  <2> QED BY ONLY <1>16, <1>18, <2>1, KeepsOn
<1>20. e.new = [t \in D!Tables |-> IF t = "settings" THEN "filled" ELSE Content(db, t)]
  BY ONLY <1>11, <1>13, <1>14, <1>16, <1>17
<1>21. e.indexes = {"next_check_at", "next_strict_check_at"} BY ONLY <1>11, <1>13, <1>14, <1>16, <1>17
<1>22. /\ e.old = [t \in D!Tables |-> "absent"] /\ e.columns = D!Columns
       /\ e.settings = SettingAfter("mysql", db.settings, order) /\ e.stamped = TRUE /\ e.failed = FALSE
  BY ONLY <1>11, <1>13, <1>14, <1>16, <1>17
<1>23. Finished("mysql", db, order, e) BY <1>17, <1>20, <1>21, <1>22 DEF Finished
<1> QED BY <1>7, <1>8, <1>9, <1>18, <1>19, <1>23

(* What the next start makes of a database depends on these alone          *)
Same(backend, db, order, d) ==
  /\ Sound(backend, d) /\ \A t \in D!Tables \ {"settings"} : Content(d, t) = Content(db, t)
  /\ SettingAfter(backend, d.settings, order) = SettingAfter(backend, db.settings, order)

LEMMA FinishedIsSame ==
  ASSUME NEW backend, NEW db, Sound(backend, db), NEW order \in Orders, NEW e, Finished(backend, db, order, e)
  PROVE  Same(backend, db, order, e)
<1>1. DOMAIN db.settings \subseteq D!Spellings BY DEF Sound, D!Found
<1>2. SettingAfter(backend, e.settings, order) = SettingAfter(backend, db.settings, order)
  BY <1>1, SettingStays DEF Finished
<1>3. OneRow(e.settings) BY <1>1, SettingIs DEF Finished
<1>4. DOMAIN e.settings \subseteq D!Spellings /\ e.settings = [k \in DOMAIN e.settings |-> e.settings[k]]
  BY <1>3 DEF OneRow, D!Spellings, D!CamelCase
<1>5. \A t \in D!Tables : Content(db, t) \in D!Contents /\ Content(db, t) # "absent"
  BY DEF Sound, D!Found, Content, D!Contents
<1>6. /\ e.old \in [D!Tables -> D!Contents] /\ e.new \in [D!Tables -> D!Contents]
      /\ \A t \in D!Tables : e.old[t] = "absent"
      /\ \A t \in D!Tables \ {"settings"} : e.new[t] = Content(db, t)
  BY <1>5 DEF Finished, D!Contents
<1>7. D!Found(backend, e)
  BY <1>4, <1>6 DEF Finished, D!Found, Record, D!Columns
<1>8. ~D!Collides(e) BY <1>6 DEF D!Collides
<1>9. \A t \in D!Tables \ {"settings"} : Content(e, t) = Content(db, t) BY <1>5, <1>6 DEF Content
<1> QED BY <1>2, <1>7, <1>8, <1>9 DEF Same, Sound

LEMMA KeepsIsSame ==
  ASSUME NEW backend, NEW db, NEW order, NEW d, Keeps(backend, db, d)
  PROVE  Same(backend, db, order, d)
BY DEF Keeps, Same

LEMMA SameEnds ==
  ASSUME NEW backend, NEW db, NEW order, NEW d, Same(backend, db, order, d),
         NEW e, Finished(backend, d, order, e), NEW f, Finished(backend, db, order, f)
  PROVE  e = f
<1>1. e.new = f.new BY DEF Same, Finished
<1>2. Record(e) /\ Record(f) BY DEF Finished
<1>3. /\ e.old = f.old /\ e.columns = f.columns /\ e.indexes = f.indexes
      /\ e.settings = f.settings /\ e.stamped = f.stamped /\ e.failed = f.failed
  BY DEF Same, Finished
<1> QED BY ONLY <1>1, <1>2, <1>3, SameRecord

(* A start that goes on to the end                                         *)
LEMMA StartEnds ==
  ASSUME NEW backend \in D!Backends, NEW db, Sound(backend, db), NEW order \in Orders
  PROVE  Finished(backend, db, order, D!Started(backend, db, order))
<1>1. CASE backend = "sqlite"
  <2>1. D!Started(backend, db, order) = D!OnSqlite(db, order, 13)
    BY <1>1 DEF Sound, D!Started, D!Died, D!Steps
  <2> QED BY <1>1, <2>1, SqliteEnds
<1>2. CASE backend = "mysql"
  <2>1. D!Started(backend, db, order) = D!OnMysql(db, order, 12)
    BY <1>2 DEF Sound, D!Started, D!Died, D!Steps
  <2> QED BY <1>2, <2>1, MysqlLate
<1> QED BY <1>1, <1>2 DEF D!Backends

(* A start that dies, wherever it does                                     *)
LEMMA DiedIsSame ==
  ASSUME NEW backend \in D!Backends, NEW db, Sound(backend, db), NEW order \in Orders,
         NEW n \in 0..D!Steps(backend)
  PROVE  Same(backend, db, order, D!Died(backend, db, order, n))
<1>1. CASE backend = "sqlite"
  <2>1. n \in 0..13 /\ D!Died(backend, db, order, n) = D!OnSqlite(db, order, n)
    BY <1>1 DEF Sound, D!Died, D!Steps
  <2>2. CASE n < 13
    <3> DEFINE ts == D!First(D!Renames, n)
               us == D!First(D!Renames, n - 4)
               cs == D!First(D!AddedColumns("sqlite"), n - 8)
    <3>1. /\ ts \in SUBSET D!Tables /\ us \in SUBSET D!Tables /\ cs \in SUBSET D!Columns
          /\ us = {} \/ ts = D!Tables
      BY <2>1, Lists
    <3>2. D!OnSqlite(db, order, n) = D!Prepared(db, ts, us, cs) BY <2>2 DEF D!OnSqlite
    <3> HIDE DEF ts, us, cs
    <3>3. Keeps(backend, db, D!Prepared(db, ts, us, cs)) BY <3>1, PreparedKeeps
    <3> QED BY <2>1, <3>2, <3>3, KeepsIsSame
  <2>3. CASE n = 13
    <3>1. Finished(backend, db, order, D!OnSqlite(db, order, n)) BY <1>1, <2>3, SqliteEnds
    <3> QED BY <2>1, <3>1, FinishedIsSame
  <2> QED BY <2>1, <2>2, <2>3
<1>2. CASE backend = "mysql"
  <2>1. n \in 0..12 /\ D!Died(backend, db, order, n) = D!OnMysql(db, order, n)
    BY <1>2 DEF Sound, D!Died, D!Steps
  <2>2. CASE n < 10
    <3> DEFINE ts == IF n >= 1 THEN D!Tables ELSE {}
               us == D!First(D!Renames, n - 1)
               cs == D!First(D!AddedColumns("mysql"), n - 5)
    <3>1. /\ ts \in SUBSET D!Tables /\ us \in SUBSET D!Tables /\ cs \in SUBSET D!Columns
          /\ us = {} \/ ts = D!Tables
      BY <2>1, Lists
    <3>2. D!OnMysql(db, order, n) = D!Prepared(db, ts, us, cs) BY <2>2 DEF D!OnMysql
    <3> HIDE DEF ts, us, cs
    <3>3. Keeps(backend, db, D!Prepared(db, ts, us, cs)) BY <3>1, PreparedKeeps
    <3> QED BY <2>1, <3>2, <3>3, KeepsIsSame
  <2>3. CASE n \in {10, 11}
    <3>1. Keeps(backend, db, D!OnMysql(db, order, n)) BY <1>2, <2>3, MysqlLate
    <3> QED BY <2>1, <3>1, KeepsIsSame
  <2>4. CASE n = 12
    <3>1. Finished(backend, db, order, D!OnMysql(db, order, n)) BY <1>2, <2>4, MysqlLate
    <3> QED BY <2>1, <3>1, FinishedIsSame
  <2> QED BY <2>1, <2>2, <2>3, <2>4
<1> QED BY <1>1, <1>2 DEF D!Backends

(* A start that died at any point is made good by the next one, from any   *)
(* database that is found, and a further start changes nothing (init_db)   *)
THEOREM Resumes == CoreSpec => []MigrationResumes
<1> SUFFICES ASSUME Given, Input("start") PROVE MigrationResumes
  BY GivenAlways, PTL DEF MigrationResumes
<1> DEFINE backend == input.of[1]
           db == input.of[2]
<1>1. backend \in D!Backends /\ D!Found(backend, db) BY InputKinds, StartsAssumption
<1> HIDE DEF backend, db
<1>2. ASSUME NEW order \in Orders, NEW n \in 0..D!Steps(backend)
      PROVE  /\ D!Started(backend, D!Died(backend, db, order, n), order) = D!Started(backend, db, order)
             /\ D!Started(backend, D!Started(backend, db, order), order) = D!Started(backend, db, order)
  <2>1. CASE D!Collides(db) BY <2>1 DEF D!Started, D!Died
  <2>2. CASE ~D!Collides(db)
    <3>1. Sound(backend, db) BY <1>1, <2>2 DEF Sound
    <3>2. ASSUME NEW m \in 0..D!Steps(backend)
          PROVE  D!Started(backend, D!Died(backend, db, order, m), order) = D!Started(backend, db, order)
      <4>1. PICK d : d = D!Died(backend, db, order, m) OBVIOUS
      <4>2. PICK e : e = D!Started(backend, d, order) OBVIOUS
      <4>3. PICK f : f = D!Started(backend, db, order) OBVIOUS
      <4>4. Same(backend, db, order, d) BY <1>1, <1>2, <3>1, <4>1, DiedIsSame
      <4>5. Finished(backend, d, order, e) BY <1>1, <1>2, <4>2, <4>4, StartEnds DEF Same
      <4>6. Finished(backend, db, order, f) BY <1>1, <1>2, <3>1, <4>3, StartEnds
      <4>7. e = f BY <4>4, <4>5, <4>6, SameEnds
      <4> QED BY <4>1, <4>2, <4>3, <4>7
    <3>3. D!Steps(backend) \in 0..D!Steps(backend) BY DEF D!Steps
    <3>4. D!Started(backend, db, order) = D!Died(backend, db, order, D!Steps(backend)) BY DEF D!Started
    <3> QED BY <3>2, <3>3, <3>4
  <2> QED BY <2>1, <2>2
<1> QED BY <1>2 DEF MigrationResumes, backend, db

(* A start keeps what it finds, whatever release and whatever dead start   *)
(* it is from, and a start that is refused changes nothing (init_db)       *)
THEOREM Keeping == CoreSpec => []MigrationKeeps
<1> SUFFICES ASSUME Given, Input("start") PROVE MigrationKeeps
  BY GivenAlways, PTL DEF MigrationKeeps
<1> DEFINE backend == input.of[1]
           db == input.of[2]
           key == "requestTimeoutSec"
           was == IF key \in DOMAIN db.settings THEN {db.settings[key]} ELSE Range(db.settings)
<1>1. backend \in D!Backends /\ D!Found(backend, db) BY InputKinds, StartsAssumption
<1>2. key = D!CamelCase /\ was = Was(db.settings) BY DEF D!CamelCase, Was
<1> HIDE DEF backend, db, key, was
<1> DEFINE AsKept(e) ==
             /\ e.failed = FALSE /\ e.stamped = TRUE /\ e.columns = D!Columns
             /\ e.indexes = {"next_check_at", "next_strict_check_at"}
             /\ \A t \in D!Tables : /\ e.old[t] = "absent" /\ e.new[t] # "absent"
                                    /\ "filled" \in {db.old[t], db.new[t]} => e.new[t] = "filled"
             /\ DOMAIN e.settings = {key}
             /\ e.settings[key] \in Becomes(backend, was)
<1>3. ASSUME NEW order \in Orders, D!Collides(db) PROVE D!Started(backend, db, order) = db
  BY <1>3 DEF D!Started, D!Died
<1>4. ASSUME NEW order \in Orders, ~D!Collides(db), NEW e, e = D!Started(backend, db, order)
      PROVE  AsKept(e)
  <2>1. Sound(backend, db) BY <1>1, <1>4 DEF Sound
  <2>2. Finished(backend, db, order, e) BY <1>1, <1>4, <2>1, StartEnds
  <2>3. DOMAIN db.settings \subseteq D!Spellings BY <1>1 DEF D!Found
  <2>4. PICK o : o = e.settings OBVIOUS
  <2>5. o = SettingAfter(backend, db.settings, order) BY <2>2, <2>4 DEF Finished
  <2>6. OneRow(o) /\ o[D!CamelCase] \in Becomes(backend, Was(db.settings)) BY <1>4, <2>3, <2>5, SettingIs
  <2>7. DOMAIN o = {key} /\ o[key] \in Becomes(backend, was) BY <1>2, <2>6 DEF OneRow
  <2>8. ASSUME NEW t \in D!Tables
        PROVE  /\ e.old[t] = "absent" /\ e.new[t] # "absent"
               /\ "filled" \in {db.old[t], db.new[t]} => e.new[t] = "filled"
    <3>1. e.old[t] = "absent" /\ e.new[t] = IF t = "settings" THEN "filled" ELSE Content(db, t)
      BY <2>2 DEF Finished
    <3>2. db.old[t] = "absent" \/ db.new[t] = "absent" BY <1>4 DEF D!Collides
    <3> QED BY <3>1, <3>2 DEF Content
  <2>9. /\ e.failed = FALSE /\ e.stamped = TRUE /\ e.columns = D!Columns
        /\ e.indexes = {"next_check_at", "next_strict_check_at"}
    BY <2>2 DEF Finished
  <2> QED BY <2>4, <2>7, <2>8, <2>9
<1> HIDE DEF AsKept
<1>5. \A order \in Orders :
        LET e == D!Started(backend, db, order)
        IN  IF \E t \in D!Tables : db.old[t] # "absent" /\ db.new[t] # "absent" THEN e = db
            ELSE /\ ~e.failed /\ e.stamped
                 /\ e.columns = D!Columns
                 /\ e.indexes = {"next_check_at", "next_strict_check_at"}
                 /\ \A t \in D!Tables : /\ e.old[t] = "absent" /\ e.new[t] # "absent"
                                        /\ "filled" \in {db.old[t], db.new[t]} => e.new[t] = "filled"
                 /\ DOMAIN e.settings = {key}
                 /\ e.settings[key] \in IF was = {} THEN {"45"}
                                        ELSE {IF backend = "sqlite" /\ v = "15" THEN "45" ELSE v : v \in was}
  <2> TAKE order \in Orders
  <2>1. CASE D!Collides(db) BY <1>3, <2>1 DEF D!Collides
  <2>2. CASE ~D!Collides(db)
    <3>1. PICK e : e = D!Started(backend, db, order) OBVIOUS
    <3>2. AsKept(e) BY <1>4, <2>2, <3>1
    <3>3. ~e.failed /\ e.stamped BY <3>2 DEF AsKept
    <3>4. ~\E t \in D!Tables : db.old[t] # "absent" /\ db.new[t] # "absent" BY <2>2 DEF D!Collides
    <3> QED BY <3>1, <3>2, <3>3, <3>4 DEF AsKept, Becomes
  <2> QED BY <2>1, <2>2
<1> QED BY <1>5 DEF MigrationKeeps, backend, db, key, was

--------------------------------------------------------------------------------
(* The monitor. What is left of a batch is of the batch's kind, so that a  *)
(* strict check of a key without a model is never counted, and due times   *)
(* stay between those of a key never scheduled and the longest             *)

Scheduled(f) == \A kind \in Kinds : f[kind] \in [Of(kind) -> Never..MaxDelay]
Counted(f) == f = [kind \in Kinds |-> f[kind]] /\ \A kind \in Kinds : f[kind] \in [Of(kind) -> Nat]
Fixed == /\ enabled \subseteq Keys /\ on \subseteq Kinds /\ strict \in BOOLEAN
         /\ manual \subseteq Keys /\ raising \subseteq Keys
         /\ acts \in 0..MaxActs /\ pauses \in 0..MaxPauses
OfItsKind == /\ phase \in Kinds \union {"pause", "ready"}
             /\ batch \subseteq (IF phase \in Kinds THEN Of(phase) ELSE {})

MonitorInv == Scheduled(due) /\ Counted(passed) /\ Fixed /\ OfItsKind

(* Keys are finitely many                                                  *)
LEMMA KeysFinite ==
  ASSUME NEW kind
  PROVE  /\ IsFiniteSet(Of(kind)) /\ Cardinality(Of(kind)) \in Nat /\ Cardinality(Keys) \in Nat
         /\ \A S \in SUBSET Of(kind) : /\ IsFiniteSet(S) /\ Cardinality(S) \in Nat
                                      /\ Cardinality(S) <= Cardinality(Of(kind))
                                      /\ Cardinality(S) <= Cardinality(Keys)
<1>1. Of(kind) \subseteq Keys BY CapAssumption DEF Of
<1>2. \A S \in SUBSET Keys : IsFiniteSet(S) /\ Cardinality(S) \in Nat /\ Cardinality(S) <= Cardinality(Keys)
  BY CapAssumption, FS_Subset, FS_CardinalityType
<1>3. IsFiniteSet(Of(kind)) BY <1>1, <1>2
<1>4. \A S \in SUBSET Of(kind) : Cardinality(S) <= Cardinality(Of(kind)) BY <1>3, FS_Subset
<1> QED BY <1>1, <1>2, <1>4

(* What the clocks and counters of the monitor may show                    *)
LEMMA Times ==
  /\ Never \in Never..MaxDelay /\ 0 \in 0..MaxActs /\ 0 \in 0..MaxPauses
  /\ \A d \in Later : d \in Never..MaxDelay
  /\ \A d \in Never..MaxDelay : d > 0 => d - 1 \in Never..MaxDelay
  /\ \A n \in 0..Cardinality(Keys) : -n \in Never..MaxDelay /\ -n > Never
  /\ \A n \in 0..MaxActs : n < MaxActs => n + 1 \in 0..MaxActs
  /\ \A n \in 0..MaxPauses : n < MaxPauses => n + 1 \in 0..MaxPauses
<1>1. Cardinality(Keys) \in Nat BY CapAssumption, FS_CardinalityType
<1> QED BY <1>1, BoundsAssumption DEF Never, Later

(* The types hold at first                                                 *)
LEMMA InitTypes == MonitorInit => MonitorInv
<1> SUFFICES ASSUME MonitorInit PROVE MonitorInv OBVIOUS
<1>1. Scheduled(due) BY Times DEF MonitorInit, Scheduled
<1>2. Counted(passed) BY DEF MonitorInit, Counted
<1>3. Fixed BY Times DEF MonitorInit, Fixed, Kinds
<1>4. OfItsKind BY DEF MonitorInit, OfItsKind, Kinds
<1> QED BY <1>1, <1>2, <1>3, <1>4 DEF MonitorInv

(* A batch is of its kind, and what it passes over is counted              *)
LEMMA SelectTypes ==
  ASSUME MonitorInv, NEW kind \in Kinds, NEW S, Select(kind, S)
  PROVE  Counted(passed') /\ batch' \subseteq Of(kind)
<1>1. batch' \subseteq Of(kind) BY DEF Select, First, Capped, Due
<1> DEFINE f == [k \in Of(kind) |-> IF k \notin Due(kind) \ S THEN 0
                   ELSE IF passed[kind][k] < MaxPassed THEN passed[kind][k] + 1 ELSE passed[kind][k]]
<1>2. passed[kind] \in [Of(kind) -> Nat] BY DEF MonitorInv, Counted
<1>3. f \in [Of(kind) -> Nat] BY <1>2
<1>4. passed' = [passed EXCEPT ![kind] = f] BY DEF Select
<1> HIDE DEF f
<1>5. Counted(passed') BY <1>3, <1>4 DEF MonitorInv, Counted
<1> QED BY <1>1, <1>5

(* A check that saves keeps the types of the times                         *)
LEMMA SavesTypes ==
  ASSUME MonitorInv, NEW k, NEW kinds \in SUBSET Kinds, Saves(k, kinds)
  PROVE  Scheduled(due') /\ Counted(passed')
<1>1. PICK d \in [kinds -> Later] : due' = [kind \in Kinds |->
        IF kind \in kinds THEN [due[kind] EXCEPT ![k] = d[kind]] ELSE due[kind]]
  BY DEF Saves
<1>2. ASSUME NEW kind \in Kinds PROVE due'[kind] \in [Of(kind) -> Never..MaxDelay]
  <2>1. due[kind] \in [Of(kind) -> Never..MaxDelay] BY DEF MonitorInv, Scheduled
  <2>2. CASE kind \in kinds
    <3>1. due'[kind] = [due[kind] EXCEPT ![k] = d[kind]] BY <1>1, <2>2
    <3>2. d[kind] \in Never..MaxDelay BY <2>2, Times
    <3> QED BY <2>1, <3>1, <3>2
  <2>3. CASE kind \notin kinds BY <1>1, <2>1, <2>3
  <2> QED BY <2>2, <2>3
<1>3. passed' = [kind \in Kinds |->
        IF kind \in kinds THEN [passed[kind] EXCEPT ![k] = 0] ELSE passed[kind]]
  BY DEF Saves
<1>4. ASSUME NEW kind \in Kinds PROVE passed'[kind] \in [Of(kind) -> Nat]
  <2>1. passed[kind] \in [Of(kind) -> Nat] BY DEF MonitorInv, Counted
  <2> QED BY <1>3, <2>1
<1> QED BY <1>2, <1>3, <1>4 DEF Scheduled, Counted

(* The steps of the loop keep the types                                    *)
LEMMA LoopTypes ==
  ASSUME MonitorInv, Tick \/ AfterHealth \/ AfterStrict \/ Pause
  PROVE  MonitorInv'
<1>1. Scheduled(due) /\ Counted(passed) /\ Fixed /\ OfItsKind BY DEF MonitorInv
<1>2. {"health", "strict"} = Kinds /\ "pause" \notin Kinds /\ "ready" \notin Kinds BY DEF Kinds
<1>3. CASE Tick
  <2>1. Fixed'
    <3>1. strict' \in BOOLEAN
      <4>1. CASE "health" \in on
        <5>1. strict' = ("strict" \in on) BY <1>3, <4>1 DEF Tick
        <5>2. ("strict" \in on) \in BOOLEAN OBVIOUS
        <5> QED BY <5>1, <5>2, Zenon
      <4>2. CASE "health" \notin on BY <1>1, <1>3, <4>2 DEF Tick, Fixed
      <4> QED BY <4>1, <4>2
    <3>2. /\ UNCHANGED <<enabled, on, manual, raising, acts>> /\ pauses' = 0 BY <1>3 DEF Tick
    <3> QED BY <1>1, <3>1, <3>2, Times DEF Fixed
  <2>2. Scheduled(due') BY <1>1, <1>3 DEF Tick
  <2>3. CASE "health" \in on
    <3>1. PICK S : Select("health", S) BY <1>3, <2>3 DEF Tick
    <3>2. phase' = "health" BY <1>3, <2>3 DEF Tick
    <3>3. Counted(passed') /\ batch' \subseteq Of("health") BY <1>2, <3>1, SelectTypes
    <3> QED BY <1>2, <2>1, <2>2, <3>2, <3>3 DEF MonitorInv, OfItsKind
  <2>4. CASE "health" \notin on
    <3>1. phase' = "pause" /\ batch' = batch /\ passed' = passed /\ phase = "ready"
      BY <1>3, <2>4 DEF Tick
    <3> QED BY <1>1, <1>2, <2>1, <2>2, <3>1 DEF MonitorInv, OfItsKind
  <2> QED BY <2>3, <2>4
<1>4. CASE AfterHealth
  <2>1. Fixed' BY <1>1, <1>4, Times DEF AfterHealth, Fixed
  <2>2. Scheduled(due') BY <1>1, <1>4 DEF AfterHealth
  <2>3. CASE strict
    <3>1. PICK S : Select("strict", S) BY <1>4, <2>3 DEF AfterHealth
    <3>2. phase' = "strict" BY <1>4, <2>3 DEF AfterHealth
    <3>3. Counted(passed') /\ batch' \subseteq Of("strict") BY <1>2, <3>1, SelectTypes
    <3> QED BY <1>2, <2>1, <2>2, <3>2, <3>3 DEF MonitorInv, OfItsKind
  <2>4. CASE ~strict
    <3>1. phase' = "pause" /\ batch' = {} /\ passed' = passed
      BY <1>4, <2>4 DEF AfterHealth
    <3> QED BY <1>1, <1>2, <2>1, <2>2, <3>1 DEF MonitorInv, OfItsKind
  <2> QED BY <2>3, <2>4
<1>5. CASE AfterStrict
  <2>1. Fixed' BY <1>1, <1>5, Times DEF AfterStrict, Fixed
  <2>2. phase' = "pause" /\ batch' = {} /\ passed' = passed /\ due' = due
    BY <1>5 DEF AfterStrict
  <2> QED BY <1>1, <1>2, <2>1, <2>2 DEF MonitorInv, OfItsKind
<1>6. CASE Pause
  <2>1. Fixed' BY <1>1, <1>6, Times DEF Pause, Fixed
  <2>2. Scheduled(due')
    <3> SUFFICES ASSUME NEW kind \in Kinds PROVE due'[kind] \in [Of(kind) -> Never..MaxDelay]
      BY DEF Scheduled
    <3> DEFINE older(k) == IF due[kind][k] = Never THEN Never
                           ELSE IF due[kind][k] > 0 THEN due[kind][k] - 1
                           ELSE -Cardinality(Newer(kind, k))
    <3>1. due'[kind] = [k \in Of(kind) |-> older(k)] BY <1>6 DEF Pause, Aged
    <3>2. due[kind] \in [Of(kind) -> Never..MaxDelay] BY <1>1 DEF Scheduled
    <3>3. ASSUME NEW k \in Of(kind) PROVE older(k) \in Never..MaxDelay
      <4>1. PICK d \in Never..MaxDelay : d = due[kind][k] BY <3>2
      <4>2. Cardinality(Newer(kind, k)) \in 0..Cardinality(Keys) BY KeysFinite DEF Newer
      <4>3. PICK n \in 0..Cardinality(Keys) : n = Cardinality(Newer(kind, k)) BY <4>2
      <4>4. -n \in Never..MaxDelay BY Times
      <4> QED BY <4>1, <4>3, <4>4, Times
    <3> HIDE DEF older
    <3> QED BY <3>1, <3>3
  <2>3. batch' = batch /\ passed' = passed /\ (phase' = phase \/ (phase = "pause" /\ phase' = "ready"))
    BY <1>6 DEF Pause
  <2> QED BY <1>1, <1>2, <2>1, <2>2, <2>3 DEF MonitorInv, OfItsKind
<1> QED BY <1>3, <1>4, <1>5, <1>6

(* ... so does the end of a check                                          *)
LEMMA CheckTypes ==
  ASSUME MonitorInv, NEW k \in Keys, CheckEnds(k) \/ ManualEnd(k)
  PROVE  MonitorInv'
<1>1. Scheduled(due) /\ Counted(passed) /\ Fixed /\ OfItsKind BY DEF MonitorInv
<1>2. Fixed' BY <1>1 DEF CheckEnds, ManualEnd, Fixed
<1>3. OfItsKind' BY <1>1 DEF CheckEnds, ManualEnd, OfItsKind
<1>4. Scheduled(due') /\ Counted(passed')
  <2>1. CASE UNCHANGED <<due, passed>> BY <1>1, <2>1
  <2>2. ASSUME NEW kinds \in SUBSET Kinds, Saves(k, kinds)
        PROVE  Scheduled(due') /\ Counted(passed')
    BY <2>2, SavesTypes
  <2>3. ASSUME CheckEnds(k) PROVE {phase} \in SUBSET Kinds
    BY <1>1, <2>3 DEF CheckEnds, OfItsKind
  <2>4. ASSUME NEW kinds \in SUBSET {kind \in Kinds : k \in Of(kind)}
        PROVE  kinds \in SUBSET Kinds
    OBVIOUS
  <2> QED BY <2>1, <2>2, <2>3, <2>4 DEF CheckEnds, ManualEnd
<1> QED BY <1>2, <1>3, <1>4 DEF MonitorInv

(* ... and what the user does                                              *)
LEMMA UserTypes ==
  ASSUME MonitorInv, SaveSettings \/ \E k \in Keys : ManualStart(k) \/ Edit(k)
  PROVE  MonitorInv'
<1>1. Scheduled(due) /\ Counted(passed) /\ Fixed /\ OfItsKind BY DEF MonitorInv
<1>2. CASE SaveSettings
  <2>1. Fixed' BY <1>1, <1>2, Times DEF SaveSettings, Acts, Fixed
  <2> QED BY <1>1, <1>2, <2>1 DEF SaveSettings, MonitorInv, OfItsKind
<1>3. ASSUME NEW k \in Keys, ManualStart(k) PROVE MonitorInv'
  <2>1. Fixed' BY <1>1, <1>3, Times DEF ManualStart, Acts, Fixed
  <2> QED BY <1>1, <1>3, <2>1 DEF ManualStart, MonitorInv, OfItsKind
<1>4. ASSUME NEW k \in Keys, Edit(k) PROVE MonitorInv'
  <2>1. Fixed' BY <1>1, <1>4, Times DEF Edit, Acts, Fixed
  <2>2. PICK kinds : due' = Forgotten(k, kinds) BY <1>4 DEF Edit
  <2>3. Scheduled(due') BY <1>1, <2>2, Times DEF Scheduled, Forgotten
  <2>4. OfItsKind' /\ passed' = passed BY <1>1, <1>4 DEF Edit, OfItsKind
  <2> QED BY <1>1, <2>1, <2>3, <2>4 DEF MonitorInv
<1> QED BY <1>2, <1>3, <1>4

(* Every step keeps the types                                              *)
LEMMA MonitorStep == MonitorInv /\ [MonitorNext]_monitorVars => MonitorInv'
<1>1. MonitorInv /\ UNCHANGED monitorVars => MonitorInv'
  BY DEF monitorVars, MonitorInv, Scheduled, Counted, Fixed, OfItsKind
<1> QED BY <1>1, LoopTypes, CheckTypes, UserTypes DEF MonitorNext, Loop

\* Due times, counters and batches keep their types: what is left of a batch is
\* of its kind (tick, get_due_keys, get_due_strict_keys).
THEOREM MonitorTypes == MonitorSpec => []TypeOK
<1>1. MonitorInv => TypeOK
  BY DEF MonitorInv, TypeOK, Scheduled, Counted, Fixed, OfItsKind
<1> QED BY <1>1, MonitorStep, InitTypes, PTL DEF MonitorSpec

--------------------------------------------------------------------------------
(* How often a key is passed over                                          *)

(* The keys that may go before k; those of the batch whose check will save *)
Ahead(kind, k) == {j \in Of(kind) \ {k} : due[kind][j] <= due[kind][k]}
Working(kind) == IF phase = kind THEN batch \ (raising \union manual) ELSE {}
(* How many of A there are without the one of B that is known to leave     *)
Still(A, B) == IF A \intersect B = {} THEN Cardinality(A) ELSE Cardinality(A) - 1

(* Each tick that passes over k lets one of those ahead of it leave, and   *)
(* only what the user does brings another one                              *)
Line(kind, k) == passed[kind][k] + Still(Ahead(kind, k), Working(kind)) <= Cardinality(Of(kind)) - 1 + acts
Passed(kind, k) == passed[kind][k] > 0 => /\ due[kind][k] <= 0
                                          /\ passed[kind][k] <= Cardinality(Of(kind)) - Cap + acts
InLine(kind, k) == Line(kind, k) /\ Passed(kind, k)
LineInv == /\ Cardinality(raising \union manual) < Cap
           /\ phase \notin Kinds => batch = {}
           /\ \A kind \in Kinds : \A k \in Of(kind) : InLine(kind, k)

(* Fewer are ahead when some of them leave, also some that work            *)
LEMMA StillLess ==
  ASSUME NEW A, IsFiniteSet(A), NEW C \in SUBSET A, NEW B, NEW E, B \intersect C \subseteq E
  PROVE  Still(A, B) \in Int /\ Still(C, E) \in Int /\ Still(C, E) <= Still(A, B)
<1>1. /\ IsFiniteSet(C) /\ Cardinality(C) <= Cardinality(A) /\ Cardinality(C) \in Nat /\ Cardinality(A) \in Nat
      /\ Cardinality(C) = Cardinality(A) => C = A
  BY FS_Subset, FS_CardinalityType
<1>2. CASE A \intersect B # {} /\ C \intersect E = {}
  <2>1. C # A BY <1>2
  <2> QED BY <1>1, <1>2, <2>1 DEF Still
<1>3. CASE A \intersect B = {} \/ C \intersect E # {}
  BY <1>1, <1>3 DEF Still
<1> QED BY <1>2, <1>3

(* ... and one that comes makes them one more                              *)
LEMMA StillMore ==
  ASSUME NEW A, IsFiniteSet(A), NEW x, NEW C \in SUBSET (A \union {x}), NEW B
  PROVE  Still(A, B) \in Int /\ Still(C, B) \in Int /\ Still(C, B) <= Still(A, B) + 1
<1>1. IsFiniteSet(A \union {x}) BY FS_AddElement
<1>2. IsFiniteSet(C) BY <1>1, FS_Subset
<1>3. /\ IsFiniteSet(C \ {x}) /\ Cardinality(C) \in Nat /\ Cardinality(C \ {x}) \in Nat
      /\ Cardinality(C) <= Cardinality(C \ {x}) + 1
  BY <1>2, FS_RemoveElement, FS_CardinalityType
<1>4. C \ {x} \in SUBSET A OBVIOUS
<1>5. Still(C \ {x}, B) <= Still(A, B) /\ Still(A, B) \in Int BY <1>4, StillLess
<1>6. Still(C, B) <= Still(C \ {x}, B) + 1
  <2>1. C \intersect B = {} => (C \ {x}) \intersect B = {} OBVIOUS
  <2> QED BY <1>3, <2>1 DEF Still
<1>7. Still(C, B) \in Int /\ Still(C \ {x}, B) \in Int BY <1>3 DEF Still
<1> QED BY <1>5, <1>6, <1>7

(* At most all the others are ahead                                        *)
LEMMA AllAhead ==
  ASSUME NEW kind, NEW k \in Of(kind), NEW A \in SUBSET (Of(kind) \ {k}), NEW B
  PROVE  Still(A, B) \in Int /\ Still(A, B) <= Cardinality(Of(kind)) - 1
<1>1. IsFiniteSet(Of(kind)) /\ Cardinality(Of(kind)) \in Nat BY KeysFinite
<1>2. /\ IsFiniteSet(Of(kind) \ {k}) /\ Cardinality(Of(kind) \ {k}) = Cardinality(Of(kind)) - 1
  BY <1>1, FS_RemoveElement
<1>3. Cardinality(A) <= Cardinality(Of(kind)) - 1 /\ IsFiniteSet(A) BY <1>2, FS_Subset
<1>4. Cardinality(A) \in Nat BY <1>3, FS_CardinalityType
<1> QED BY <1>1, <1>3, <1>4 DEF Still

(* A key that is not passed over is in line wherever it stands             *)
LEMMA NewInLine ==
  ASSUME MonitorInv', NEW kind \in Kinds, NEW k \in Of(kind), passed'[kind][k] = 0
  PROVE  InLine(kind, k)'
<1>1. Ahead(kind, k)' \in SUBSET (Of(kind) \ {k}) BY DEF Ahead, Of
<1>2. /\ Still(Ahead(kind, k)', Working(kind)') \in Int
      /\ Still(Ahead(kind, k)', Working(kind)') <= Cardinality(Of(kind)) - 1
  BY <1>1, AllAhead
<1>3. acts' \in Nat /\ Cardinality(Of(kind)) \in Nat BY KeysFinite DEF MonitorInv, Fixed
<1>4. Line(kind, k)' BY <1>2, <1>3 DEF Line, Still, Of
<1> QED BY <1>4 DEF InLine, Passed

(* A key stays in line when nothing gets ahead of it and those who work go *)
(* on, or leave                                                            *)
LEMMA StaysInLine ==
  ASSUME MonitorInv, NEW kind \in Kinds, NEW k \in Of(kind), InLine(kind, k),
         passed'[kind][k] = passed[kind][k], acts' = acts, due[kind][k] <= 0 => due'[kind][k] <= 0,
         Ahead(kind, k)' \subseteq Ahead(kind, k),
         Working(kind) \intersect Ahead(kind, k)' \subseteq Working(kind)'
  PROVE  InLine(kind, k)'
<1> DEFINE A == Ahead(kind, k)  B == Working(kind)
           C == Ahead(kind, k)'  E == Working(kind)'
<1>1. IsFiniteSet(A) BY KeysFinite DEF Ahead
<1>2. Still(A, B) \in Int /\ Still(C, E) \in Int /\ Still(C, E) <= Still(A, B) BY <1>1, StillLess
<1>3. passed[kind][k] \in Nat /\ acts \in Nat /\ Cardinality(Of(kind)) \in Nat
  BY KeysFinite DEF MonitorInv, Counted, Fixed
<1>4. passed[kind][k] + Still(A, B) <= Cardinality(Of(kind)) - 1 + acts BY DEF InLine, Line
<1> HIDE DEF A, B, C, E
<1>5. passed[kind][k] + Still(C, E) <= Cardinality(Of(kind)) - 1 + acts BY <1>2, <1>3, <1>4
<1>6. Line(kind, k)' BY <1>5 DEF Line, Still, Of, C, E
<1>7. Passed(kind, k)' BY DEF InLine, Passed, Of
<1> QED BY <1>6, <1>7 DEF InLine

(* ... and when the user puts one key ahead of it                          *)
LEMMA UserInLine ==
  ASSUME MonitorInv, NEW kind \in Kinds, NEW k \in Of(kind), InLine(kind, k), NEW x,
         passed'[kind][k] = passed[kind][k], acts' = acts + 1, due[kind][k] <= 0 => due'[kind][k] <= 0,
         Ahead(kind, k)' \subseteq Ahead(kind, k) \union {x}, Working(kind)' = Working(kind)
  PROVE  InLine(kind, k)'
<1> DEFINE A == Ahead(kind, k)  B == Working(kind)
           C == Ahead(kind, k)'
<1>1. IsFiniteSet(A) BY KeysFinite DEF Ahead
<1>2. Still(A, B) \in Int /\ Still(C, B) \in Int /\ Still(C, B) <= Still(A, B) + 1 BY <1>1, StillMore
<1>3. passed[kind][k] \in Nat /\ acts \in Nat /\ Cardinality(Of(kind)) \in Nat /\ Cap \in Nat
  BY KeysFinite, CapAssumption DEF MonitorInv, Counted, Fixed
<1>4. passed[kind][k] + Still(A, B) <= Cardinality(Of(kind)) - 1 + acts BY DEF InLine, Line
<1> HIDE DEF A, B, C
<1>5. passed[kind][k] + Still(C, B) <= Cardinality(Of(kind)) - 1 + (acts + 1) BY <1>2, <1>3, <1>4
<1>6. Line(kind, k)' BY <1>5 DEF Line, Still, Of, B, C
<1>7. Passed(kind, k)' BY <1>3 DEF InLine, Passed, Of
<1> QED BY <1>6, <1>7 DEF InLine

(* In a tick that passes over k somebody ahead of it starts to work        *)
LEMMA SelectInLine ==
  ASSUME MonitorInv, MonitorInv', LineInv, NEW kind \in Kinds, NEW S, Select(kind, S), batch = {},
         phase' = kind, UNCHANGED <<due, manual, raising, acts>>
  PROVE  \A other \in Kinds : \A k \in Of(other) : InLine(other, k)'
<1> DEFINE R == raising \union manual
<1>1. TAKE other \in Kinds
<1>2. TAKE k \in Of(other)
<1>3. passed' = [passed EXCEPT ![kind] = [i \in Of(kind) |->
        IF i \notin Due(kind) \ S THEN 0
        ELSE IF passed[kind][i] < MaxPassed THEN passed[kind][i] + 1 ELSE passed[kind][i]]]
  BY DEF Select
<1>4. Counted(passed) /\ InLine(other, k) BY DEF MonitorInv, LineInv
<1>5. CASE other # kind
  <2>1. passed'[other][k] = passed[other][k] BY <1>3, <1>4, <1>5 DEF Counted
  <2>2. Ahead(other, k)' = Ahead(other, k) BY DEF Ahead, Of
  <2>3. Working(other) = {} BY DEF Working
  <2> QED BY <1>4, <2>1, <2>2, <2>3, StaysInLine
<1>6. CASE other = kind /\ k \notin Due(kind) \ S
  <2>1. passed'[kind][k] = 0 BY <1>3, <1>4, <1>6 DEF Counted
  <2> QED BY <1>6, <2>1, NewInLine
<1>7. CASE other = kind /\ k \in Due(kind) \ S
  <2>1. passed'[kind][k] \in {passed[kind][k], passed[kind][k] + 1} BY <1>3, <1>4, <1>7 DEF Counted
  <2>2. S \subseteq Due(kind) /\ Cardinality(S) = Cap /\ \A s \in S : due[kind][s] <= due[kind][k]
    BY <1>7 DEF Select, First, Capped
  <2>3. S \subseteq Ahead(kind, k) BY <1>7, <2>2 DEF Ahead, Due
  <2>4. Ahead(kind, k)' = Ahead(kind, k) BY DEF Ahead, Of
  <2>5. Working(kind) = {} /\ Working(kind)' = S \ R BY DEF Working, Select
  <2>6. S \ R # {}
    <3>1. R \subseteq Keys BY DEF MonitorInv, Fixed
    <3>2. IsFiniteSet(R) BY <3>1, CapAssumption, FS_Subset
    <3>3. Cardinality(R) < Cap BY DEF LineInv
    <3>4. Cardinality(R) \in Nat /\ Cap \in Nat BY <3>2, FS_CardinalityType, CapAssumption
    <3>5. S \in SUBSET R => Cardinality(S) <= Cardinality(R) BY <3>2, FS_Subset
    <3> QED BY <2>2, <3>3, <3>4, <3>5
  <2> DEFINE A == Ahead(kind, k)
  <2>7. Cardinality(A) \in Nat /\ IsFiniteSet(A) BY KeysFinite DEF Ahead
  <2>8. Cardinality(A) >= Cap BY <2>2, <2>3, <2>7, FS_Subset
  <2>9. Still(A, Working(kind)) = Cardinality(A) BY <2>5 DEF Still
  <2>10. Still(A, S \ R) = Cardinality(A) - 1 BY <2>3, <2>6 DEF Still
  <2>11. passed[kind][k] + Cardinality(A) <= Cardinality(Of(kind)) - 1 + acts
    BY <1>4, <1>7, <2>9 DEF InLine, Line
  <2>12. /\ passed[kind][k] \in Nat /\ acts \in Nat /\ Cap \in Nat
         /\ Cardinality(Of(kind)) \in Nat
    BY <1>7, KeysFinite, CapAssumption DEF MonitorInv, Counted, Fixed
  <2> HIDE DEF A
  <2>13. /\ passed'[kind][k] + Still(A, S \ R) <= Cardinality(Of(kind)) - 1 + acts
         /\ passed'[kind][k] <= Cardinality(Of(kind)) - Cap + acts
    BY <2>1, <2>7, <2>8, <2>10, <2>11, <2>12
  <2>14. Line(kind, k)' BY <2>4, <2>5, <2>13 DEF Line, Still, Of, A
  <2>15. Passed(kind, k)' BY <1>7, <2>13 DEF Passed, Due, Of
  <2> QED BY <1>7, <2>14, <2>15 DEF InLine
<1> QED BY <1>5, <1>6, <1>7

(* Nobody waits at first                                                   *)
LEMMA InitInLine == MonitorInit => LineInv
<1> SUFFICES ASSUME MonitorInit PROVE LineInv OBVIOUS
<1>1. raising \union manual = raising /\ Cardinality(raising) < Cap /\ batch = {} BY DEF MonitorInit
<1>2. ASSUME NEW kind \in Kinds, NEW k \in Of(kind) PROVE InLine(kind, k)
  <2>1. passed[kind][k] = 0 /\ acts = 0 BY DEF MonitorInit
  <2>2. Ahead(kind, k) \in SUBSET (Of(kind) \ {k}) BY DEF Ahead
  <2>3. /\ Still(Ahead(kind, k), Working(kind)) \in Int
        /\ Still(Ahead(kind, k), Working(kind)) <= Cardinality(Of(kind)) - 1
    BY <2>2, AllAhead
  <2>4. Cardinality(Of(kind)) \in Nat BY KeysFinite
  <2>5. Line(kind, k) BY <2>1, <2>3, <2>4 DEF Line
  <2>6. Passed(kind, k) BY <2>1 DEF Passed
  <2> QED BY <2>5, <2>6 DEF InLine
<1> QED BY <1>1, <1>2 DEF LineInv

(* The due keys keep their order while time passes                         *)
LEMMA OrderKept ==
  ASSUME MonitorInv, Pause, NEW kind \in Kinds, NEW k \in Of(kind), due[kind][k] <= 0
  PROVE  due'[kind][k] <= 0 /\ Ahead(kind, k)' \subseteq Ahead(kind, k)
<1> DEFINE older(i) == IF due[kind][i] = Never THEN Never
                       ELSE IF due[kind][i] > 0 THEN due[kind][i] - 1
                       ELSE -Cardinality(Newer(kind, i))
<1>1. \A i \in Of(kind) : due'[kind][i] = older(i) BY DEF Pause, Aged
<1>2. \A i \in Of(kind) : due[kind][i] \in Never..MaxDelay BY DEF MonitorInv, Scheduled
<1>3. Never \in Int /\ Never < 0
  <2>1. Cardinality(Keys) \in Nat BY KeysFinite
  <2> QED BY <2>1 DEF Never
<1>4. \A i \in Of(kind) : due[kind][i] \in Int BY <1>2, <1>3, BoundsAssumption
<1>5. \A i \in Of(kind) : /\ Cardinality(Newer(kind, i)) \in Nat /\ IsFiniteSet(Newer(kind, i))
                          /\ -Cardinality(Newer(kind, i)) > Never
  <2> TAKE i \in Of(kind)
  <2>1. /\ IsFiniteSet(Newer(kind, i)) /\ Cardinality(Newer(kind, i)) \in Nat
        /\ Cardinality(Newer(kind, i)) <= Cardinality(Keys) /\ Cardinality(Keys) \in Nat
    BY KeysFinite DEF Newer
  <2> QED BY <2>1 DEF Never
<1>6. due'[kind][k] <= 0 /\ \A i \in Of(kind) : older(i) \in Int
  <2>1. older(k) = Never \/ older(k) = -Cardinality(Newer(kind, k)) BY <1>4
  <2>2. Cardinality(Newer(kind, k)) \in Nat BY <1>5
  <2>3. \A i \in Of(kind) : older(i) \in Int BY <1>3, <1>4, <1>5
  <2> HIDE DEF older
  <2> QED BY <1>1, <1>3, <2>1, <2>2, <2>3
<1>7. ASSUME NEW j \in Of(kind), due[kind][j] > due[kind][k] PROVE due'[kind][j] > due'[kind][k]
  <2>1. due[kind][j] \in Int /\ due[kind][k] \in Int /\ due[kind][k] >= Never /\ due[kind][j] > Never
    BY <1>2, <1>3, <1>4, <1>7
  <2>2. CASE due[kind][j] > 1
    <3>1. older(j) = due[kind][j] - 1 BY <1>3, <2>1, <2>2
    <3>2. older(k) <= 0 /\ older(k) \in Int /\ due'[kind][j] = older(j) /\ due'[kind][k] = older(k)
      BY <1>1, <1>6
    <3> HIDE DEF older
    <3> QED BY <2>1, <2>2, <3>1, <3>2
  <2>3. CASE due[kind][j] <= 1
    <3>1. j \in Newer(kind, k) BY <1>7, <2>3 DEF Newer
    <3>2. Newer(kind, j) \subseteq Newer(kind, k) /\ j \notin Newer(kind, j)
      BY <1>4, <1>7 DEF Newer
    <3>3. Cardinality(Newer(kind, j)) < Cardinality(Newer(kind, k))
      BY <1>5, <3>1, <3>2, FS_Subset
    <3>4. older(j) = -Cardinality(Newer(kind, j))
      <4>1. CASE due[kind][j] <= 0 BY <2>1, <4>1
      <4>2. CASE due[kind][j] = 1
        <5>1. Newer(kind, j) = {} BY <1>4, <4>2 DEF Newer
        <5> QED BY <1>3, <4>2, <5>1, FS_EmptySet
      <4> QED BY <2>1, <2>3, <4>1, <4>2
    <3>5. older(k) = Never \/ older(k) = -Cardinality(Newer(kind, k)) BY <1>4
    <3>6. Cardinality(Newer(kind, j)) \in Nat /\ Cardinality(Newer(kind, k)) \in Nat
          /\ -Cardinality(Newer(kind, j)) > Never
      BY <1>5
    <3>7. older(j) > older(k)
      <4> HIDE DEF older
      <4> QED BY <1>3, <3>3, <3>4, <3>5, <3>6
    <3> QED BY <1>1, <3>7
  <2> QED BY <2>1, <2>2, <2>3
<1>8. Ahead(kind, k)' \subseteq Ahead(kind, k)
  <2> SUFFICES ASSUME NEW j \in Of(kind) \ {k}, due'[kind][j] <= due'[kind][k]
               PROVE  due[kind][j] <= due[kind][k]
    BY DEF Ahead, Of
  <2> DEFINE a == due'[kind][j]  b == due'[kind][k]
  <2>1. a \in Int /\ b \in Int
    <3>1. older(j) \in Int /\ older(k) \in Int BY <1>3, <1>4, <1>5
    <3> QED BY <1>1, <3>1
  <2>2. ~(a > b) BY <2>1
  <2> QED BY <1>4, <1>7, <2>2
<1> QED BY <1>6, <1>8

(* The steps of the loop keep the line                                     *)
LEMMA LoopInLine ==
  ASSUME MonitorInv, MonitorInv', LineInv, Tick \/ AfterHealth \/ AfterStrict \/ Pause
  PROVE  LineInv'
<1>1. "health" \in Kinds /\ "strict" \in Kinds /\ "pause" \notin Kinds /\ "ready" \notin Kinds BY DEF Kinds
<1>2. Cardinality(raising \union manual)' < Cap
  BY DEF LineInv, Tick, AfterHealth, AfterStrict, Pause
<1>3. ASSUME batch = {}, batch' = {}, phase' \notin Kinds, UNCHANGED <<due, passed, acts>>
      PROVE  LineInv'
  <2> SUFFICES ASSUME NEW kind \in Kinds, NEW k \in Of(kind) PROVE InLine(kind, k)'
    BY <1>2, <1>3 DEF LineInv, Of
  <2>1. Ahead(kind, k)' = Ahead(kind, k) BY <1>3 DEF Ahead, Of
  <2>2. Working(kind) = {} BY <1>3 DEF Working
  <2> QED BY <1>3, <2>1, <2>2, StaysInLine DEF LineInv
<1>4. ASSUME NEW kind \in Kinds, NEW S, Select(kind, S), batch = {}, phase' = kind,
             UNCHANGED <<due, manual, raising, acts>>
      PROVE  LineInv'
  BY <1>2, <1>4, SelectInLine DEF LineInv, Of
<1>5. CASE Tick
  <2>1. batch = {} BY <1>1, <1>5 DEF Tick, LineInv
  <2> QED BY <1>1, <1>3, <1>4, <1>5, <2>1 DEF Tick
<1>6. CASE AfterHealth BY <1>1, <1>3, <1>4, <1>6 DEF AfterHealth
<1>7. CASE AfterStrict BY <1>1, <1>3, <1>7 DEF AfterStrict
<1>8. CASE Pause
  <2>1. /\ phase' = phase \/ (phase = "pause" /\ phase' = "ready")
        /\ UNCHANGED <<batch, passed, manual, raising, acts>>
    BY <1>8 DEF Pause
  <2>2. phase' \notin Kinds => batch' = {} BY <1>1, <2>1 DEF LineInv
  <2> SUFFICES ASSUME NEW kind \in Kinds, NEW k \in Of(kind) PROVE InLine(kind, k)'
    BY <1>2, <2>2 DEF LineInv, Of
  <2>3. Working(kind)' = Working(kind) BY <1>1, <2>1 DEF Working
  <2>4. passed[kind][k] \in Nat /\ due[kind][k] \in Never..MaxDelay /\ Never \in Int
    <3>1. Cardinality(Keys) \in Nat BY KeysFinite
    <3> QED BY <3>1 DEF MonitorInv, Counted, Scheduled, Never
  <2>5. CASE due[kind][k] <= 0
    <3>1. due'[kind][k] <= 0 /\ Ahead(kind, k)' \subseteq Ahead(kind, k) BY <1>8, <2>5, OrderKept
    <3> QED BY <2>1, <2>3, <3>1, StaysInLine DEF LineInv
  <2>6. CASE ~(due[kind][k] <= 0)
    <3>1. passed[kind][k] = 0 BY <2>4, <2>6 DEF LineInv, InLine, Passed
    <3> QED BY <2>1, <3>1, NewInLine
  <2> QED BY <2>5, <2>6
<1> QED BY <1>5, <1>6, <1>7, <1>8

(* A check that saves takes its key out of the line                        *)
LEMMA SavesInLine ==
  ASSUME MonitorInv, MonitorInv', LineInv, NEW k \in Keys, NEW kinds \in SUBSET Kinds, Saves(k, kinds),
         acts' = acts,
         \A kind \in Kinds : Working(kind) \ (IF kind \in kinds THEN {k} ELSE {}) \subseteq Working(kind)'
  PROVE  \A kind \in Kinds : \A i \in Of(kind) : InLine(kind, i)'
<1>1. TAKE kind \in Kinds
<1>2. TAKE i \in Of(kind)
<1>3. PICK d \in [kinds -> Later] : due' = [other \in Kinds |->
        IF other \in kinds THEN [due[other] EXCEPT ![k] = d[other]] ELSE due[other]]
  BY DEF Saves
<1>4. passed' = [other \in Kinds |->
        IF other \in kinds THEN [passed[other] EXCEPT ![k] = 0] ELSE passed[other]]
  BY DEF Saves
<1>5. /\ due[kind] \in [Of(kind) -> Never..MaxDelay] /\ passed[kind] \in [Of(kind) -> Nat]
      /\ Never \in Int /\ InLine(kind, i)
  <2>1. Cardinality(Keys) \in Nat BY KeysFinite
  <2> QED BY <2>1 DEF MonitorInv, Counted, Scheduled, Never, LineInv
<1>6. CASE kind \notin kinds
  <2>1. due'[kind] = due[kind] /\ passed'[kind] = passed[kind] BY <1>3, <1>4, <1>6
  <2>2. Ahead(kind, i)' = Ahead(kind, i) BY <2>1 DEF Ahead, Of
  <2>3. Working(kind) \subseteq Working(kind)' BY <1>6
  <2> QED BY <1>5, <2>1, <2>2, <2>3, StaysInLine
<1>7. CASE kind \in kinds /\ i = k
  <2>1. passed'[kind][i] = 0 BY <1>4, <1>5, <1>7
  <2> QED BY <2>1, NewInLine
<1>8. CASE kind \in kinds /\ i # k
  <2>1. /\ due'[kind] = [due[kind] EXCEPT ![k] = d[kind]] /\ due'[kind][i] = due[kind][i]
        /\ passed'[kind][i] = passed[kind][i]
    BY <1>3, <1>4, <1>5, <1>8
  <2>2. d[kind] \in Int /\ d[kind] > 0 BY <1>8, BoundsAssumption DEF Later
  <2>3. CASE due[kind][i] <= 0
    <3>1. ASSUME NEW j \in Ahead(kind, i)' PROVE j # k /\ j \in Ahead(kind, i)
      <4>1. j \in Of(kind) \ {i} /\ due'[kind][j] <= due[kind][i] BY <2>1, <3>1 DEF Ahead, Of
      <4>2. due[kind][i] \in Int BY <1>5, BoundsAssumption
      <4>3. j # k
        <5> SUFFICES ASSUME j = k PROVE FALSE OBVIOUS
        <5>1. due'[kind][j] = d[kind] BY <1>5, <2>1, <4>1
        <5> QED BY <2>2, <2>3, <4>1, <4>2, <5>1
      <4>4. due'[kind][j] = due[kind][j] BY <1>5, <2>1, <4>1, <4>3
      <4> QED BY <4>1, <4>3, <4>4 DEF Ahead
    <3>2. Working(kind) \intersect Ahead(kind, i)' \subseteq Working(kind)' BY <1>8, <3>1
    <3>3. Ahead(kind, i)' \subseteq Ahead(kind, i) BY <3>1
    <3> QED BY <1>5, <2>1, <3>2, <3>3, StaysInLine
  <2>4. CASE ~(due[kind][i] <= 0)
    <3>1. passed[kind][i] = 0 BY <1>5, <2>4 DEF InLine, Passed
    <3> QED BY <2>1, <3>1, NewInLine
  <2> QED BY <2>3, <2>4
<1> QED BY <1>6, <1>7, <1>8

(* The end of a check keeps the line                                       *)
LEMMA CheckInLine ==
  ASSUME MonitorInv, MonitorInv', LineInv, NEW k \in Keys, CheckEnds(k) \/ ManualEnd(k)
  PROVE  LineInv'
<1>1. Cardinality(raising \union manual)' < Cap
  <2>1. (raising \union manual)' \subseteq raising \union manual BY DEF CheckEnds, ManualEnd
  <2>2. raising \union manual \subseteq Keys BY DEF MonitorInv, Fixed
  <2>3. IsFiniteSet(raising \union manual) BY <2>2, CapAssumption, FS_Subset
  <2>4. /\ Cardinality((raising \union manual)') <= Cardinality(raising \union manual)
        /\ Cardinality((raising \union manual)') \in Nat /\ Cardinality(raising \union manual) \in Nat
    BY <2>1, <2>3, FS_Subset, FS_CardinalityType
  <2> QED BY <2>4, CapAssumption DEF LineInv
<1>2. phase' \notin Kinds => batch' = {} BY DEF CheckEnds, ManualEnd, LineInv
<1>3. acts' = acts /\ phase' = phase BY DEF CheckEnds, ManualEnd
<1>4. ASSUME UNCHANGED <<due, passed>>, \A kind \in Kinds : Working(kind) \subseteq Working(kind)'
      PROVE  LineInv'
  <2> SUFFICES ASSUME NEW kind \in Kinds, NEW i \in Of(kind) PROVE InLine(kind, i)'
    BY <1>1, <1>2 DEF LineInv, Of
  <2>1. Ahead(kind, i)' = Ahead(kind, i) BY <1>4 DEF Ahead, Of
  <2> QED BY <1>3, <1>4, <2>1, StaysInLine DEF LineInv
<1>5. ASSUME NEW kinds \in SUBSET Kinds, Saves(k, kinds),
             \A kind \in Kinds : Working(kind) \ (IF kind \in kinds THEN {k} ELSE {}) \subseteq Working(kind)'
      PROVE  LineInv'
  <2>1. \A kind \in Kinds : \A i \in Of(kind) : InLine(kind, i)' BY <1>3, <1>5, SavesInLine
  <2> QED BY <1>1, <1>2, <2>1 DEF LineInv, Of
<1>6. CASE CheckEnds(k)
  <2>1. k \in batch /\ batch' = batch \ {k} /\ UNCHANGED <<manual, raising>> BY <1>6 DEF CheckEnds
  <2>2. phase \in Kinds BY <2>1 DEF LineInv
  <2>3. \A kind \in Kinds : Working(kind) \ (IF kind = phase THEN {k} ELSE {}) \subseteq Working(kind)'
    BY <1>3, <2>1 DEF Working
  <2>4. CASE k \in raising \union manual /\ UNCHANGED <<due, passed>>
    <3>1. \A kind \in Kinds : Working(kind) \subseteq Working(kind)' BY <1>3, <2>1, <2>4 DEF Working
    <3> QED BY <1>4, <2>4, <3>1
  <2>5. CASE Saves(k, {phase}) BY <1>5, <2>2, <2>3, <2>5
  <2>6. CASE Saves(k, Kinds) BY <1>5, <2>3, <2>6
  <2> QED BY <1>6, <2>4, <2>5, <2>6 DEF CheckEnds
<1>7. CASE ManualEnd(k)
  <2>1. \A kind \in Kinds : Working(kind) \subseteq Working(kind)' BY <1>7 DEF ManualEnd, Working
  <2>2. CASE UNCHANGED <<due, passed>> BY <1>4, <2>1, <2>2
  <2>3. CASE \E kinds \in SUBSET {kind \in Kinds : k \in Of(kind)} : Saves(k, kinds)
    <3>1. PICK kinds \in SUBSET Kinds : Saves(k, kinds) BY <2>3
    <3> QED BY <1>5, <2>1, <3>1
  <2> QED BY <1>7, <2>2, <2>3 DEF ManualEnd
<1> QED BY <1>6, <1>7

(* ... and what the user does puts one key at its head                     *)
LEMMA UserKeepsLine ==
  ASSUME MonitorInv, MonitorInv', LineInv, SaveSettings \/ \E k \in Keys : ManualStart(k) \/ Edit(k)
  PROVE  LineInv'
<1>1. acts' = acts + 1 /\ UNCHANGED <<batch, phase, passed, raising>>
  BY DEF SaveSettings, ManualStart, Edit, Acts
<1>2. ASSUME Cardinality(raising \union manual)' < Cap,
             \A kind \in Kinds : Working(kind)' = Working(kind),
             \A kind \in Kinds : \A k \in Of(kind) :
               /\ due[kind][k] <= 0 => due'[kind][k] <= 0
               /\ \E x : Ahead(kind, k)' \subseteq Ahead(kind, k) \union {x}
      PROVE  LineInv'
  <2> SUFFICES ASSUME NEW kind \in Kinds, NEW k \in Of(kind) PROVE InLine(kind, k)'
    BY <1>1, <1>2 DEF LineInv, Of
  <2>1. PICK x : Ahead(kind, k)' \subseteq Ahead(kind, k) \union {x} BY <1>2
  <2> QED BY <1>1, <1>2, <2>1, UserInLine DEF LineInv
<1>3. CASE SaveSettings
  <2>1. UNCHANGED <<due, manual>> BY <1>3 DEF SaveSettings
  <2>2. \A kind \in Kinds : \A k \in Of(kind) : Ahead(kind, k)' = Ahead(kind, k)
    BY <2>1 DEF Ahead, Of
  <2>3. \A kind \in Kinds : Working(kind)' = Working(kind) BY <1>1, <2>1 DEF Working
  <2> QED BY <1>1, <1>2, <2>1, <2>2, <2>3 DEF LineInv
<1>4. ASSUME NEW k \in Keys, ManualStart(k) PROVE LineInv'
  <2>1. k \notin batch /\ manual' = manual \union {k} /\ due' = due BY <1>4 DEF ManualStart
  <2>2. (raising \union manual)' = raising \union manual \union {k} BY <1>1, <2>1
  <2>3. Cardinality((raising \union manual)') < Cap BY <1>4, <2>2 DEF ManualStart
  <2>4. \A kind \in Kinds : \A i \in Of(kind) : Ahead(kind, i)' = Ahead(kind, i)
    BY <2>1 DEF Ahead, Of
  <2>5. \A kind \in Kinds : Working(kind)' = Working(kind) BY <1>1, <2>1 DEF Working
  <2> QED BY <1>2, <2>1, <2>3, <2>4, <2>5
<1>5. ASSUME NEW k \in Keys, Edit(k) PROVE LineInv'
  <2>1. manual' = manual /\ \E kinds : due' = Forgotten(k, kinds) BY <1>5 DEF Edit
  <2>2. PICK kinds : due' = Forgotten(k, kinds) BY <2>1
  <2>3. ASSUME NEW kind \in Kinds, NEW i \in Of(kind)
        PROVE  /\ due[kind][i] <= 0 => due'[kind][i] <= 0
               /\ Ahead(kind, i)' \subseteq Ahead(kind, i) \union {k}
    <3>1. Never \in Int /\ Never < 0
      <4>1. Cardinality(Keys) \in Nat BY KeysFinite
      <4> QED BY <4>1 DEF Never
    <3>2. \A j \in Of(kind) : due[kind][j] \in Int /\ Never <= due[kind][j]
      BY <3>1, BoundsAssumption DEF MonitorInv, Scheduled
    <3>3. \A j \in Of(kind) : due'[kind][j] = IF j = k /\ kind \in kinds THEN Never ELSE due[kind][j]
      BY <2>2 DEF Forgotten
    <3>4. due'[kind][i] <= due[kind][i] BY <3>2, <3>3
    <3>5. ASSUME NEW j \in Ahead(kind, i)', j # k PROVE j \in Ahead(kind, i)
      <4>1. j \in Of(kind) \ {i} /\ due'[kind][j] <= due'[kind][i] BY <3>5 DEF Ahead, Of
      <4>2. due'[kind][j] = due[kind][j] BY <3>3, <3>5, <4>1
      <4>3. due'[kind][i] \in Int BY <3>1, <3>2, <3>3
      <4>4. due[kind][j] <= due[kind][i] BY <3>2, <3>4, <4>1, <4>2, <4>3
      <4> QED BY <4>1, <4>4 DEF Ahead
    <3> QED BY <3>1, <3>2, <3>3, <3>5
  <2>4. \A kind \in Kinds : Working(kind)' = Working(kind) BY <1>1, <2>1 DEF Working
  <2>5. Cardinality(raising \union manual)' < Cap BY <1>1, <2>1 DEF LineInv
  <2> QED BY <1>2, <2>3, <2>4, <2>5
<1> QED BY <1>3, <1>4, <1>5

\* A due key is passed over by no more ticks than the cap makes unavoidable, and one
\* more for each thing the user does, however many keys there are and however
\* long a batch takes (get_due_keys, get_due_strict_keys: the order and its limit).
THEOREM PassedOver == MonitorSpec => []PassedOverBounded
<1>1. MonitorInv /\ LineInv /\ [MonitorNext]_monitorVars => MonitorInv' /\ LineInv'
  <2> SUFFICES ASSUME MonitorInv, LineInv, [MonitorNext]_monitorVars PROVE MonitorInv' /\ LineInv'
    OBVIOUS
  <2>1. MonitorInv' BY MonitorStep
  <2>2. CASE UNCHANGED monitorVars
    BY <2>1, <2>2 DEF monitorVars, LineInv, InLine, Line, Passed, Ahead, Working, Still, Of
  <2>3. CASE MonitorNext
    BY <2>1, <2>3, LoopInLine, CheckInLine, UserKeepsLine DEF MonitorNext, Loop
  <2> QED BY <2>1, <2>2, <2>3
<1>2. LineInv => PassedOverBounded BY DEF LineInv, InLine, Passed, PassedOverBounded
<1> QED BY <1>1, <1>2, InitTypes, InitInLine, PTL DEF MonitorSpec
================================================================================
