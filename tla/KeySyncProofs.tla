----------------------------- MODULE KeySyncProofs -----------------------------
(***************************************************************************)
(* Proofs about the table, its readers and its cloud copy, for any number  *)
(* of requests, rows and pages: a walk through the pages shows every key   *)
(* once, a key that is added alone comes first, imports that add the same  *)
(* pair overlap, and a replace keeps a copy and restores what was uploaded.*)
(***************************************************************************)
EXTENDS KeySync, FiniteSetTheorems, WellFoundedInduction, TLAPS

--------------------------------------------------------------------------------
(* The smallest of a finite set of integers                                *)

(* Every finite, non-empty set of integers has a least element             *)
LEMMA LeastExists ==
  ASSUME NEW S, IsFiniteSet(S), S \subseteq Int, S # {}
  PROVE  \E x \in S : \A y \in S : x <= y
<1> DEFINE HasLeast(X) == \E x \in X : \A y \in X : x <= y
           Bad == {X \in SUBSET S : X # {} /\ ~HasLeast(X)}
<1>1. SUFFICES ASSUME Bad # {} PROVE FALSE
  OBVIOUS
<1>2. Bad \subseteq FiniteSubsetsOf(S)
  BY FS_Subset DEF FiniteSubsetsOf
<1>3. PICK X \in Bad : \A Y \in Bad : ~(<<Y, X>> \in StrictSubsetOrdering(S))
  <2>1. IsWellFoundedOn(StrictSubsetOrdering(S), FiniteSubsetsOf(S))
    BY FS_StrictSubsetOrderingWellFounded
  <2> HIDE DEF Bad
  <2> QED BY <1>1, <1>2, <2>1, WFMin
<1>4. PICK x \in X : TRUE
  OBVIOUS
<1>5. X \ {x} \notin Bad
  <2>1. <<X \ {x}, X>> \in StrictSubsetOrdering(S)
    BY <1>4 DEF StrictSubsetOrdering
  <2> QED BY <1>3, <2>1
<1>6. X \ {x} = {} \/ HasLeast(X \ {x})
  BY <1>5
<1>7. CASE X \ {x} = {}
  <2>1. X = {x} BY <1>4, <1>7
  <2> QED BY <2>1, <1>3, <1>4
<1>8. CASE HasLeast(X \ {x})
  <2>1. PICK y \in X \ {x} : \A z \in X \ {x} : y <= z BY <1>8
  <2>2. x \in Int /\ y \in Int /\ X \subseteq Int BY <1>3, <1>4, <2>1
  <2>3. CASE x <= y
    <3>1. \A z \in X : x <= z BY <2>1, <2>2, <2>3
    <3> QED BY <3>1, <1>3, <1>4
  <2>4. CASE ~(x <= y)
    <3>1. \A z \in X : y <= z BY <2>1, <2>2, <2>4
    <3> QED BY <3>1, <1>3, <2>1
  <2> QED BY <2>3, <2>4
<1> QED BY <1>6, <1>7, <1>8

(* Min finds it                                                            *)
LEMMA MinIsLeast ==
  ASSUME NEW S, IsFiniteSet(S), S \subseteq Int, S # {}
  PROVE  Min(S) \in S /\ \A y \in S : Min(S) <= y
<1>1. \E x \in S : \A y \in S : x <= y BY LeastExists
<1> QED BY <1>1 DEF Min

--------------------------------------------------------------------------------
(* Sorting                                                                 *)

(* R orders S: no element comes before itself, and of two one comes first  *)
Orders(R, S) ==
  /\ \A x \in S : <<x, x>> \notin R
  /\ \A x, y, z \in S : <<x, y>> \in R /\ <<y, z>> \in R => <<x, z>> \in R
  /\ \A x, y \in S : x = y \/ <<x, y>> \in R \/ <<y, x>> \in R

(* f lists the n elements of S in the order R                              *)
Lists(f, n, S, R) ==
  /\ f \in [1..n -> S]
  /\ \A x \in S : \E i \in 1..n : f[i] = x
  /\ \A i, j \in 1..n : i < j => <<f[i], f[j]>> \in R

(* A finite set that is ordered has a last element                         *)
LEMMA LastExists ==
  ASSUME NEW S, NEW R, IsFiniteSet(S), Orders(R, S), S # {}
  PROVE  \E x \in S : \A y \in S : y = x \/ <<y, x>> \in R
<1> DEFINE HasLast(X) == \E x \in X : \A y \in X : y = x \/ <<y, x>> \in R
           Bad == {X \in SUBSET S : X # {} /\ ~HasLast(X)}
<1>1. SUFFICES ASSUME Bad # {} PROVE FALSE
  OBVIOUS
<1>2. Bad \subseteq FiniteSubsetsOf(S)
  BY FS_Subset DEF FiniteSubsetsOf
<1>3. PICK X \in Bad : \A Y \in Bad : ~(<<Y, X>> \in StrictSubsetOrdering(S))
  <2>1. IsWellFoundedOn(StrictSubsetOrdering(S), FiniteSubsetsOf(S))
    BY FS_StrictSubsetOrderingWellFounded
  <2> HIDE DEF Bad
  <2> QED BY <1>1, <1>2, <2>1, WFMin
<1>4. PICK x \in X : TRUE
  OBVIOUS
<1>5. X \ {x} \notin Bad
  <2>1. <<X \ {x}, X>> \in StrictSubsetOrdering(S)
    BY <1>4 DEF StrictSubsetOrdering
  <2> QED BY <1>3, <2>1
<1>6. CASE X \ {x} = {}
  <2>1. X = {x} BY <1>4, <1>6
  <2> QED BY <2>1, <1>3, <1>4
<1>7. CASE HasLast(X \ {x})
  <2>1. PICK y \in X \ {x} : \A z \in X \ {x} : z = y \/ <<z, y>> \in R BY <1>7
  <2>2. X \subseteq S BY <1>3
  <2>3. CASE <<x, y>> \in R
    <3>1. \A z \in X : z = y \/ <<z, y>> \in R BY <2>1, <2>3
    <3> QED BY <3>1, <1>3, <2>1
  <2>4. CASE <<y, x>> \in R
    <3>1. \A z \in X : z = x \/ <<z, x>> \in R BY <2>1, <2>2, <2>4 DEF Orders
    <3> QED BY <3>1, <1>3, <1>4
  <2> QED BY <2>1, <2>2, <2>3, <2>4, <1>4 DEF Orders
<1> QED BY <1>5, <1>6, <1>7

(* It can be listed in its order                                           *)
LEMMA SortingExists ==
  ASSUME NEW S, NEW R, IsFiniteSet(S), Orders(R, S)
  PROVE  \E n \in Nat : \E f : Lists(f, n, S, R)
<1> DEFINE Listable(X) == \E n \in Nat : \E f : Lists(f, n, X, R)
           Bad == {X \in SUBSET S : ~Listable(X)}
<1>1. SUFFICES ASSUME Bad # {} PROVE FALSE
  OBVIOUS
<1>2. Bad \subseteq FiniteSubsetsOf(S)
  BY FS_Subset DEF FiniteSubsetsOf
<1>3. PICK X \in Bad : \A Y \in Bad : ~(<<Y, X>> \in StrictSubsetOrdering(S))
  <2>1. IsWellFoundedOn(StrictSubsetOrdering(S), FiniteSubsetsOf(S))
    BY FS_StrictSubsetOrderingWellFounded
  <2> HIDE DEF Bad
  <2> QED BY <1>1, <1>2, <2>1, WFMin
<1>4. X # {}
  <2>1. Lists([i \in 1..0 |-> i], 0, {}, R) BY DEF Lists
  <2>2. Listable({}) BY <2>1
  <2> QED BY <2>2, <1>3
<1>5. PICK x \in X : \A y \in X : y = x \/ <<y, x>> \in R
  <2>1. Orders(R, X) BY <1>3 DEF Orders
  <2>2. IsFiniteSet(X) BY <1>3, FS_Subset
  <2> QED BY <1>4, <2>1, <2>2, LastExists
<1>6. Listable(X \ {x})
  <2>1. <<X \ {x}, X>> \in StrictSubsetOrdering(S)
    BY <1>3, <1>5 DEF StrictSubsetOrdering
  <2> QED BY <1>3, <2>1
<1>7. PICK n \in Nat : \E f : Lists(f, n, X \ {x}, R)
  BY <1>6
<1>8. PICK f : Lists(f, n, X \ {x}, R)
  BY <1>7
<1> DEFINE g == [i \in 1..(n + 1) |-> IF i = n + 1 THEN x ELSE f[i]]
<1>9. Lists(g, n + 1, X, R)
  <2>1. \A i \in 1..(n + 1) : i # n + 1 => i \in 1..n OBVIOUS
  <2>2. g \in [1..(n + 1) -> X]
    <3>1. \A i \in 1..(n + 1) : i # n + 1 => f[i] \in X BY <2>1, <1>8 DEF Lists
    <3> QED BY <3>1, <1>5
  <2>3. \A y \in X : \E i \in 1..(n + 1) : g[i] = y
    <3> TAKE y \in X
    <3>1. CASE y = x
      <4>1. n + 1 \in 1..(n + 1) OBVIOUS
      <4> QED BY <4>1, <3>1
    <3>2. CASE y # x
      <4>1. PICK i \in 1..n : f[i] = y BY <3>2, <1>8 DEF Lists
      <4>2. i \in 1..(n + 1) /\ i # n + 1 OBVIOUS
      <4> QED BY <4>1, <4>2
    <3> QED BY <3>1, <3>2
  <2>4. \A i, j \in 1..(n + 1) : i < j => <<g[i], g[j]>> \in R
    <3> TAKE i \in 1..(n + 1), j \in 1..(n + 1)
    <3> HAVE i < j
    <3>1. i \in 1..n /\ i # n + 1 OBVIOUS
    <3>2. f[i] \in X \ {x} BY <3>1, <1>8 DEF Lists
    <3>3. CASE j = n + 1 BY <3>1, <3>2, <3>3, <1>5
    <3>4. CASE j # n + 1 BY <3>1, <3>4, <2>1, <1>8 DEF Lists
    <3> QED BY <3>3, <3>4
  <2> QED BY <2>2, <2>3, <2>4 DEF Lists
<1> HIDE DEF g
<1>10. Listable(X) BY <1>9
<1> QED BY <1>10, <1>3

(* There is only one way to do it                                          *)
LEMMA SortingUnique ==
  ASSUME NEW S, NEW R, Orders(R, S), NEW n \in Nat, NEW f, NEW g, Lists(f, n, S, R), Lists(g, n, S, R)
  PROVE  f = g
<1> DEFINE Differ == {i \in 1..n : f[i] # g[i]}
<1>1. f \in [1..n -> S] /\ g \in [1..n -> S]
  BY DEF Lists
<1>2. SUFFICES ASSUME Differ # {} PROVE FALSE
  BY <1>1
<1>3. PICK k \in Differ : \A i \in Differ : k <= i
  <2>1. IsFiniteSet(1..n) BY FS_Interval
  <2>2. IsFiniteSet(Differ) /\ Differ \subseteq Int BY <2>1, FS_Subset
  <2> HIDE DEF Differ
  <2> QED BY <1>2, <2>2, LeastExists
<1>4. \A i \in 1..n : i < k => f[i] = g[i]
  <2> TAKE i \in 1..n
  <2> HAVE i < k
  <2>1. i \notin Differ
    <3> HIDE DEF Differ
    <3>1. k \in Int /\ i \in Int BY DEF Differ
    <3> QED BY <1>3, <3>1
  <2> QED BY <2>1
<1>5. k \in 1..n /\ f[k] # g[k] OBVIOUS
<1>6. \A i, j \in 1..n : i # j => f[i] # f[j] /\ g[i] # g[j]
  <2> SUFFICES ASSUME NEW i \in 1..n, NEW j \in 1..n, i < j PROVE f[i] # f[j] /\ g[i] # g[j]
    OBVIOUS
  <2>1. <<f[i], f[j]>> \in R /\ <<g[i], g[j]>> \in R BY DEF Lists
  <2> QED BY <1>1, <2>1 DEF Orders
<1>7. PICK a \in 1..n : f[a] = g[k] BY <1>5 DEF Lists
<1>8. PICK b \in 1..n : g[b] = f[k] BY <1>5 DEF Lists
<1>9. k < a /\ k < b BY <1>4, <1>5, <1>6, <1>7, <1>8
<1>10. <<f[k], f[a]>> \in R /\ <<g[k], g[b]>> \in R BY <1>5, <1>9 DEF Lists
<1> QED BY <1>5, <1>7, <1>8, <1>10 DEF Lists, Orders

(* InOrder does it                                                         *)
LEMMA InOrderSorts ==
  ASSUME NEW S, NEW R, IsFiniteSet(S), Orders(R, S)
  PROVE  /\ Cardinality(S) \in Nat
         /\ Lists(InOrder(S, R), Cardinality(S), S, R)
<1>1. PICK n \in Nat : \E f : Lists(f, n, S, R)
  BY SortingExists
<1>2. PICK f : Lists(f, n, S, R)
  BY <1>1
<1>3. /\ f \in [1..n -> S] /\ \A x \in S : \E i \in 1..n : f[i] = x
      /\ \A i, j \in 1..n : i < j => <<f[i], f[j]>> \in R
  BY <1>2 DEF Lists
<1>4. \A i, j \in 1..n : i # j => f[i] # f[j]
  <2> SUFFICES ASSUME NEW i \in 1..n, NEW j \in 1..n, i < j PROVE f[i] # f[j]
    OBVIOUS
  <2> QED BY <1>3 DEF Orders
<1>5. Cardinality(S) = n
  <2>1. f \in Bijection(1..n, S) BY <1>3, <1>4 DEF Bijection, Injection, Surjection, IsInjective
  <2> QED BY <2>1, FS_CountingElements DEF ExistsBijection
<1> DEFINE Before(x) == {y \in S : <<y, x>> \in R}
<1>6. \A k \in 1..n : Cardinality(Before(f[k])) = k - 1
  <2> TAKE k \in 1..n
  <2>1. \A i \in 1..n : <<f[i], f[k]>> \in R <=> i < k
    <3> TAKE i \in 1..n
    <3>1. CASE i < k BY <3>1, <1>3
    <3>2. CASE i = k BY <3>2, <1>3 DEF Orders
    <3>3. CASE k < i BY <3>3, <1>3 DEF Orders
    <3> QED BY <3>1, <3>2, <3>3
  <2> DEFINE g == [i \in 1..(k - 1) |-> f[i]]
  <2>2. \A i \in 1..(k - 1) : i \in 1..n /\ i < k OBVIOUS
  <2>3. \A i \in 1..n : i < k => i \in 1..(k - 1) OBVIOUS
  <2>4. g \in [1..(k - 1) -> Before(f[k])] BY <2>1, <2>2, <1>3
  <2>5. \A y \in Before(f[k]) : \E i \in 1..(k - 1) : g[i] = y
    <3> TAKE y \in Before(f[k])
    <3>1. PICK i \in 1..n : f[i] = y BY <1>3
    <3>2. i \in 1..(k - 1) BY <3>1, <2>1, <2>3
    <3> QED BY <3>1, <3>2
  <2>6. \A i, j \in 1..(k - 1) : g[i] = g[j] => i = j BY <2>2, <1>4
  <2> HIDE DEF g, Before
  <2>7. g \in Bijection(1..(k - 1), Before(f[k])) BY <2>4, <2>5, <2>6 DEF Bijection, Injection, Surjection, IsInjective
  <2>8. k - 1 \in Nat OBVIOUS
  <2> QED BY <2>7, <2>8, FS_CountingElements DEF ExistsBijection
<1>7. \A k \in 1..n : (CHOOSE x \in S : Cardinality(Before(x)) = k - 1) = f[k]
  <2> TAKE k \in 1..n
  <2> DEFINE c == CHOOSE x \in S : Cardinality(Before(x)) = k - 1
  <2> HIDE DEF Before
  <2>1. c \in S /\ Cardinality(Before(c)) = k - 1 BY <1>3, <1>6
  <2>2. PICK i \in 1..n : f[i] = c BY <2>1, <1>3
  <2>3. i - 1 = k - 1 BY <2>1, <2>2, <1>6
  <2> HIDE DEF c
  <2>4. i = k BY <2>3
  <2>5. c = f[k] BY <2>2, <2>4
  <2> QED BY <2>5 DEF c
<1>8. InOrder(S, R) = f
  BY <1>3, <1>5, <1>7 DEF InOrder
<1> QED BY <1>2, <1>5, <1>8

--------------------------------------------------------------------------------
(* The order of the list                                                   *)

SortNames == {"default", "created_desc", "created_asc"}
Places == [group : {0, 1}, anchor : Int, id : Nat]

(* What the cursor adds is what comes behind the place it names            *)
LEMMA CursorIsBehind ==
  ASSUME NEW sort, NEW c, NEW p
  PROVE  PastCursor(sort, c, p) <=> Behind(sort, p, c)
BY DEF PastCursor, Behind

(* The list is ordered: nothing comes behind itself, and what is behind    *)
(* something behind a third is behind the third                            *)
LEMMA BehindOrders ==
  ASSUME NEW sort \in SortNames, NEW x \in Places, NEW y \in Places, NEW z \in Places
  PROVE  /\ ~Behind(sort, x, x)
         /\ ~(Behind(sort, x, y) /\ Behind(sort, y, x))
         /\ Behind(sort, x, y) /\ Behind(sort, y, z) => Behind(sort, x, z)
<1>1. CASE sort = "default" BY <1>1 DEF Behind, Places
<1>2. CASE sort = "created_desc" BY <1>2 DEF Behind, Places
<1>3. CASE sort = "created_asc" BY <1>3 DEF Behind, Places
<1> QED BY <1>1, <1>2, <1>3 DEF SortNames

--------------------------------------------------------------------------------
(* The invariant                                                           *)

PlaceOf(i) == Place(page.sort, rows, i)
Past(i) == Behind(page.sort, PlaceOf(i), page.cursor)

(* Orders and times are numbers, ids are used once                         *)
Typed ==
  /\ nextId \in Nat \ {0} /\ clock \in Nat
  /\ Ids \subseteq 1..(nextId - 1)
  /\ \A i \in Ids : /\ {"order", "created"} \subseteq DOMAIN rows[i]
                    /\ rows[i].order \in Int /\ rows[i].created \in Int
  /\ DOMAIN pc = Actors /\ DOMAIN loc = Actors
  /\ \A a \in Actors : /\ {"order", "items", "existing", "ids"} \subseteq DOMAIN loc[a]
                       /\ loc[a].order \in Int
  /\ page \in [sort : SortNames, at : {"first", "next", "end"}, cursor : Places]

(* The cursor divides what stays in its place: what was shown is not       *)
(* behind it, and what was there at the start and was not shown is         *)
Walked ==
  /\ shown \subseteq 1..(nextId - 1) /\ DOMAIN start \subseteq 1..(nextId - 1)
  /\ again \subseteq moved
  /\ page.at = "first" => shown = {} /\ again = {}
  /\ page.at = "next" => \A i \in (Ids \intersect shown) \ moved : ~Past(i)
  /\ page.at # "first" =>
       \A i \in (Ids \intersect DOMAIN start) \ (shown \union moved) : page.at = "next" /\ Past(i)

(* A request that adds one key knows it, and an order that nobody else has *)
(* taken since unless it was disturbed                                     *)
Looked ==
  \A a \in Actors : cast[a] = "add" =>
    /\ pc[a] \in {"start", "order", "insert", "done"}
    /\ pc[a] \in {"order", "insert"} => Len(loc[a].items) = 1
    /\ pc[a] = "insert" /\ a \notin disturbed => loc[a].order = NextOrder(rows)

IInv == Typed /\ Walked /\ Looked

(* The new order is a number, not 0, and smaller than all that count       *)
LEMMA NextOrderFirst ==
  ASSUME Typed
  PROVE  /\ NextOrder(rows) \in Int /\ NextOrder(rows) # 0
         /\ \A i \in Ids : rows[i].order # 0 => NextOrder(rows) < rows[i].order
<1> DEFINE S == {rows[i].order : i \in Ids}
<1>1. CASE Ids = {}
  BY <1>1 DEF NextOrder, Ids
<1>2. CASE Ids # {}
  <2>1. IsFiniteSet(S)
    <3>1. IsFiniteSet(1..(nextId - 1)) BY FS_Interval DEF Typed
    <3>2. IsFiniteSet(Ids) BY <3>1, FS_Subset DEF Typed
    <3> DEFINE f == [i \in Ids |-> rows[i].order]
    <3>3. f \in Surjection(Ids, S) BY DEF Surjection
    <3> HIDE DEF S, f
    <3> QED BY <3>2, <3>3, FS_Surjection
  <2>2. S \subseteq Int /\ S # {} BY <1>2 DEF Typed
  <2>3. Min(S) \in S /\ \A y \in S : Min(S) <= y
    <3> HIDE DEF S
    <3> QED BY <2>1, <2>2, MinIsLeast
  <2>4. Min(S) \in Int /\ \A i \in Ids : rows[i].order \in S /\ Min(S) <= rows[i].order /\ rows[i].order \in Int
    BY <2>2, <2>3 DEF Typed
  <2>5. NextOrder(rows) = IF Min(S) - 10 = 0 THEN -10 ELSE Min(S) - 10
    BY <1>2 DEF NextOrder, Ids
  <2> HIDE DEF S
  <2>6. \A i \in Ids : rows[i].order # 0 => NextOrder(rows) < rows[i].order
    BY <2>4, <2>5
  <2> QED BY <2>4, <2>5, <2>6
<1> QED BY <1>1, <1>2

(* A place is a place                                                      *)
LEMMA PlaceType == ASSUME Typed, NEW i \in Ids PROVE PlaceOf(i) \in Places
<1>1. i \in Nat /\ rows[i].order \in Int /\ rows[i].created \in Int BY DEF Typed
<1> QED BY <1>1 DEF PlaceOf, Place, Places

(* The start satisfies the invariant                                       *)
LEMMA InitInv == Init => IInv
<1> SUFFICES ASSUME Init PROVE IInv
  OBVIOUS
<1>1. \A t \in Tables : /\ DOMAIN t \in {{}, {1}, {1, 2}}
                        /\ \A i \in DOMAIN t : /\ {"order", "created"} \subseteq DOMAIN t[i]
                                               /\ t[i].order \in Int /\ t[i].created \in Int
  <2> TAKE t \in Tables
  <2>1. CASE t = <<>> BY <2>1
  <2>2. CASE \E p \in Pairs : t = [i \in {1} |-> OldRow(p, 0)] BY <2>2 DEF OldRow
  <2>3. CASE \E f \in [{1, 2} -> Pairs], o \in {<<0, 0>>, <<20, 10>>} :
               t = [i \in {1, 2} |-> OldRow(f[i], o[i])]
    BY <2>3 DEF OldRow
  <2> QED BY <2>1, <2>2, <2>3 DEF Tables
<1>2. Cardinality({}) = 0 /\ Cardinality({1}) = 1 /\ Cardinality({1, 2}) = 2
  <2>1. IsFiniteSet({1}) /\ Cardinality({1}) = 1 BY FS_Singleton
  <2>2. {1, 2} = {1} \union {2} /\ 2 \notin {1} OBVIOUS
  <2>3. Cardinality({1} \union {2}) = 1 + 1 BY <2>1, <2>2, FS_AddElement
  <2> QED BY <2>1, <2>2, <2>3, FS_EmptySet
<1>3. rows \in Tables /\ nextId = Cardinality(Ids) + 1 BY DEF Init, TableInit, Ids
<1>4. nextId \in Nat \ {0} /\ Ids \subseteq 1..(nextId - 1)
  BY <1>1, <1>2, <1>3 DEF Ids
<1>5. page \in [sort : SortNames, at : {"first", "next", "end"}, cursor : Places] /\ page.at = "first"
  <2>1. NoPlace \in Places BY DEF NoPlace, Places
  <2>2. Sorts \subseteq SortNames BY SortsAssumption DEF SortNames
  <2>3. page \in [sort : Sorts, at : {"first"}, cursor : {NoPlace}] BY DEF Init, TableInit
  <2> QED BY <2>1, <2>2, <2>3
<1>6. Typed
  BY <1>1, <1>3, <1>4, <1>5 DEF Typed, Ids, Init, TableInit, NoLocal
<1>7. Walked
  BY <1>5 DEF Walked, Init, TableInit
<1>8. Looked
  BY DEF Looked, Init, TableInit
<1> QED BY <1>6, <1>7, <1>8 DEF IInv

--------------------------------------------------------------------------------
(* What a step does to the walk                                            *)

(* Ids in use stay in use                                                  *)
LEMMA IdsGrow ==
  ASSUME NEW m \in Nat, NEW n \in Nat, m <= n PROVE 1..(m - 1) \subseteq 1..(n - 1)
OBVIOUS

(* What the new ids are                                                    *)
LEMMA InRange ==
  ASSUME NEW m \in Nat, NEW n \in Nat PROVE \A i \in m..(n - 1) : i \in Int /\ m <= i /\ i <= n - 1
OBVIOUS

(* A write that uses ids once, and notes whose place it changes, leaves    *)
(* the walk as it is                                                       *)
LEMMA WalkKept ==
  ASSUME Typed, Walked, UNCHANGED pagerVars, nextId' \in Nat, nextId <= nextId',
         moved \subseteq moved',
         \A i \in Ids' : i \notin Ids => nextId <= i,
         \A i \in Ids \intersect Ids' : PlaceOf(i)' = PlaceOf(i) \/ i \in moved'
  PROVE  Walked'
<1>1. \A i \in Ids' : i \in shown \union DOMAIN start => i \in Ids
  BY DEF Walked, Typed
<1>2. \A i \in Ids' \ moved' : i \in Ids => (Past(i)' <=> Past(i))
  <2> TAKE i \in Ids' \ moved'
  <2> HAVE i \in Ids
  <2>1. PlaceOf(i)' = PlaceOf(i) OBVIOUS
  <2>2. Past(i)' <=> Behind(page.sort, PlaceOf(i)', page.cursor) BY DEF Past, pagerVars
  <2> QED BY <2>1, <2>2 DEF Past
<1>3. shown' = shown /\ start' = start /\ again' = again /\ page' = page
  BY DEF pagerVars
<1>4. shown' \subseteq 1..(nextId' - 1) /\ DOMAIN start' \subseteq 1..(nextId' - 1)
  <2>1. nextId \in Nat BY DEF Typed
  <2>2. 1..(nextId - 1) \subseteq 1..(nextId' - 1) BY <2>1, IdsGrow
  <2> QED BY <1>3, <2>2 DEF Walked
<1>5. again' \subseteq moved' BY <1>3 DEF Walked
<1>6. page'.at = "next" => \A i \in (Ids' \intersect shown') \ moved' : ~Past(i)'
  BY <1>1, <1>2, <1>3 DEF Walked
<1>7. page'.at # "first" =>
        \A i \in (Ids' \intersect DOMAIN start') \ (shown' \union moved') : page'.at = "next" /\ Past(i)'
  BY <1>1, <1>2, <1>3 DEF Walked
<1>8. page'.at = "first" => shown' = {} /\ again' = {}
  BY <1>3 DEF Walked
<1> QED BY <1>4, <1>5, <1>6, <1>7, <1>8 DEF Walked

(* A step that touches no row, and of the requests only one                *)
LEMMA Untouched ==
  ASSUME IInv, UNCHANGED <<rows, nextId, disturbed, moved, cast, pagerVars>>,
         clock' \in Nat, DOMAIN pc' = Actors, DOMAIN loc' = Actors,
         \A a \in Actors : /\ {"order", "items", "existing", "ids"} \subseteq DOMAIN loc'[a]
                           /\ loc'[a].order \in Int,
         Looked'
  PROVE  IInv'
<1>1. Typed'
  BY DEF IInv, Typed, Ids, pagerVars
<1>2. Walked'
  <2>1. \A i \in Ids : PlaceOf(i)' = PlaceOf(i) BY DEF PlaceOf, pagerVars, Place
  <2> QED BY <2>1, WalkKept DEF IInv, Ids, Typed
<1> QED BY <1>1, <1>2 DEF IInv

(* A page moves the cursor past what it shows                              *)
LEMMA PageStep == ASSUME IInv, NEW a \in Actors, Page(a) PROVE IInv'
<1> DEFINE C == {i \in Ids : page.at = "first" \/ PastCursor(page.sort, page.cursor, PlaceOf(i))}
<1>1. /\ page.at # "end"
      /\ start' = IF page.at = "first" THEN rows ELSE start
      /\ moved' = IF page.at = "first" THEN {} ELSE moved
      /\ UNCHANGED <<rows, nextId, clock, cast, pc, loc, disturbed, overlap>>
  BY DEF Page
<1>2. PICK S \in SUBSET C :
       /\ FirstOf(page.sort, rows, C, S)
       /\ again' = again \union (shown \intersect S) /\ shown' = shown \union S
       /\ IF S = C THEN page' = [page EXCEPT !.at = "end"]
          ELSE \E last \in S :
                 /\ \A s \in S \ {last} : Behind(page.sort, PlaceOf(last), PlaceOf(s))
                 /\ page' = [page EXCEPT !.at = "next", !.cursor = PlaceOf(last)]
  BY DEF Page, PlaceOf
<1>3. C = {i \in Ids : page.at = "first" \/ Past(i)}
  BY CursorIsBehind DEF Past
<1> HIDE DEF C
<1>4. /\ page \in [sort : SortNames, at : {"first", "next", "end"}, cursor : Places]
      /\ page.sort \in SortNames /\ page.cursor \in Places /\ page.at \in {"first", "next"}
  BY <1>1 DEF IInv, Typed
<1>5. \A i \in Ids : PlaceOf(i) \in Places
  BY PlaceType DEF IInv
<1>6. /\ shown' \subseteq 1..(nextId' - 1) /\ DOMAIN start' \subseteq 1..(nextId' - 1)
  BY <1>1, <1>2, <1>3 DEF IInv, Typed, Walked, Ids
<1>7. again' \subseteq moved'
  <2>1. CASE page.at = "first" BY <2>1, <1>1, <1>2 DEF IInv, Walked
  <2>2. CASE page.at = "next"
    <3>1. \A i \in shown \intersect S : i \in moved BY <2>2, <1>2, <1>3 DEF IInv, Walked
    <3> QED BY <3>1, <2>2, <1>1, <1>2 DEF IInv, Walked
  <2> QED BY <2>1, <2>2, <1>4
<1>8. Looked'
  BY <1>1 DEF IInv, Looked
<1>9. CASE S = C
  <2>1. page' = [page EXCEPT !.at = "end"] /\ page'.at = "end" BY <1>2, <1>4, <1>9
  <2>2. \A i \in (Ids' \intersect DOMAIN start') \ (shown' \union moved') : FALSE
    <3>1. CASE page.at = "first" BY <3>1, <1>1, <1>2, <1>3, <1>9 DEF Ids
    <3>2. CASE page.at = "next" BY <3>2, <1>1, <1>2, <1>3, <1>9 DEF IInv, Walked, Ids
    <3> QED BY <3>1, <3>2, <1>4
  <2>3. Walked' BY <1>6, <1>7, <2>1, <2>2 DEF Walked
  <2>4. page' \in [sort : SortNames, at : {"first", "next", "end"}, cursor : Places]
    BY <2>1, <1>4
  <2>5. Typed' BY <1>1, <2>4 DEF IInv, Typed, Ids
  <2> QED BY <2>3, <2>5, <1>8 DEF IInv
<1>10. CASE S # C
  <2>1. PICK last \in S :
          /\ \A s \in S \ {last} : Behind(page.sort, PlaceOf(last), PlaceOf(s))
          /\ page' = [page EXCEPT !.at = "next", !.cursor = PlaceOf(last)]
    BY <1>2, <1>10
  <2>2. /\ page'.at = "next" /\ page'.cursor = PlaceOf(last) /\ page'.sort = page.sort
        /\ page' \in [sort : SortNames, at : {"first", "next", "end"}, cursor : Places]
        /\ last \in C /\ last \in Ids
    BY <2>1, <1>2, <1>3, <1>4, <1>5
  <2>3. \A i \in Ids : Past(i)' <=> Behind(page.sort, PlaceOf(i), PlaceOf(last))
    BY <2>2, <1>1 DEF Past, PlaceOf, Place
  <2>4. \A i \in (Ids' \intersect shown') \ moved' : ~Past(i)'
    <3> SUFFICES ASSUME NEW i \in Ids, i \in shown \union S, i \notin moved',
                        Behind(page.sort, PlaceOf(i), PlaceOf(last))
                 PROVE  FALSE
      BY <1>1, <1>2, <2>3 DEF Ids
    <3>1. CASE i \in S
      BY <3>1, <2>1, <2>2, <1>4, <1>5, BehindOrders
    <3>2. CASE i \notin S
      <4>1. page.at = "next" /\ ~Past(i) BY <3>2, <1>1, <1>4 DEF IInv, Walked
      <4>2. Past(last) BY <4>1, <2>2, <1>3
      <4> QED BY <4>1, <4>2, <2>2, <1>4, <1>5, BehindOrders DEF Past
    <3> QED BY <3>1, <3>2
  <2>5. \A i \in (Ids' \intersect DOMAIN start') \ (shown' \union moved') : Past(i)'
    <3> SUFFICES ASSUME NEW i \in Ids, i \in DOMAIN start', i \notin shown', i \notin moved'
                 PROVE  Behind(page.sort, PlaceOf(i), PlaceOf(last))
      BY <1>1, <2>3 DEF Ids
    <3>1. i \in C
      <4>1. CASE page.at = "first" BY <4>1, <1>3
      <4>2. CASE page.at = "next" BY <4>2, <1>1, <1>2, <1>3 DEF IInv, Walked
      <4> QED BY <4>1, <4>2, <1>4
    <3>2. i \notin S BY <1>2
    <3> QED BY <3>1, <3>2, <2>1, <1>2 DEF FirstOf, PlaceOf
  <2>6. Walked' BY <1>6, <1>7, <2>2, <2>4, <2>5 DEF Walked
  <2>7. Typed' BY <1>1, <2>2 DEF IInv, Typed, Ids
  <2> QED BY <2>6, <2>7, <1>8 DEF IInv
<1> QED BY <1>9, <1>10

--------------------------------------------------------------------------------
(* The other steps                                                         *)

(* What Looked and Typed ask of one request                                *)
Knows(a) ==
  cast[a] = "add" =>
    /\ pc[a] \in {"start", "order", "insert", "done"}
    /\ pc[a] \in {"order", "insert"} => Len(loc[a].items) = 1
    /\ pc[a] = "insert" /\ a \notin disturbed => loc[a].order = NextOrder(rows)
LocalTyped(a) == /\ {"order", "items", "existing", "ids"} \subseteq DOMAIN loc[a]
                 /\ loc[a].order \in Int

(* One request reads, or is over                                           *)
LEMMA OneReads ==
  ASSUME IInv, NEW a \in Actors, UNCHANGED <<rows, nextId, disturbed, moved, clock, cast, pagerVars>>,
         DOMAIN pc' = Actors, DOMAIN loc' = Actors,
         \A b \in Actors \ {a} : pc'[b] = pc[b] /\ loc'[b] = loc[b],
         Knows(a)', LocalTyped(a)'
  PROVE  IInv'
<1>1. \A b \in Actors : LocalTyped(b)'
  <2> TAKE b \in Actors
  <2>1. CASE b = a BY <2>1
  <2>2. CASE b # a BY <2>2 DEF LocalTyped, IInv, Typed
  <2> QED BY <2>1, <2>2
<1>2. \A b \in Actors : Knows(b)'
  <2> TAKE b \in Actors
  <2>1. CASE b = a BY <2>1
  <2>2. CASE b # a BY <2>2 DEF Knows, IInv, Looked
  <2> QED BY <2>1, <2>2
<1>3. Looked' BY <1>2 DEF Knows, Looked
<1>4. clock' \in Nat BY DEF IInv, Typed
<1> QED BY <1>1, <1>3, <1>4, Untouched DEF LocalTyped

(* Every step of a request that only reads the table                       *)
LEMMA ReadingStep ==
  ASSUME IInv, NEW a \in Actors,
         Ask(a) \/ Look(a) \/ ReadOrder(a) \/ ReadIds(a) \/ ReadAll(a) \/ Put(a) \/ Get(a)
           \/ Snapshot(a) \/ ListIds(a) \/ Fail(a)
  PROVE  IInv'
<1>0. /\ DOMAIN pc = Actors /\ DOMAIN loc = Actors /\ LocalTyped(a) /\ Knows(a)
  BY DEF IInv, Typed, LocalTyped, Looked, Knows
<1>1. /\ UNCHANGED <<rows, nextId, disturbed, moved, clock, cast, pagerVars>>
      /\ DOMAIN pc' = Actors /\ DOMAIN loc' = Actors
      /\ \A b \in Actors \ {a} : pc'[b] = pc[b] /\ loc'[b] = loc[b]
  BY <1>0 DEF Ask, Look, ReadOrder, ReadIds, ReadAll, Put, Get, Snapshot, ListIds, Fail, Unwritten,
       Same, Goto, syncVars, pagerVars
<1>2. LocalTyped(a)'
  <2>1. NextOrder(rows) \in Int BY NextOrderFirst DEF IInv
  <2> QED BY <1>0, <2>1 DEF LocalTyped, Ask, Look, ReadOrder, ReadIds, ReadAll, Put, Get, Snapshot, ListIds,
            Fail, Unwritten, Same, Goto, syncVars
<1>3. Knows(a)'
  <2>1. CASE Ask(a)
    BY <2>1, <1>0, <1>1 DEF Ask, Goto, Knows, LocalTyped
  <2>2. CASE Look(a)
    BY <2>2, <1>0, <1>1 DEF Look, Goto, Knows
  <2>3. CASE ReadOrder(a)
    BY <2>3, <1>0, <1>1 DEF ReadOrder, Goto, Knows, LocalTyped
  <2>4. CASE ReadIds(a) \/ ReadAll(a) \/ Get(a) \/ Fail(a)
    BY <2>4, <1>1 DEF ReadIds, ReadAll, Get, Fail, Knows
  <2>5. CASE Put(a) \/ Snapshot(a) \/ ListIds(a)
    BY <2>5, <1>0, <1>1 DEF Put, Snapshot, ListIds, Knows
  <2> QED BY <2>1, <2>2, <2>3, <2>4, <2>5
<1> QED BY <1>1, <1>2, <1>3, OneReads

(* The clock touches nobody                                                *)
LEMMA TickStep == ASSUME IInv, Tick PROVE IInv'
<1>1. UNCHANGED <<rows, nextId, disturbed, moved, cast, pagerVars, pc, loc>> /\ clock' = clock + 1
  BY DEF Tick, Unwritten
<1>2. clock' \in Nat BY <1>1 DEF IInv, Typed
<1>3. Looked' BY <1>1 DEF IInv, Looked
<1> QED BY <1>1, <1>2, <1>3, Untouched DEF IInv, Typed

(* Whoever writes disturbs everybody who is busy, so nobody is left that   *)
(* believes in an order                                                    *)
LEMMA WritingStep ==
  ASSUME IInv, NEW a \in Actors, Disturb(a), UNCHANGED <<cast, loc>>, DOMAIN pc' = Actors,
         \A b \in Actors \ {a} : pc'[b] = pc[b],
         cast[a] = "add" => pc'[a] = "done"
  PROVE  Looked'
<1> SUFFICES ASSUME NEW b \in Actors, cast[b] = "add" PROVE Knows(b)'
  BY DEF Looked, Knows
<1>1. CASE b = a BY <1>1 DEF Knows
<1>2. CASE b # a
  <2>1. pc'[b] = "insert" => b \in disturbed' BY <1>2 DEF Disturb, Busy
  <2> QED BY <1>2, <2>1 DEF Knows, IInv, Looked
<1> QED BY <1>1, <1>2

(* Rows go                                                                 *)
LEMMA Removal ==
  ASSUME IInv, NEW ids, rows' = Without(ids), UNCHANGED <<nextId, clock, moved, loc, pagerVars>>,
         DOMAIN pc' = Actors
  PROVE  Typed' /\ Walked'
<1>1. Ids' \subseteq Ids /\ \A i \in Ids' : rows'[i] = rows[i]
  BY DEF Without, Ids
<1>2. Typed'
  BY <1>1 DEF IInv, Typed, pagerVars
<1>3. \A i \in Ids' : PlaceOf(i)' = PlaceOf(i)
  BY <1>1 DEF PlaceOf, Place, pagerVars
<1>4. nextId \in Nat BY DEF IInv, Typed
<1>5. Walked'
  BY <1>1, <1>3, <1>4, WalkKept DEF IInv
<1> QED BY <1>2, <1>5

(* Deleting keeps the invariant                                            *)
LEMMA DeleteStep == ASSUME IInv, NEW a \in Actors, Delete(a) PROVE IInv'
<1>1. PICK ids \in SUBSET Ids : rows' = Without(ids)
  BY DEF Delete
<1>2. UNCHANGED <<nextId, clock, moved, loc, pagerVars>> /\ DOMAIN pc' = Actors
  BY DEF Delete, Goto, IInv, Typed
<1>3. Typed' /\ Walked' BY <1>1, <1>2, Removal
<1>4. Looked'
  BY <1>2, WritingStep DEF Delete, Goto, IInv, Typed
<1> QED BY <1>3, <1>4 DEF IInv

(* So does the wipe of a replace                                           *)
LEMMA WipeStep == ASSUME IInv, NEW a \in Actors, Wipe(a) PROVE IInv'
<1>1. rows' = Without(Range(loc[a].ids))
  BY DEF Wipe
<1>2. UNCHANGED <<nextId, clock, moved, loc, pagerVars, cast>> /\ DOMAIN pc' = Actors
  BY DEF Wipe, Same, Goto, IInv, Typed
<1>3. Typed' /\ Walked' BY <1>1, <1>2, Removal
<1>4. cast[a] # "add" BY DEF Wipe, IInv, Looked
<1>5. Looked'
  BY <1>2, <1>4, WritingStep DEF Wipe, Goto, IInv, Typed
<1> QED BY <1>3, <1>5 DEF IInv

(* So does a move: what changes its place is noted as moved                *)
LEMMA RenumberStep == ASSUME IInv, NEW a \in Actors, Renumber(a) PROVE IInv'
<1>1. PICK ids : rows' = Renumbered(ids)
  BY DEF Renumber
<1>2. /\ UNCHANGED <<nextId, clock, cast, loc, pagerVars>> /\ DOMAIN pc' = Actors
      /\ moved' = moved \union {i \in Ids : Place(page.sort, rows', i) # Place(page.sort, rows, i)}
  BY DEF Renumber, Goto, IInv, Typed
<1>3. /\ Ids' = Ids
      /\ \A i \in Ids : /\ {"order", "created"} \subseteq DOMAIN rows'[i]
                        /\ rows'[i].order \in Int /\ rows'[i].created \in Int
  <2>1. Ids' = Ids BY <1>1 DEF Renumbered, Ids
  <2> SUFFICES ASSUME NEW i \in Ids
               PROVE  /\ {"order", "created"} \subseteq DOMAIN rows'[i]
                      /\ rows'[i].order \in Int /\ rows'[i].created \in Int
    BY <2>1
  <2>2. /\ {"order", "created"} \subseteq DOMAIN rows[i] /\ rows[i].order \in Int /\ rows[i].created \in Int
    BY DEF IInv, Typed
  <2>3. CASE Positions(ids, i) = {} BY <2>2, <2>3, <1>1 DEF Renumbered
  <2>4. CASE Positions(ids, i) # {}
    <3> DEFINE n == CHOOSE m \in Positions(ids, i) : TRUE
    <3>1. n \in Int BY <2>4, BoundsAssumption DEF Positions
    <3>2. rows'[i] = [rows[i] EXCEPT !.order = 10 * n] BY <2>4, <1>1 DEF Renumbered
    <3> HIDE DEF n
    <3> QED BY <2>2, <3>1, <3>2
  <2> QED BY <2>3, <2>4
<1>4. Typed'
  BY <1>2, <1>3 DEF IInv, Typed, pagerVars
<1>5. nextId \in Nat /\ nextId' = nextId /\ moved \subseteq moved' BY <1>2 DEF IInv, Typed
<1>6. \A i \in Ids \intersect Ids' : PlaceOf(i)' = PlaceOf(i) \/ i \in moved'
  BY <1>2 DEF PlaceOf, pagerVars
<1>7. Walked'
  BY <1>2, <1>3, <1>5, <1>6, WalkKept DEF IInv
<1>8. cast[a] # "add" BY DEF Renumber, IInv, Looked
<1>9. Looked'
  BY <1>2, <1>8, WritingStep DEF Renumber, Goto, IInv, Typed
<1> QED BY <1>4, <1>7, <1>9 DEF IInv

(* So does an insertion, which takes ids that no row has had               *)
LEMMA InsertStep ==
  ASSUME IInv, NEW a \in Actors, Insert(a, IF cast[a] = "replace" THEN "replaced" ELSE "done")
  PROVE  IInv'
<1> DEFINE pairs == IF cast[a] = "add" THEN loc[a].items ELSE Fresh(loc[a].items, loc[a].existing)
           new == nextId..(nextId' - 1)
<1>1. /\ nextId' = nextId + Len(pairs) /\ nextId' \in nextId..(MaxId + 1)
      /\ rows' = With(a, pairs, new)
      /\ UNCHANGED <<clock, cast, loc, pagerVars, moved>> /\ DOMAIN pc' = Actors
  BY DEF Insert, Goto, IInv, Typed
<1> HIDE DEF pairs
<1>2. nextId \in Nat \ {0} /\ nextId' \in Nat \ {0} /\ nextId <= nextId'
  BY <1>1, BoundsAssumption DEF IInv, Typed
<1>4. /\ Ids' = Ids \union new
      /\ \A i \in Ids : rows'[i] = rows[i]
      /\ \A i \in Ids' \ Ids :
           /\ i \in new
           /\ rows'[i] = [pair |-> pairs[i - nextId + 1], order |-> loc[a].order + 10 * (i - nextId),
                          created |-> clock, by |-> a]
  <2> HIDE DEF new
  <2> QED BY <1>1 DEF With, Ids
<1> HIDE DEF new
<1>5. \A i \in new : i \in Int /\ nextId <= i /\ i <= nextId' - 1 BY <1>2, InRange DEF new
<1>6. \A i \in Ids' : /\ {"order", "created"} \subseteq DOMAIN rows'[i]
                      /\ rows'[i].order \in Int /\ rows'[i].created \in Int
  <2> TAKE i \in Ids'
  <2>1. CASE i \in Ids BY <2>1, <1>4 DEF IInv, Typed
  <2>2. CASE i \notin Ids
    <3>1. i - nextId \in Int /\ loc[a].order \in Int /\ clock \in Int
      BY <2>2, <1>2, <1>4, <1>5 DEF IInv, Typed
    <3>2. loc[a].order + 10 * (i - nextId) \in Int BY <3>1
    <3>3. rows'[i] = [pair |-> pairs[i - nextId + 1], order |-> loc[a].order + 10 * (i - nextId),
                      created |-> clock, by |-> a]
      BY <2>2, <1>4
    <3>4. /\ rows'[i].order = loc[a].order + 10 * (i - nextId) /\ rows'[i].created = clock
          /\ {"order", "created"} \subseteq DOMAIN rows'[i]
      BY <3>3
    <3> QED BY <3>1, <3>2, <3>4
  <2> QED BY <2>1, <2>2
<1>7. Ids' \subseteq 1..(nextId' - 1)
  <2>1. Ids \subseteq 1..(nextId' - 1) BY <1>2, IdsGrow DEF IInv, Typed
  <2>2. new \subseteq 1..(nextId' - 1) BY <1>2, <1>5
  <2> QED BY <2>1, <2>2, <1>4
<1>8. Typed'
  BY <1>1, <1>2, <1>6, <1>7 DEF IInv, Typed, pagerVars
<1>9. \A i \in Ids : PlaceOf(i)' = PlaceOf(i)
  BY <1>1, <1>4 DEF PlaceOf, Place, pagerVars
<1>10. Walked'
  BY <1>1, <1>2, <1>4, <1>5, <1>9, WalkKept DEF IInv
<1>11. Looked'
  BY <1>1, WritingStep DEF Insert, Goto, IInv, Typed
<1> QED BY <1>8, <1>10, <1>11 DEF IInv

--------------------------------------------------------------------------------
(* Every step keeps the invariant of the walk                              *)
LEMMA Invariance == Spec => []IInv
<1>1. IInv /\ [Next]_allVars => IInv'
  <2> SUFFICES ASSUME IInv, [Next]_allVars PROVE IInv'
    OBVIOUS
  <2>1. ASSUME NEW a \in Actors, TableStep(a) PROVE IInv'
    BY <2>1, ReadingStep, RenumberStep, DeleteStep, PageStep DEF TableStep
  <2>2. ASSUME NEW a \in Actors, Insert(a, IF cast[a] = "replace" THEN "replaced" ELSE "done") PROVE IInv'
    BY <2>2, InsertStep
  <2>3. ASSUME NEW a \in Actors, SyncStep(a) PROVE IInv'
    BY <2>3, ReadingStep, WipeStep DEF SyncStep
  <2>4. CASE Tick BY <2>4, TickStep
  <2>5. CASE UNCHANGED allVars
    BY <2>5 DEF allVars, vars, pagerVars, IInv, Typed, Walked, Looked, Ids, Past, PlaceOf
  <2> QED BY <2>1, <2>2, <2>3, <2>4, <2>5 DEF Next
<1> QED BY <1>1, InitInv, PTL DEF Spec

(* A walk through the pages by cursor shows every row that stays in its    *)
(* place exactly once, in each of the three orders, however many rows      *)
(* requests add, move and delete between the pages (list_keys_page)        *)
THEOREM WalkComplete == Spec => []WalkShowsAll
<1>1. IInv => WalkShowsAll
  BY DEF IInv, Walked, WalkShowsAll
<1> QED BY <1>1, Invariance, PTL

(* A key that is added alone comes before all that are there, unless       *)
(* another request wrote in between (add_key, _next_sort_order)            *)
THEOREM AddedIsFirst == Spec => AddedComesFirst
<1> DEFINE First == \A a \in Actors :
       cast[a] = "add" /\ pc[a] = "insert" /\ pc'[a] # "insert" /\ a \notin disturbed => Alone(a)
<1>1. IInv /\ [Next]_allVars => First
  <2> SUFFICES ASSUME IInv, [Next]_allVars, NEW a \in Actors,
                      cast[a] = "add", pc[a] = "insert", pc'[a] # "insert", a \notin disturbed
               PROVE  Alone(a)
    OBVIOUS
  <2>1. Insert(a, "done")
    <3>1. \A b \in Actors : TableStep(b) => b = a
      BY DEF TableStep, Ask, Look, ReadOrder, ReadIds, Renumber, Delete, Page, Goto, IInv, Typed
    <3>2. ~TableStep(a)
      BY DEF TableStep, Ask, Look, ReadOrder, ReadIds, Renumber, Delete, Page
    <3>3. \A b \in Actors : SyncStep(b) => b = a
      BY DEF SyncStep, ReadAll, Put, Get, Snapshot, ListIds, Wipe, Fail, Goto, IInv, Typed
    <3>4. ~SyncStep(a)
      BY DEF SyncStep, ReadAll, Put, Get, Snapshot, ListIds, Wipe, Fail
    <3>5. \A b \in Actors : \A l : Insert(b, l) => b = a
      BY DEF Insert, Goto, IInv, Typed
    <3>6. ~Tick /\ ~UNCHANGED allVars BY DEF Tick, allVars, vars
    <3> QED BY <3>1, <3>2, <3>3, <3>4, <3>5, <3>6 DEF Next
  <2>2. /\ Len(loc[a].items) = 1 /\ loc[a].order = NextOrder(rows)
        /\ nextId \in Nat /\ Ids \subseteq 1..(nextId - 1)
    BY DEF IInv, Typed, Looked
  <2>3. nextId' = nextId + 1 /\ rows' = With(a, loc[a].items, nextId..(nextId' - 1))
    BY <2>1, <2>2 DEF Insert
  <2>4. nextId..(nextId' - 1) = {nextId} BY <2>2, <2>3
  <2>5. /\ Ids' = Ids \union {nextId} /\ nextId \notin Ids
        /\ \A i \in Ids : rows'[i] = rows[i]
        /\ rows'[nextId].order = loc[a].order + 10 * (nextId - nextId)
    BY <2>2, <2>3, <2>4 DEF With, Ids
  <2>6. rows'[nextId].order = NextOrder(rows) BY <2>2, <2>5, NextOrderFirst DEF IInv
  <2>7. /\ NextOrder(rows) \in Int /\ NextOrder(rows) # 0
        /\ \A j \in Ids : rows[j].order # 0 => NextOrder(rows) < rows[j].order
    BY NextOrderFirst DEF IInv
  <2>8. \A j \in Ids : Behind("default", Place("default", rows', j), Place("default", rows', nextId))
    <3> TAKE j \in Ids
    <3>1. rows[j].order \in Int BY DEF IInv, Typed
    <3> QED BY <3>1, <2>5, <2>6, <2>7 DEF Behind, Place
  <2> QED BY <2>5, <2>8 DEF Alone
<1>2. First => [First]_vars OBVIOUS
<1>3. AddedComesFirst <=> [][First]_vars BY DEF AddedComesFirst
<1> HIDE DEF First
<1> QED BY <1>1, <1>2, <1>3, Invariance, PTL DEF Spec
--------------------------------------------------------------------------------
(* What is listed                                                          *)

(* In the order of the list one of two places comes first                  *)
LEMMA BehindTotal ==
  ASSUME NEW x \in Places, NEW y \in Places, x.id # y.id
  PROVE  Behind("default", x, y) \/ Behind("default", y, x)
BY DEF Behind, Places

(* The list of a table has all of its rows, in their order                 *)
LEMMA ListedAll ==
  ASSUME NEW t, IsFiniteSet(DOMAIN t), DOMAIN t \subseteq Nat, \A i \in DOMAIN t : t[i].order \in Int
  PROVE  /\ Cardinality(DOMAIN t) \in Nat
         /\ Orders(Precedes(t), DOMAIN t)
         /\ Lists(Listed(t), Cardinality(DOMAIN t), DOMAIN t, Precedes(t))
<1> DEFINE P(i) == Place("default", t, i)
<1>1. \A i \in DOMAIN t : P(i) \in Places /\ P(i).id = i
  BY DEF Place, Places
<1>2. "default" \in SortNames BY DEF SortNames
<1>3. \A i, j \in DOMAIN t : <<i, j>> \in Precedes(t) <=> Behind("default", P(j), P(i))
  BY DEF Precedes
<1> HIDE DEF P
<1>4. Orders(Precedes(t), DOMAIN t)
  <2>1. \A x \in DOMAIN t : <<x, x>> \notin Precedes(t) BY <1>1, <1>2, <1>3, BehindOrders
  <2>2. \A x, y, z \in DOMAIN t :
          <<x, y>> \in Precedes(t) /\ <<y, z>> \in Precedes(t) => <<x, z>> \in Precedes(t)
    BY <1>1, <1>2, <1>3, BehindOrders
  <2>3. \A x, y \in DOMAIN t : x = y \/ <<x, y>> \in Precedes(t) \/ <<y, x>> \in Precedes(t)
    BY <1>1, <1>3, BehindTotal
  <2> QED BY <2>1, <2>2, <2>3 DEF Orders
<1> QED BY <1>4, InOrderSorts DEF Listed

(* The pairs of a list are those of its table                              *)
LEMMA ContentAll ==
  ASSUME NEW t, IsFiniteSet(DOMAIN t), DOMAIN t \subseteq Nat, \A i \in DOMAIN t : t[i].order \in Int,
         \A i \in DOMAIN t : t[i].pair \in Pairs
  PROVE  /\ Content(t) \in Seq(Pairs) /\ Range(Content(t)) = PairsOf(t)
         /\ Range(Listed(t)) = DOMAIN t
<1>1. PICK n \in Nat : Lists(Listed(t), n, DOMAIN t, Precedes(t))
  BY ListedAll
<1>2. Listed(t) \in [1..n -> DOMAIN t] /\ \A i \in DOMAIN t : \E k \in 1..n : Listed(t)[k] = i
  BY <1>1 DEF Lists
<1>3. Content(t) = [k \in 1..n |-> t[Listed(t)[k]].pair]
  BY <1>2 DEF Content
<1>4. Content(t) \in [1..n -> Pairs] BY <1>2, <1>3
<1>5. Content(t) \in Seq(Pairs) BY <1>4
<1>6. Range(Listed(t)) = DOMAIN t BY <1>2 DEF Range
<1>7. Range(Content(t)) = PairsOf(t)
  <2>1. \A i \in DOMAIN t : \E k \in 1..n : Content(t)[k] = t[i].pair BY <1>2, <1>3
  <2>2. \A k \in 1..n : Content(t)[k] \in PairsOf(t) BY <1>2, <1>3 DEF PairsOf
  <2> QED BY <2>1, <2>2, <1>4 DEF Range, PairsOf
<1> QED BY <1>5, <1>6, <1>7

(* What an import adds: pairs it has not seen, each once                   *)
LEMMA FreshOnce ==
  ASSUME NEW items \in Seq(Pairs), NEW existing
  PROVE  /\ Fresh(items, existing) \in Seq(Pairs)
         /\ \A k \in 1..Len(Fresh(items, existing)) : Fresh(items, existing)[k] \notin existing
         /\ \A j, k \in 1..Len(Fresh(items, existing)) :
              j # k => Fresh(items, existing)[j] # Fresh(items, existing)[k]
<1> DEFINE new == Firsts(items, existing)
           R == {mn \in new \X new : mn[1] < mn[2]}
           order == InOrder(new, R)
<1>1. new \subseteq 1..Len(items) /\ Len(items) \in Nat BY DEF Firsts
<1>2. IsFiniteSet(new) /\ new \subseteq Int
  <2>1. IsFiniteSet(1..Len(items)) BY <1>1, FS_Interval
  <2> HIDE DEF new
  <2>2. IsFiniteSet(new) BY <2>1, <1>1, FS_Subset
  <2>3. new \subseteq Int BY <1>1
  <2> QED BY <2>2, <2>3
<1>3. \A n \in new : items[n] \in Pairs /\ items[n] \notin existing /\ \A m \in 1..(n - 1) : items[m] # items[n]
  BY <1>1 DEF Firsts
<1> HIDE DEF new
<1>4. \A x, y \in new : x < y => x \in 1..(y - 1) BY <1>1
<1>5. \A x, y \in new : <<x, y>> \in R <=> x < y OBVIOUS
<1> HIDE DEF R
<1>6. Orders(R, new) BY <1>2, <1>5 DEF Orders
<1>7. PICK n \in Nat : Lists(order, n, new, R)
  BY <1>2, <1>6, InOrderSorts
<1>8. Fresh(items, existing) = [k \in DOMAIN order |-> items[order[k]]]
  BY DEF Fresh, new, R
<1> HIDE DEF order
<1>9. order \in [1..n -> new] /\ \A j, k \in 1..n : j < k => order[j] < order[k]
  BY <1>5, <1>7 DEF Lists
<1>10. Fresh(items, existing) \in [1..n -> Pairs] /\ \A k \in 1..n : Fresh(items, existing)[k] = items[order[k]]
  BY <1>3, <1>8, <1>9
<1>11. Fresh(items, existing) \in Seq(Pairs) /\ Len(Fresh(items, existing)) = n
  BY <1>10
<1>12. \A j, k \in 1..n : j < k => items[order[j]] # items[order[k]]
  <2> TAKE j \in 1..n, k \in 1..n
  <2> HAVE j < k
  <2>1. order[j] \in new /\ order[k] \in new /\ order[j] < order[k] BY <1>9
  <2>2. order[j] \in 1..(order[k] - 1) BY <2>1, <1>4
  <2> QED BY <2>1, <2>2, <1>3
<1>13. \A j, k \in 1..n : j # k => items[order[j]] # items[order[k]]
  <2> TAKE j \in 1..n, k \in 1..n
  <2> HAVE j # k
  <2>1. j < k \/ k < j OBVIOUS
  <2> QED BY <2>1, <1>12
<1> QED BY <1>3, <1>9, <1>10, <1>11, <1>13

--------------------------------------------------------------------------------
(* What is in the table, and who knows it                                  *)

(* Rows, files and what a request brings are made of pairs                 *)
Stored ==
  /\ \A i \in Ids : {"pair", "by"} \subseteq DOMAIN rows[i] /\ rows[i].pair \in Pairs
  /\ \A a \in Actors : loc[a].items \in Seq(Pairs)
  /\ remote \subseteq Seq(Pairs)
  /\ DOMAIN backup = Actors /\ DOMAIN before = Actors
  /\ \A a \in Actors : before[a] \in 0..nextId

(* An import between its look and its insertion: two of them overlap, and  *)
(* what one has inserted the other has seen, or they overlap               *)
Importing(a) == cast[a] # "add" /\ pc[a] \in Ordering
Seen ==
  /\ \A a, b \in Actors : a # b /\ Importing(a) /\ Importing(b) => {a, b} \in overlap
  /\ \A b \in Actors : Importing(b) =>
       \A i \in Ids : Batch(rows[i].by) =>
         rows[i].pair \in loc[b].existing \/ {rows[i].by, b} \in overlap
  /\ DuplicatesNeedOverlap

(* A replace that has not wiped yet has the old rows in its snapshot       *)
Copied ==
  /\ \A a \in Actors : pc[a] \in {"list", "wipe"} =>
       \A i \in Ids : i < before[a] => \A file \in backup[a] : rows[i].pair \in Range(file)
  /\ \A i \in DOMAIN dropped :
       dropped[i].by \in Actors /\ pc[dropped[i].by] \notin {"start", "snapshot", "list", "wipe"}
  /\ ReplaceKeepsACopy

(* A replace that nobody has disturbed finds the table as it left it       *)
Left(a) ==
  /\ pc[a] = "wipe" => Ids \subseteq Range(loc[a].ids)
  /\ cast[a] = "replace" /\ pc[a] = "look" => Ids = {}
  /\ cast[a] = "replace" /\ pc[a] \in Ordering => Ids = {} /\ loc[a].existing = {}
  /\ cast[a] = "replace" /\ pc[a] = "insert" => loc[a].order = 10
  /\ pc[a] = "replaced" => Content(rows) = Fresh(loc[a].items, {})
Emptied == \A a \in Actors : a \notin disturbed => Left(a)

SInv == IInv /\ Stored /\ Seen /\ Copied /\ Emptied

--------------------------------------------------------------------------------
(* What a step of a request does to the table                              *)

After(a) == IF cast[a] = "replace" THEN "replaced" ELSE "done"
Adding(a) == Insert(a, After(a)) /\ UNCHANGED syncVars
StepOf(a) == (TableStep(a) /\ UNCHANGED syncVars) \/ Adding(a) \/ SyncStep(a)
Brought(a) == IF cast[a] = "add" THEN loc[a].items ELSE Fresh(loc[a].items, loc[a].existing)

(* Rows stay or go, and those that stay keep their pair                    *)
Kept ==
  /\ nextId' = nextId /\ Ids' \subseteq Ids
  /\ \A i \in Ids' : /\ {"pair", "by"} \subseteq DOMAIN rows'[i]
                     /\ rows'[i].pair = rows[i].pair /\ rows'[i].by = rows[i].by

(* The rows are a finite table                                             *)
LEMMA FiniteTable ==
  ASSUME Typed PROVE IsFiniteSet(Ids) /\ Ids \subseteq Nat /\ \A i \in Ids : rows[i].order \in Int
<1>1. IsFiniteSet(1..(nextId - 1)) BY FS_Interval DEF Typed
<1>2. IsFiniteSet(Ids) BY <1>1, FS_Subset DEF Typed
<1>3. Ids \subseteq Nat BY DEF Typed
<1> QED BY <1>2, <1>3 DEF Typed

(* One acts, the others stay where they are                                *)
LEMMA OneActs ==
  ASSUME IInv, NEW a \in Actors, StepOf(a)
  PROVE  /\ cast' = cast /\ DOMAIN pc = Actors /\ DOMAIN loc = Actors
         /\ \A b \in Actors \ {a} : pc'[b] = pc[b] /\ loc'[b] = loc[b]
<1>1. DOMAIN pc = Actors /\ DOMAIN loc = Actors BY DEF IInv, Typed
<1>2. CASE TableStep(a)
  BY <1>1, <1>2 DEF TableStep, Ask, Look, ReadOrder, ReadIds, Renumber, Delete, Page, Goto
<1>3. CASE Adding(a)
  BY <1>1, <1>3 DEF Adding, Insert, Goto
<1>4. CASE SyncStep(a)
  BY <1>1, <1>4 DEF SyncStep, ReadAll, Put, Get, Snapshot, ListIds, Wipe, Fail, Goto, Same
<1> QED BY <1>1, <1>2, <1>3, <1>4 DEF StepOf

(* Whoever does not insert keeps the pairs                                 *)
LEMMA KeepsPairs ==
  ASSUME IInv, Stored, NEW a \in Actors, TableStep(a) \/ SyncStep(a)
  PROVE  Kept
<1>1. ASSUME NEW ids, rows' = Without(ids), nextId' = nextId PROVE Kept
  BY <1>1 DEF Without, Kept, Stored, Ids
<1>2. ASSUME NEW ids, rows' = Renumbered(ids), nextId' = nextId PROVE Kept
  <2>1. Ids' = Ids BY <1>2 DEF Renumbered, Ids
  <2>2. ASSUME NEW i \in Ids
        PROVE  /\ {"pair", "by"} \subseteq DOMAIN rows'[i]
               /\ rows'[i].pair = rows[i].pair /\ rows'[i].by = rows[i].by
    <3>1. {"pair", "by"} \subseteq DOMAIN rows[i] BY DEF Stored
    <3>2. rows'[i] = rows[i] \/ \E o : rows'[i] = [rows[i] EXCEPT !.order = o] BY <1>2 DEF Renumbered
    <3> QED BY <3>1, <3>2
  <2> QED BY <1>2, <2>1, <2>2 DEF Kept
<1>3. ASSUME rows' = rows, nextId' = nextId PROVE Kept
  BY <1>3 DEF Kept, Stored, Ids
<1>4. CASE Renumber(a) BY <1>2, <1>4 DEF Renumber
<1>5. CASE Delete(a) BY <1>1, <1>5 DEF Delete
<1>6. CASE Wipe(a) BY <1>1, <1>6 DEF Wipe
<1>7. CASE Ask(a) \/ Look(a) \/ ReadOrder(a) \/ ReadIds(a) \/ Page(a) \/ ReadAll(a) \/ Put(a) \/ Get(a)
             \/ Snapshot(a) \/ ListIds(a) \/ Fail(a)
  BY <1>3, <1>7 DEF Ask, Look, ReadOrder, ReadIds, Page, ReadAll, Put, Get, Snapshot, ListIds, Fail, Unwritten
<1> QED BY <1>4, <1>5, <1>6, <1>7 DEF TableStep, SyncStep

(* What an insertion adds                                                  *)
LEMMA Adds ==
  ASSUME IInv, Stored, NEW a \in Actors, Adding(a)
  PROVE  /\ Brought(a) \in Seq(Pairs) /\ Len(Brought(a)) \in Nat
         /\ nextId' = nextId + Len(Brought(a))
         /\ Ids' = Ids \union nextId..(nextId' - 1)
         /\ \A i \in Ids : rows'[i] = rows[i]
         /\ \A i \in nextId..(nextId' - 1) :
              /\ i \in Int /\ i >= nextId /\ i \notin Ids
              /\ i - nextId + 1 \in 1..Len(Brought(a))
              /\ rows'[i] = [pair |-> Brought(a)[i - nextId + 1], order |-> loc[a].order + 10 * (i - nextId),
                             created |-> clock, by |-> a]
<1>1. Brought(a) \in Seq(Pairs) BY FreshOnce DEF Brought, Stored
<1>2. Len(Brought(a)) \in Nat BY <1>1
<1>3. nextId' = nextId + Len(Brought(a)) /\ rows' = With(a, Brought(a), nextId..(nextId' - 1))
  BY DEF Adding, Insert, Brought
<1>4. nextId \in Nat /\ Ids \subseteq 1..(nextId - 1) BY DEF IInv, Typed
<1> HIDE DEF Brought
<1>5. \A i \in nextId..(nextId' - 1) : /\ i \in Int /\ i >= nextId /\ i \notin Ids
                                       /\ i - nextId + 1 \in 1..Len(Brought(a))
  BY <1>2, <1>3, <1>4
<1> DEFINE new == nextId..(nextId' - 1)
<1>6. \A i \in new : i \notin Ids BY <1>5
<1>7. rows' = With(a, Brought(a), new) BY <1>3
<1> HIDE DEF new
<1>8. Ids' = Ids \union new BY <1>7 DEF With, Ids
<1>9. \A i \in Ids : rows'[i] = rows[i] BY <1>7 DEF With, Ids
<1>10. \A i \in new :
         rows'[i] = [pair |-> Brought(a)[i - nextId + 1], order |-> loc[a].order + 10 * (i - nextId),
                     created |-> clock, by |-> a]
  BY <1>6, <1>7 DEF With
<1> QED BY <1>1, <1>2, <1>3, <1>5, <1>8, <1>9, <1>10 DEF new

(* Each of the new rows                                                    *)
LEMMA NewRow ==
  ASSUME IInv, Stored, NEW a \in Actors, Adding(a), NEW i \in Ids', i \notin Ids
  PROVE  /\ i \in Int /\ i >= nextId /\ i - nextId + 1 \in 1..Len(Brought(a))
         /\ {"pair", "by"} \subseteq DOMAIN rows'[i]
         /\ rows'[i].pair = Brought(a)[i - nextId + 1] /\ rows'[i].pair \in Pairs
         /\ rows'[i].by = a /\ rows'[i].order = loc[a].order + 10 * (i - nextId)
<1>1. Brought(a) \in Seq(Pairs) /\ Ids' = Ids \union nextId..(nextId' - 1) BY Adds
<1>2. i \in nextId..(nextId' - 1) BY <1>1
<1>3. /\ i \in Int /\ i >= nextId /\ i - nextId + 1 \in 1..Len(Brought(a))
      /\ rows'[i] = [pair |-> Brought(a)[i - nextId + 1], order |-> loc[a].order + 10 * (i - nextId),
                     created |-> clock, by |-> a]
  BY <1>2, Adds
<1> DEFINE k == i - nextId + 1
<1>4. k \in 1..Len(Brought(a)) BY <1>3
<1> HIDE DEF k
<1>5. Brought(a)[k] \in Pairs BY <1>1, <1>4
<1>6. rows'[i].pair = Brought(a)[k] BY <1>3 DEF k
<1>7. /\ {"pair", "by"} \subseteq DOMAIN rows'[i] /\ rows'[i].by = a
      /\ rows'[i].order = loc[a].order + 10 * (i - nextId)
  BY <1>3
<1> QED BY <1>3, <1>5, <1>6, <1>7 DEF k

(* Who changes the table disturbs the others that are busy                 *)
LEMMA Disturbs ==
  ASSUME IInv, NEW a \in Actors, StepOf(a)
  PROVE  /\ disturbed \subseteq disturbed'
         /\ \A b \in Actors \ {a} : pc[b] \notin {"start", "done"} => rows' = rows \/ b \in disturbed'
<1>1. CASE Renumber(a) \/ Delete(a) \/ Adding(a) \/ Wipe(a)
  BY <1>1 DEF Renumber, Delete, Adding, Insert, Wipe, Disturb, Busy
<1>2. CASE Ask(a) \/ Look(a) \/ ReadOrder(a) \/ ReadIds(a) \/ Page(a) \/ ReadAll(a) \/ Put(a) \/ Get(a)
             \/ Snapshot(a) \/ ListIds(a) \/ Fail(a)
  BY <1>2 DEF Ask, Look, ReadOrder, ReadIds, Page, ReadAll, Put, Get, Snapshot, ListIds, Fail, Unwritten
<1> QED BY <1>1, <1>2 DEF StepOf, TableStep, SyncStep

--------------------------------------------------------------------------------
(* The steps keep what is stored                                           *)

(* The start holds pairs                                                   *)
LEMMA StoredInit == Init => Stored
<1> SUFFICES ASSUME Init PROVE Stored
  OBVIOUS
<1>1. \A t \in Tables : \A i \in DOMAIN t : {"pair", "by"} \subseteq DOMAIN t[i] /\ t[i].pair \in Pairs
  <2> TAKE t \in Tables
  <2>1. CASE t = <<>> BY <2>1
  <2>2. CASE \E p \in Pairs : t = [i \in {1} |-> OldRow(p, 0)] BY <2>2 DEF OldRow
  <2>3. CASE \E f \in [{1, 2} -> Pairs], o \in {<<0, 0>>, <<20, 10>>} :
               t = [i \in {1, 2} |-> OldRow(f[i], o[i])]
    BY <2>3 DEF OldRow
  <2> QED BY <2>1, <2>2, <2>3 DEF Tables
<1>2. \A i \in Ids : {"pair", "by"} \subseteq DOMAIN rows[i] /\ rows[i].pair \in Pairs
  BY <1>1 DEF Init, TableInit, Ids
<1>3. \A a \in Actors : loc[a].items \in Seq(Pairs)
  <2>1. <<>> \in Seq(Pairs) OBVIOUS
  <2> QED BY <2>1 DEF Init, TableInit, NoLocal
<1>4. remote \subseteq Seq(Pairs) BY BatchesAssumption DEF Init
<1>5. nextId \in Nat BY InitInv DEF IInv, Typed
<1>6. /\ DOMAIN backup = Actors /\ DOMAIN before = Actors
      /\ \A a \in Actors : before[a] \in 0..nextId
  BY <1>5 DEF Init
<1> QED BY <1>2, <1>3, <1>4, <1>6 DEF Stored

(* Every step of a request stores pairs                                    *)
LEMMA StoredStep == ASSUME IInv, Stored, NEW a \in Actors, StepOf(a) PROVE Stored'
<1>1. /\ \A b \in Actors : {"order", "items", "existing", "ids"} \subseteq DOMAIN loc[b]
      /\ nextId \in Nat /\ DOMAIN loc = Actors
  BY DEF IInv, Typed
<1>2. Content(rows) \in Seq(Pairs)
  BY FiniteTable, ContentAll DEF IInv, Stored, Ids
<1>3. \A i \in Ids' : {"pair", "by"} \subseteq DOMAIN rows'[i] /\ rows'[i].pair \in Pairs
  <2>1. CASE TableStep(a) \/ SyncStep(a) BY <2>1, KeepsPairs DEF Kept, Stored
  <2>2. CASE Adding(a)
    <3>1. \A i \in Ids' \ Ids : {"pair", "by"} \subseteq DOMAIN rows'[i] /\ rows'[i].pair \in Pairs
      BY <2>2, NewRow
    <3> QED BY <3>1, <2>2, Adds DEF Stored
  <2> QED BY <2>1, <2>2 DEF StepOf
<1>4. \A b \in Actors : loc'[b].items \in Seq(Pairs)
  <2>1. loc'[a].items \in Seq(Pairs)
    <3>1. CASE Ask(a)
      <4>1. \A p \in Pairs : <<p>> \in Seq(Pairs) OBVIOUS
      <4> QED BY <3>1, <4>1, <1>1, BatchesAssumption DEF Ask
    <3>2. CASE ReadAll(a) BY <3>2, <1>1, <1>2 DEF ReadAll
    <3>3. CASE Get(a) BY <3>3, <1>1 DEF Get, Stored
    <3>4. CASE Look(a) \/ ReadOrder(a) \/ ReadIds(a) \/ Renumber(a) \/ Delete(a) \/ Page(a)
      BY <3>4, <1>1 DEF Look, ReadOrder, ReadIds, Renumber, Delete, Page, Stored
    <3>5. CASE Put(a) \/ Snapshot(a) \/ ListIds(a) \/ Wipe(a) \/ Fail(a) \/ Adding(a)
      BY <3>5, <1>1 DEF Put, Snapshot, ListIds, Wipe, Fail, Adding, Insert, Stored
    <3> QED BY <3>1, <3>2, <3>3, <3>4, <3>5 DEF StepOf, TableStep, SyncStep
  <2> QED BY <2>1, OneActs DEF Stored
<1>5. remote' \subseteq Seq(Pairs)
  <2>1. CASE Put(a) BY <2>1 DEF Put, Stored
  <2>2. CASE ~Put(a)
    BY <2>2 DEF StepOf, Adding, SyncStep, ReadAll, Get, Snapshot, ListIds, Wipe, Fail, syncVars, Stored
  <2> QED BY <2>1, <2>2
<1>6. nextId <= nextId' /\ nextId' \in Nat
  <2>1. CASE TableStep(a) \/ SyncStep(a) BY <2>1, <1>1, KeepsPairs DEF Kept
  <2>2. CASE Adding(a) BY <2>2, <1>1, Adds
  <2> QED BY <2>1, <2>2 DEF StepOf
<1>7. /\ DOMAIN backup' = Actors /\ DOMAIN before' = Actors
      /\ \A b \in Actors : before'[b] \in 0..nextId
  <2>1. CASE Snapshot(a) BY <2>1, <1>1 DEF Snapshot, Stored
  <2>2. CASE ~Snapshot(a)
    BY <2>2 DEF StepOf, Adding, SyncStep, ReadAll, Get, Put, ListIds, Wipe, Fail, syncVars, Stored
  <2> QED BY <2>1, <2>2
<1>8. \A b \in Actors : before'[b] \in 0..nextId' BY <1>1, <1>6, <1>7
<1> QED BY <1>3, <1>4, <1>5, <1>7, <1>8 DEF Stored

--------------------------------------------------------------------------------
(* The steps keep what imports know                                        *)

(* Who imports in the next state has looked now or did so before           *)
LEMMA Looks ==
  ASSUME IInv, NEW a \in Actors, StepOf(a)
  PROVE  /\ cast' = cast /\ overlap \subseteq overlap'
         /\ \A b \in Actors \ {a} : (Importing(b)' <=> Importing(b)) /\ loc'[b] = loc[b]
         /\ Importing(a)' =>
              /\ ~Adding(a)
              /\ \/ Look(a) /\ loc'[a].existing = PairsOf(rows)
                 \/ Importing(a) /\ loc'[a].existing = loc[a].existing
<1>1. /\ cast' = cast /\ DOMAIN pc = Actors /\ DOMAIN loc = Actors
      /\ \A b \in Actors \ {a} : pc'[b] = pc[b] /\ loc'[b] = loc[b]
  BY OneActs
<1>2. overlap \subseteq overlap'
  BY DEF StepOf, TableStep, Ask, Look, ReadOrder, ReadIds, Renumber, Delete, Page, Adding, Insert,
         SyncStep, ReadAll, Put, Get, Snapshot, ListIds, Wipe, Fail, Same
<1>3. \A b \in Actors \ {a} : Importing(b)' <=> Importing(b)
  BY <1>1 DEF Importing
<1>4. \A b \in Actors : {"order", "items", "existing", "ids"} \subseteq DOMAIN loc[b] BY DEF IInv, Typed
<1>5. Adding(a) => pc'[a] \notin Ordering
  BY <1>1 DEF Adding, Insert, After, Goto, Ordering
<1>6. Importing(a)' => \/ Look(a) /\ loc'[a].existing = PairsOf(rows)
                       \/ Importing(a) /\ loc'[a].existing = loc[a].existing
  <2> SUFFICES ASSUME pc'[a] \in Ordering, cast[a] # "add"
               PROVE  \/ Look(a) /\ loc'[a].existing = PairsOf(rows)
                      \/ Importing(a) /\ loc'[a].existing = loc[a].existing
    BY <1>1 DEF Importing
  <2>1. CASE Ask(a) \/ ReadIds(a) \/ Renumber(a) \/ Delete(a)
    BY <2>1, <1>1 DEF Ask, ReadIds, Renumber, Delete, Goto, Ordering
  <2>2. CASE Look(a) BY <2>2, <1>1, <1>4 DEF Look
  <2>3. CASE ReadOrder(a) BY <2>3, <1>1, <1>4 DEF ReadOrder, Importing, Ordering
  <2>4. CASE Page(a) BY <2>4 DEF Page, Importing
  <2>5. CASE SyncStep(a)
    BY <2>5, <1>1 DEF SyncStep, ReadAll, Put, Get, Snapshot, ListIds, Wipe, Fail, Goto, Ordering
  <2> QED BY <2>1, <2>2, <2>3, <2>4, <2>5, <1>5 DEF StepOf, TableStep
<1>7. Importing(a)' => ~Adding(a) BY <1>5 DEF Importing
<1> QED BY <1>1, <1>2, <1>3, <1>6, <1>7

(* Two that import overlap                                                 *)
LEMMA Overlaps ==
  ASSUME IInv, Seen, NEW a \in Actors, StepOf(a), NEW b \in Actors, NEW c \in Actors, b # c,
         Importing(b)', Importing(c)'
  PROVE  {b, c} \in overlap'
<1>1. ASSUME NEW d \in Actors \ {a}, Importing(d), Look(a) PROVE {a, d} \in overlap'
  BY <1>1 DEF Look, Importing
<1>2. ASSUME NEW d \in Actors \ {a}, Importing(a)', Importing(d)' PROVE {a, d} \in overlap'
  BY <1>1, <1>2, Looks DEF Seen
<1>3. CASE b = a BY <1>2, <1>3
<1>4. CASE c = a
  <2>1. {c, b} \in overlap' BY <1>2, <1>4
  <2>2. {b, c} = {c, b} OBVIOUS
  <2> QED BY <2>1, <2>2
<1>5. CASE b # a /\ c # a BY <1>5, Looks DEF Seen
<1> QED BY <1>3, <1>4, <1>5

(* Rows that come or stay are seen by the others or overlap with them      *)
LEMMA SeenInsert == ASSUME IInv, Stored, Seen, NEW a \in Actors, Adding(a) PROVE Seen'
<1>0. StepOf(a) BY DEF StepOf
<1>1. /\ cast' = cast /\ overlap \subseteq overlap' /\ ~Importing(a)'
      /\ \A b \in Actors \ {a} : (Importing(b)' <=> Importing(b)) /\ loc'[b] = loc[b]
  BY <1>0, Looks
<1>2. /\ \A i \in Ids : rows'[i] = rows[i]
      /\ \A i \in Ids' \ Ids :
           /\ i \in Int /\ i - nextId + 1 \in 1..Len(Brought(a))
           /\ rows'[i].pair = Brought(a)[i - nextId + 1] /\ rows'[i].by = a
  BY Adds, NewRow
<1>3. cast[a] # "add" => Importing(a) BY DEF Adding, Insert, Importing, Ordering
<1>4. cast[a] # "add" =>
        /\ \A k \in 1..Len(Brought(a)) : Brought(a)[k] \notin loc[a].existing
        /\ \A k, l \in 1..Len(Brought(a)) : k # l => Brought(a)[k] # Brought(a)[l]
  BY FreshOnce DEF Brought, Stored
<1>5. ASSUME NEW b \in Actors, Importing(b)', NEW i \in Ids', Batch(rows'[i].by)
      PROVE  rows'[i].pair \in loc'[b].existing \/ {rows'[i].by, b} \in overlap'
  <2>1. b # a /\ Importing(b) /\ loc'[b] = loc[b] BY <1>1, <1>5
  <2>2. CASE i \in Ids
    <3>1. rows[i].pair \in loc[b].existing \/ {rows[i].by, b} \in overlap
      BY <2>1, <2>2, <1>2, <1>5 DEF Seen
    <3> QED BY <3>1, <2>1, <2>2, <1>1, <1>2
  <2>3. CASE i \notin Ids
    <3>1. rows'[i].by = a /\ Importing(a) BY <2>3, <1>2, <1>3, <1>5 DEF Batch
    <3> QED BY <3>1, <2>1, <1>1 DEF Seen
  <2> QED BY <2>2, <2>3
<1>6. ASSUME NEW k \in Ids' \ Ids, NEW l \in Ids, rows'[k].pair = rows'[l].pair,
             Batch(rows'[k].by), Batch(rows'[l].by)
      PROVE  {rows'[l].by, rows'[k].by} \in overlap'
  <2>1. rows'[k].by = a /\ cast[a] # "add" BY <1>2, <1>6 DEF Batch
  <2>2. rows'[k].pair \notin loc[a].existing BY <2>1, <1>2, <1>4
  <2>3. rows'[l] = rows[l] BY <1>2
  <2>4. {rows[l].by, a} \in overlap BY <2>1, <2>2, <2>3, <1>3, <1>6 DEF Seen
  <2> QED BY <2>1, <2>3, <2>4, <1>1
<1>7. ASSUME NEW i \in Ids', NEW j \in Ids', i # j, rows'[i].pair = rows'[j].pair,
             Batch(rows'[i].by), Batch(rows'[j].by)
      PROVE  {rows'[i].by, rows'[j].by} \in overlap'
  <2>1. CASE i \in Ids /\ j \in Ids
    <3>1. {rows[i].by, rows[j].by} \in overlap
      BY <2>1, <1>2, <1>7 DEF Seen, DuplicatesNeedOverlap
    <3> QED BY <3>1, <2>1, <1>1, <1>2
  <2>2. CASE i \notin Ids /\ j \in Ids
    <3>1. {rows'[j].by, rows'[i].by} \in overlap' BY <1>6, <1>7, <2>2
    <3>2. {rows'[i].by, rows'[j].by} = {rows'[j].by, rows'[i].by} OBVIOUS
    <3> QED BY <3>1, <3>2
  <2>3. CASE i \in Ids /\ j \notin Ids BY <1>6, <1>7, <2>3
  <2>4. CASE i \notin Ids /\ j \notin Ids
    <3>1. cast[a] # "add" BY <1>2, <1>7, <2>4 DEF Batch
    <3>2. i \in Int /\ j \in Int /\ nextId \in Int BY <1>2, <2>4 DEF IInv, Typed
    <3>3. i - nextId + 1 # j - nextId + 1 BY <3>2, <1>7
    <3>4. Brought(a)[i - nextId + 1] # Brought(a)[j - nextId + 1] BY <3>1, <3>3, <1>2, <1>4, <2>4
    <3> QED BY <3>4, <1>2, <1>7, <2>4
  <2> QED BY <2>1, <2>2, <2>3, <2>4
<1>8. \A w : (w # "old" /\ cast'[w] # "add") <=> Batch(w) BY <1>1 DEF Batch
<1>9. \A b, c \in Actors : b # c /\ Importing(b)' /\ Importing(c)' => {b, c} \in overlap'
  BY <1>0, Overlaps
<1> QED BY <1>5, <1>7, <1>8, <1>9 DEF Seen, DuplicatesNeedOverlap, Batch

(* Every step keeps what imports have seen                                 *)
LEMMA SeenStep == ASSUME IInv, Stored, Seen, NEW a \in Actors, StepOf(a) PROVE Seen'
<1>1. CASE Adding(a) BY <1>1, SeenInsert
<1>2. CASE TableStep(a) \/ SyncStep(a)
  <2>1. Kept BY <1>2, KeepsPairs
  <2>2. ASSUME NEW b \in Actors, Importing(b)', NEW i \in Ids', Batch(rows'[i].by)
        PROVE  rows'[i].pair \in loc'[b].existing \/ {rows'[i].by, b} \in overlap'
    <3>1. i \in Ids /\ rows'[i].pair = rows[i].pair /\ rows'[i].by = rows[i].by BY <2>1 DEF Kept
    <3>2. CASE loc'[b].existing = PairsOf(rows)
      BY <3>1, <3>2 DEF PairsOf, Ids
    <3>3. CASE Importing(b) /\ loc'[b].existing = loc[b].existing
      <4>1. rows[i].pair \in loc[b].existing \/ {rows[i].by, b} \in overlap
        BY <3>1, <3>3, <2>2 DEF Seen
      <4> QED BY <4>1, <3>1, <3>3, Looks
    <3> QED BY <3>2, <3>3, <2>2, Looks
  <2>3. ASSUME NEW i \in Ids', NEW j \in Ids', i # j, rows'[i].pair = rows'[j].pair,
               Batch(rows'[i].by), Batch(rows'[j].by)
        PROVE  {rows'[i].by, rows'[j].by} \in overlap'
    <3>1. {rows[i].by, rows[j].by} \in overlap
      BY <2>1, <2>3 DEF Kept, Seen, DuplicatesNeedOverlap
    <3> QED BY <3>1, <2>1, Looks DEF Kept
  <2>4. \A w : (w # "old" /\ cast'[w] # "add") <=> Batch(w) BY Looks DEF Batch
  <2>5. \A b, c \in Actors : b # c /\ Importing(b)' /\ Importing(c)' => {b, c} \in overlap'
    BY Overlaps
  <2> QED BY <2>2, <2>3, <2>4, <2>5 DEF Seen, DuplicatesNeedOverlap, Batch
<1> QED BY <1>1, <1>2 DEF StepOf

--------------------------------------------------------------------------------
(* A replace keeps a copy                                                  *)

(* What one keeps of the table stays kept whatever another does            *)
LEMMA StaysCopied ==
  ASSUME IInv, Stored, NEW a \in Actors, StepOf(a), NEW n \in 0..nextId, NEW files,
         \A i \in Ids : i < n => \A file \in files : rows[i].pair \in Range(file)
  PROVE  \A i \in Ids' : i < n => \A file \in files : rows'[i].pair \in Range(file)
<1>1. CASE TableStep(a) \/ SyncStep(a) BY <1>1, KeepsPairs DEF Kept
<1>2. CASE Adding(a)
  <2>1. nextId \in Nat BY DEF IInv, Typed
  <2>2. \A i \in Ids' : i \in Ids \/ (i \in Int /\ i >= nextId) BY <1>2, NewRow
  <2>3. \A i \in Ids : rows'[i] = rows[i] BY <1>2, Adds
  <2>4. \A i \in Ids' : i < n => i \in Ids BY <2>1, <2>2
  <2> QED BY <2>3, <2>4
<1> QED BY <1>1, <1>2 DEF StepOf

(* Every step keeps what a replace has copied                              *)
LEMMA CopiedStep == ASSUME IInv, Stored, Copied, NEW a \in Actors, StepOf(a) PROVE Copied'
<1>1. /\ DOMAIN pc = Actors /\ \A b \in Actors \ {a} : pc'[b] = pc[b]
      /\ DOMAIN backup = Actors /\ DOMAIN before = Actors
  BY OneActs DEF Stored
<1> DEFINE Holds(b) == \A i \in Ids : i < before[b] => \A file \in backup[b] : rows[i].pair \in Range(file)
           Late == {"start", "snapshot", "list", "wipe"}
<1>2. CASE Snapshot(a)
  <2>1. /\ UNCHANGED <<rows, nextId, dropped>> /\ pc[a] = "snapshot" /\ pc'[a] = "list"
        /\ before' = [before EXCEPT ![a] = nextId]
        /\ \E f \in {{}, {Content(rows)}} : backup' = [backup EXCEPT ![a] = f]
    BY <1>1, <1>2 DEF Snapshot, Unwritten, Goto
  <2>2. Range(Content(rows)) = PairsOf(rows)
    BY FiniteTable, ContentAll DEF IInv, Stored, Ids
  <2>3. \A b \in Actors \ {a} : before'[b] = before[b] /\ backup'[b] = backup[b]
    BY <1>1, <2>1
  <2>4. \A i \in Ids : \A file \in backup'[a] : rows[i].pair \in Range(file)
    BY <1>1, <2>1, <2>2 DEF PairsOf, Ids
  <2>5. \A b \in Actors : pc'[b] \in {"list", "wipe"} =>
          \A i \in Ids : i < before'[b] => \A file \in backup'[b] : rows[i].pair \in Range(file)
    <3> TAKE b \in Actors
    <3>1. CASE b = a BY <3>1, <2>4
    <3>2. CASE b # a BY <3>2, <1>1, <2>3 DEF Copied
    <3> QED BY <3>1, <3>2
  <2>6. \A i \in DOMAIN dropped :
          dropped[i].by \in Actors \ {a} /\ pc[dropped[i].by] \notin Late
    BY <2>1 DEF Copied
  <2>7. \A i \in DOMAIN dropped : i < before'[dropped[i].by] =>
          \A file \in backup'[dropped[i].by] : dropped[i].pair \in Range(file)
    BY <2>3, <2>6 DEF Copied, ReplaceKeepsACopy
  <2> QED BY <1>1, <2>1, <2>5, <2>6, <2>7 DEF Copied, ReplaceKeepsACopy, Ids
<1>3. ASSUME ~Snapshot(a)
      PROVE  /\ UNCHANGED <<backup, before>>
             /\ \A b \in Actors : pc'[b] \in {"list", "wipe"} => pc[b] \in {"list", "wipe"} \/ pc'[b] = pc[b]
             /\ \A b \in Actors : pc[b] \notin Late => pc'[b] \notin Late
  <2>1. UNCHANGED <<backup, before>>
    BY <1>3 DEF StepOf, Adding, SyncStep, ReadAll, Get, Put, ListIds, Wipe, Fail, syncVars
  <2>2. /\ pc'[a] \in {"list", "wipe"} => pc[a] \in {"list", "wipe"} \/ pc'[a] = pc[a]
        /\ pc[a] \notin Late => pc'[a] \notin Late
    <3>1. CASE TableStep(a)
      BY <3>1, <1>1 DEF TableStep, Ask, Look, ReadOrder, ReadIds, Renumber, Delete, Page, Goto
    <3>2. CASE Adding(a) BY <3>2, <1>1 DEF Adding, Insert, After, Goto
    <3>3. CASE SyncStep(a)
      BY <3>3, <1>1, <1>3 DEF SyncStep, ReadAll, Put, Get, ListIds, Wipe, Fail, Goto
    <3> QED BY <3>1, <3>2, <3>3 DEF StepOf
  <2> QED BY <1>1, <2>1, <2>2
<1>4. CASE ~Snapshot(a)
  <2>1. \A b \in Actors : pc[b] \in {"list", "wipe"} =>
          \A i \in Ids' : i < before[b] => \A file \in backup[b] : rows'[i].pair \in Range(file)
    <3> TAKE b \in Actors
    <3> HAVE pc[b] \in {"list", "wipe"}
    <3>1. before[b] \in 0..nextId BY DEF Stored
    <3>2. Holds(b) BY DEF Copied
    <3> QED BY <3>1, <3>2, StaysCopied
  <2>2. \A b \in Actors : pc'[b] \in {"list", "wipe"} =>
          \A i \in Ids' : i < before'[b] => \A file \in backup'[b] : rows'[i].pair \in Range(file)
    BY <2>1, <1>3, <1>4
  <2>3. CASE Wipe(a)
    <3>1. /\ pc[a] = "wipe" /\ pc'[a] = "look"
          /\ dropped' = [i \in DOMAIN dropped \union (Ids \intersect Range(loc[a].ids)) |->
                           IF i \in DOMAIN dropped THEN dropped[i] ELSE [pair |-> rows[i].pair, by |-> a]]
      BY <2>3, <1>1 DEF Wipe, Goto
    <3>2. Holds(a) BY <3>1 DEF Copied
    <3>3. \A i \in DOMAIN dropped' :
            \/ i \in DOMAIN dropped /\ dropped'[i] = dropped[i]
            \/ i \in Ids /\ dropped'[i] = [pair |-> rows[i].pair, by |-> a]
      BY <3>1
    <3>4. \A i \in DOMAIN dropped' : dropped'[i].by \in Actors /\ pc'[dropped'[i].by] \notin Late
      <4> TAKE i \in DOMAIN dropped'
      <4>1. CASE i \in DOMAIN dropped /\ dropped'[i] = dropped[i]
        BY <4>1, <1>3, <1>4 DEF Copied
      <4>2. CASE dropped'[i] = [pair |-> rows[i].pair, by |-> a]
        BY <4>2, <3>1
      <4> QED BY <4>1, <4>2, <3>3
    <3>5. \A i \in DOMAIN dropped' : i < before[dropped'[i].by] =>
            \A file \in backup[dropped'[i].by] : dropped'[i].pair \in Range(file)
      <4> TAKE i \in DOMAIN dropped'
      <4>1. CASE i \in DOMAIN dropped /\ dropped'[i] = dropped[i]
        BY <4>1 DEF Copied, ReplaceKeepsACopy
      <4>2. CASE i \in Ids /\ dropped'[i] = [pair |-> rows[i].pair, by |-> a]
        BY <4>2, <3>2
      <4> QED BY <4>1, <4>2, <3>3
    <3> QED BY <2>2, <3>4, <3>5, <1>3, <1>4 DEF Copied, ReplaceKeepsACopy
  <2>4. CASE ~Wipe(a)
    <3>1. dropped' = dropped
      BY <2>4, <1>4 DEF StepOf, Adding, SyncStep, ReadAll, Get, Put, ListIds, Fail, syncVars
    <3>2. \A i \in DOMAIN dropped : dropped[i].by \in Actors /\ pc'[dropped[i].by] \notin Late
      BY <1>3, <1>4 DEF Copied
    <3> QED BY <2>2, <3>1, <3>2, <1>3, <1>4 DEF Copied, ReplaceKeepsACopy
  <2> QED BY <2>3, <2>4
<1> QED BY <1>2, <1>4

--------------------------------------------------------------------------------
(* A replace that nobody disturbs                                          *)

(* An insertion into the empty table leaves what is brought, in its order  *)
LEMMA FillsEmpty ==
  ASSUME IInv, Stored, NEW a \in Actors, Adding(a), Ids = {}, loc[a].order = 10
  PROVE  Content(rows') = Brought(a)
<1> DEFINE n == Len(Brought(a))
           f == [k \in 1..n |-> nextId + k - 1]
<1>1. /\ Brought(a) \in Seq(Pairs) /\ n \in Nat /\ nextId \in Nat \ {0} /\ nextId' = nextId + n
      /\ Ids' = nextId..(nextId' - 1)
  BY Adds DEF IInv, Typed
<1>2. \A i \in Ids' : /\ i - nextId + 1 \in 1..n /\ rows'[i].pair = Brought(a)[i - nextId + 1]
                      /\ rows'[i].order = 10 + 10 * (i - nextId)
  BY NewRow
<1> HIDE DEF n
<1>3. IsFiniteSet(Ids') /\ Ids' \subseteq Nat
  BY <1>1, FS_Interval
<1>4. \A i \in Ids' : rows'[i].order \in Int /\ rows'[i].order # 0
  <2> TAKE i \in Ids'
  <2>1. i \in Int /\ nextId \in Int /\ i >= nextId BY <1>1
  <2> QED BY <2>1, <1>2
<1>5. Orders(Precedes(rows'), Ids') /\ Lists(Listed(rows'), Cardinality(Ids'), Ids', Precedes(rows'))
  BY <1>3, <1>4, ListedAll DEF Ids
<1>6. \A i, j \in Ids' : i < j => <<i, j>> \in Precedes(rows')
  <2> TAKE i \in Ids', j \in Ids'
  <2> HAVE i < j
  <2>1. i \in Int /\ j \in Int /\ nextId \in Int BY <1>1
  <2>2. rows'[i].order < rows'[j].order BY <2>1, <1>2
  <2>3. Behind("default", Place("default", rows', j), Place("default", rows', i))
    BY <2>2, <1>4 DEF Behind, Place
  <2> QED BY <2>3 DEF Precedes, Ids
<1>7. /\ f \in [1..n -> Ids'] /\ \A i \in Ids' : \E k \in 1..n : f[k] = i
      /\ \A j, k \in 1..n : j < k => f[j] < f[k]
  <2>1. f \in [1..n -> Ids'] BY <1>1
  <2>2. \A i \in Ids' : \E k \in 1..n : f[k] = i
    <3> TAKE i \in Ids'
    <3>1. i - nextId + 1 \in 1..n /\ i \in Int /\ nextId \in Int BY <1>1, <1>2
    <3>2. f[i - nextId + 1] = i BY <3>1
    <3> QED BY <3>1, <3>2
  <2>3. \A j, k \in 1..n : j < k => f[j] < f[k] BY <1>1
  <2> QED BY <2>1, <2>2, <2>3
<1> HIDE DEF f
<1>8. Lists(f, n, Ids', Precedes(rows')) BY <1>6, <1>7 DEF Lists
<1>9. Cardinality(Ids') = n
  <2>1. \A j, k \in 1..n : j # k => f[j] # f[k] BY <1>1, <1>7 DEF f
  <2>2. f \in Bijection(1..n, Ids') BY <1>7, <2>1 DEF Bijection, Injection, Surjection, IsInjective
  <2> QED BY <1>1, <2>2, FS_CountingElements DEF ExistsBijection
<1>10. Listed(rows') = f
  BY <1>1, <1>5, <1>8, <1>9, SortingUnique
<1>11. DOMAIN f = 1..n /\ \A k \in 1..n : f[k] \in Ids' /\ f[k] - nextId + 1 = k
  BY <1>1 DEF f
<1>12. Content(rows') = [k \in 1..n |-> rows'[f[k]].pair]
  BY <1>10, <1>11 DEF Content
<1>13. \A k \in 1..n : rows'[f[k]].pair = Brought(a)[k] BY <1>2, <1>11
<1>14. DOMAIN Brought(a) = 1..n /\ Brought(a) = [k \in 1..n |-> Brought(a)[k]] BY <1>1 DEF n
<1> QED BY <1>12, <1>13, <1>14

(* Every step keeps what an undisturbed replace relies on                  *)
LEMMA EmptiedStep == ASSUME IInv, Stored, Emptied, NEW a \in Actors, StepOf(a) PROVE Emptied'
<1>1. /\ cast' = cast /\ DOMAIN pc = Actors /\ DOMAIN loc = Actors
      /\ \A b \in Actors \ {a} : pc'[b] = pc[b] /\ loc'[b] = loc[b]
  BY OneActs
<1>2. disturbed \subseteq disturbed' BY Disturbs
<1>3. \A b \in Actors : {"order", "items", "existing", "ids"} \subseteq DOMAIN loc[b] BY DEF IInv, Typed
<1>4. ASSUME NEW b \in Actors \ {a}, b \notin disturbed' PROVE Left(b)'
  <2>1. Left(b) BY <1>2, <1>4 DEF Emptied
  <2>2. CASE rows' = rows BY <2>1, <2>2, <1>1 DEF Left, Ids
  <2>3. CASE rows' # rows
    <3>1. pc'[b] \in {"start", "done"} BY <2>3, <1>1, <1>4, Disturbs
    <3> QED BY <3>1 DEF Left, Ordering
  <2> QED BY <2>2, <2>3
<1>5. ASSUME a \notin disturbed' PROVE Left(a)'
  <2>0. Left(a) BY <1>2, <1>5 DEF Emptied
  <2>1. CASE Ask(a) \/ ReadIds(a) \/ Renumber(a) \/ Delete(a) \/ ReadAll(a) \/ Put(a) \/ Get(a) \/ Snapshot(a) \/ Fail(a)
    <3>1. pc'[a] = "look" => cast[a] # "replace"
      BY <2>1, <1>1 DEF Ask, ReadIds, Renumber, Delete, ReadAll, Put, Get, Snapshot, Fail, Goto
    <3>2. pc'[a] \in Ordering => cast[a] # "replace"
      BY <2>1, <1>1 DEF Ask, ReadIds, Renumber, Delete, ReadAll, Put, Get, Snapshot, Fail, Goto, Ordering
    <3>3. pc'[a] \notin {"wipe", "replaced"}
      BY <2>1, <1>1 DEF Ask, ReadIds, Renumber, Delete, ReadAll, Put, Get, Snapshot, Fail, Goto
    <3> QED BY <3>1, <3>2, <3>3, <1>1 DEF Left, Ordering
  <2>2. CASE Look(a)
    <3>1. /\ pc[a] = "look" /\ pc'[a] = "order" /\ rows' = rows
          /\ loc'[a].existing = PairsOf(rows)
      BY <2>2, <1>1, <1>3 DEF Look, Goto, Unwritten
    <3>2. cast[a] = "replace" => Ids = {} BY <3>1, <2>0 DEF Left
    <3> QED BY <3>1, <3>2, <1>1 DEF Left, Ordering, PairsOf, Ids
  <2>3. CASE ReadOrder(a)
    <3>1. /\ pc[a] = "order" /\ pc'[a] = "insert" /\ rows' = rows
          /\ loc'[a].existing = loc[a].existing /\ loc'[a].order = NextOrder(rows)
      BY <2>3, <1>1, <1>3 DEF ReadOrder, Goto, Unwritten
    <3>2. cast[a] = "replace" => Ids = {} /\ loc[a].existing = {} BY <3>1, <2>0 DEF Left, Ordering
    <3>3. Ids = {} => NextOrder(rows) = 10 BY DEF NextOrder, Ids
    <3> QED BY <3>1, <3>2, <3>3, <1>1 DEF Left, Ordering, Ids
  <2>4. CASE Page(a)
    BY <2>4, <2>0 DEF Page, Left, Ids
  <2>5. CASE ListIds(a)
    <3>1. /\ rows' = rows /\ loc'[a].ids = Listed(rows)
          /\ pc'[a] = IF rows = <<>> THEN "look" ELSE "wipe"
      BY <2>5, <1>1, <1>3 DEF ListIds, Goto, Unwritten
    <3>2. Range(Listed(rows)) = Ids
      BY FiniteTable, ContentAll DEF IInv, Stored, Ids
    <3> QED BY <3>1, <3>2 DEF Left, Ordering, Ids
  <2>6. CASE Wipe(a)
    <3>1. pc[a] = "wipe" /\ pc'[a] = "look" /\ rows' = Without(Range(loc[a].ids))
      BY <2>6, <1>1 DEF Wipe, Goto
    <3>2. Ids \subseteq Range(loc[a].ids) BY <3>1, <2>0 DEF Left
    <3>3. Ids' = {} BY <3>1, <3>2 DEF Without, Ids
    <3> QED BY <3>1, <3>3 DEF Left, Ordering
  <2>7. CASE Adding(a)
    <3>1. pc[a] = "insert" /\ pc'[a] = After(a) /\ loc' = loc
      BY <2>7, <1>1 DEF Adding, Insert, Goto
    <3>2. CASE cast[a] = "replace"
      <4>1. Ids = {} /\ loc[a].existing = {} /\ loc[a].order = 10 BY <3>1, <3>2, <2>0 DEF Left, Ordering
      <4>2. Content(rows') = Fresh(loc[a].items, {}) BY <4>1, <3>2, <2>7, FillsEmpty DEF Brought
      <4> QED BY <4>2, <3>1, <3>2 DEF Left, Ordering, After
    <3>3. CASE cast[a] # "replace" BY <3>1, <3>3 DEF Left, Ordering, After
    <3> QED BY <3>2, <3>3
  <2> QED BY <2>1, <2>2, <2>3, <2>4, <2>5, <2>6, <2>7 DEF StepOf, TableStep, SyncStep
<1> QED BY <1>4, <1>5 DEF Emptied

--------------------------------------------------------------------------------
(* All of it holds in every state                                          *)
LEMMA SyncInvariance == Spec => []SInv
<1>1. Init => SInv
  <2> SUFFICES ASSUME Init PROVE SInv
    OBVIOUS
  <2>1. pc = [a \in Actors |-> "start"] /\ dropped = <<>> /\ rows \in Tables BY DEF Init, TableInit
  <2>2. \A a \in Actors : pc[a] = "start" BY <2>1
  <2>3. DuplicatesNeedOverlap
    <3>1. \A i \in Ids : rows[i].by = "old"
      <4>1. CASE rows = <<>> BY <4>1 DEF Ids
      <4>2. CASE \E p \in Pairs : rows = [i \in {1} |-> OldRow(p, 0)] BY <4>2 DEF OldRow, Ids
      <4>3. CASE \E f \in [{1, 2} -> Pairs], o \in {<<0, 0>>, <<20, 10>>} :
                   rows = [i \in {1, 2} |-> OldRow(f[i], o[i])]
        BY <4>3 DEF OldRow, Ids
      <4> QED BY <2>1, <4>1, <4>2, <4>3 DEF Tables
    <3> QED BY <3>1 DEF DuplicatesNeedOverlap, Batch
  <2>4. Seen BY <2>2, <2>3 DEF Seen, Importing, Ordering
  <2>5. Copied BY <2>1, <2>2 DEF Copied, ReplaceKeepsACopy
  <2>6. Emptied BY <2>2 DEF Emptied, Left, Ordering
  <2> QED BY <2>4, <2>5, <2>6, InitInv, StoredInit DEF SInv
<1>2. SInv /\ IInv' /\ [Next]_allVars => SInv'
  <2> SUFFICES ASSUME SInv, IInv', [Next]_allVars PROVE SInv'
    OBVIOUS
  <2>1. ASSUME NEW a \in Actors, StepOf(a) PROVE SInv'
    BY <2>1, StoredStep, SeenStep, CopiedStep, EmptiedStep DEF SInv
  <2>2. ASSUME UNCHANGED <<rows, nextId, cast, pc, loc, disturbed, overlap, syncVars>> PROVE SInv'
    <3>1. Stored' BY <2>2 DEF SInv, Stored, Ids, syncVars
    <3>2. Seen' BY <2>2 DEF SInv, Seen, Importing, Batch, DuplicatesNeedOverlap, Ids
    <3>3. Copied' BY <2>2 DEF SInv, Copied, ReplaceKeepsACopy, Ids, syncVars
    <3>4. Emptied' BY <2>2 DEF SInv, Emptied, Left, Ids
    <3> QED BY <3>1, <3>2, <3>3, <3>4 DEF SInv
  <2>3. CASE Tick /\ UNCHANGED syncVars BY <2>2, <2>3 DEF Tick, Unwritten
  <2>4. CASE UNCHANGED allVars BY <2>2, <2>4 DEF allVars, vars
  <2> QED BY <2>1, <2>3, <2>4 DEF Next, StepOf, Adding, After
<1> QED BY <1>1, <1>2, Invariance, PTL DEF Spec

(* Two rows that imports have added hold the same pair only if the two     *)
(* imports overlapped (add_keys_batch looks before the transaction in      *)
(* which it inserts)                                                       *)
THEOREM DuplicatesKnown == Spec => []DuplicatesNeedOverlap
<1>1. SInv => DuplicatesNeedOverlap BY DEF SInv, Seen
<1> QED BY <1>1, SyncInvariance, PTL

(* Whatever a replace deletes that was there when it took its snapshot is  *)
(* in the snapshot, if that was written (download, _snapshot_local)        *)
THEOREM ReplaceCopies == Spec => []ReplaceKeepsACopy
<1>1. SInv => ReplaceKeepsACopy BY DEF SInv, Copied
<1> QED BY <1>1, SyncInvariance, PTL

(* A replace that nobody disturbs leaves the list that was uploaded, each  *)
(* pair once, in its order (download, delete_keys, add_keys_batch)         *)
THEOREM ReplaceLeavesUpload == Spec => []ReplaceRestores
<1>1. SInv => ReplaceRestores BY DEF SInv, Emptied, Left, ReplaceRestores
<1> QED BY <1>1, SyncInvariance, PTL
================================================================================
