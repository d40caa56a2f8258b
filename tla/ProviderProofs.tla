-------------------------- MODULE ProviderProofs --------------------------
(***************************************************************************)
(* What module Provider promises, for any documents, dates, pages,         *)
(* transactions and bounds: a list loses no more documents than left their *)
(* places in it, were committed among what it had listed, or were in       *)
(* places that a page gave again.                                          *)
(***************************************************************************)
EXTENDS Provider, TLAPS, FiniteSetTheorems, SequenceTheorems

-----------------------------------------------------------------------------
(* Arithmetic *)

LEMMA Division ==
  ASSUME NEW n \in Nat, NEW m \in Nat \ {0}
  PROVE  n \div m \in Nat /\ (n \div m) * m <= n /\ n < (n \div m) * m + m
OBVIOUS

LEMMA Multiples ==
  ASSUME NEW a \in Nat, NEW b \in Nat, NEW m \in Nat \ {0}
  PROVE  /\ a * m \in Nat
         /\ a <= b => a * m <= b * m
         /\ (a + 1) * m = a * m + m
         /\ (a * m) \div m = a
OBVIOUS

\* Seconds are compared as the ticks they start at.
LEMMA Seconds ==
  ASSUME NEW t \in Nat, NEW s \in Nat
  PROVE  /\ SecondOf(t) \in Nat /\ StartOf(s) \in Nat
         /\ SecondOf(t) < s <=> t < StartOf(s)
<1>1. Second \in Nat \ {0}
  BY ClockAssumption
<1> DEFINE q == t \div Second
<1>2. q \in Nat /\ q * Second <= t /\ t < q * Second + Second
  BY <1>1, Division
<1> HIDE DEF q
<1> DEFINE x == s * Second
           y == q * Second
<1>3. /\ x \in Nat /\ y \in Nat /\ (q + 1) * Second = y + Second
      /\ q + 1 <= s => (q + 1) * Second <= x
      /\ s <= q => x <= y
  BY <1>1, <1>2, Multiples
<1>4. SecondOf(t) = q /\ StartOf(s) = x /\ y <= t /\ t < y + Second
  BY <1>2 DEF SecondOf, StartOf, q
<1> HIDE DEF x, y
<1>5. q < s => t < x
  BY <1>1, <1>2, <1>3, <1>4
<1>6. ~(q < s) => ~(t < x)
  BY <1>2, <1>3, <1>4
<1> QED BY <1>2, <1>3, <1>4, <1>5, <1>6

-----------------------------------------------------------------------------
(* Counting *)

LEMMA Count ==
  ASSUME NEW S \in SUBSET Ids
  PROVE  IsFiniteSet(S) /\ Cardinality(S) \in Nat
BY IdsAssumption, FS_Subset, FS_CardinalityType

LEMMA CountSubset ==
  ASSUME NEW S \in SUBSET Ids, NEW T \in SUBSET Ids, S \subseteq T
  PROVE  Cardinality(S) <= Cardinality(T)
BY Count, FS_Subset

LEMMA CountUnion ==
  ASSUME NEW S \in SUBSET Ids, NEW T \in SUBSET Ids
  PROVE  /\ Cardinality(S \cup T) <= Cardinality(S) + Cardinality(T)
         /\ S \cap T = {} => Cardinality(S \cup T) = Cardinality(S) + Cardinality(T)
<1>1. /\ IsFiniteSet(S) /\ IsFiniteSet(T) /\ Cardinality(S) \in Nat /\ Cardinality(T) \in Nat
      /\ Cardinality(S \cap T) \in Nat
  <2>1. S \cap T \in SUBSET Ids
    OBVIOUS
  <2> QED BY <2>1, Count
<1>2. Cardinality(S \cup T) = Cardinality(S) + Cardinality(T) - Cardinality(S \cap T)
  BY <1>1, FS_Union
<1>3. S \cap T = {} => Cardinality(S \cap T) = 0
  BY FS_EmptySet
<1> QED BY <1>1, <1>2, <1>3

LEMMA CountWithout ==
  ASSUME NEW S \in SUBSET Ids, NEW T \in SUBSET Ids
  PROVE  /\ T \subseteq S => Cardinality(S \ T) = Cardinality(S) - Cardinality(T)
         /\ Cardinality(S) <= Cardinality(S \ T) + Cardinality(S \cap T)
<1>1. /\ IsFiniteSet(S) /\ Cardinality(S) \in Nat /\ Cardinality(S \cap T) \in Nat
  <2>1. S \cap T \in SUBSET Ids
    OBVIOUS
  <2> QED BY <2>1, Count
<1>2. Cardinality(S \ T) = Cardinality(S) - Cardinality(S \cap T)
  BY <1>1, FS_Difference
<1>3. T \subseteq S => S \cap T = T
  OBVIOUS
<1>4. T \subseteq S => Cardinality(S \ T) = Cardinality(S) - Cardinality(T)
  BY Zenon, <1>2, <1>3
<1>5. Cardinality(S) <= Cardinality(S \ T) + Cardinality(S \cap T)
  BY <1>1, <1>2
<1> QED BY <1>4, <1>5

Distinct(s, n) == \A i, j \in 1..n : i < j => s[i] # s[j]

\* What s holds at its places after a and up to b.
Places(s, a, b) == {s[i] : i \in (a + 1)..b}

\* Distinct elements of a sequence are as many as their places.
LEMMA CountPlaces ==
  ASSUME NEW S \in SUBSET Ids, NEW n \in Nat, NEW s \in [1..n -> S], Distinct(s, n),
         NEW a \in Nat, NEW b \in Nat, a <= b, b <= n
  PROVE  Cardinality(Places(s, a, b)) = b - a
<1> DEFINE I == (a + 1)..b
           T == {s[i] : i \in I}
           f == [i \in I |-> s[i]]
<1>1. IsFiniteSet(I) /\ Cardinality(I) = b - a
  <2>1. a + 1 \in Int /\ b \in Int
    OBVIOUS
  <2>2. IsFiniteSet(I) /\ Cardinality(I) = IF a + 1 > b THEN 0 ELSE b - (a + 1) + 1
    BY <2>1, FS_Interval
  <2> QED BY <2>2
<1>2. I \subseteq 1..n /\ \A i, j \in 1..n : i < j => s[i] # s[j]
  BY DEF Distinct
<1>3. f \in [I -> T]
  OBVIOUS
<1>4. \A i, j \in I : f[i] = f[j] => i = j
  BY <1>2
<1>5. \A x \in T : \E i \in I : f[i] = x
  OBVIOUS
<1> HIDE DEF I, T, f
<1>6. f \in Surjection(I, T) /\ f \in Injection(I, T)
  BY <1>3, <1>4, <1>5 DEF Surjection, Injection, IsInjective
<1>7. Cardinality(T) = Cardinality(I)
  BY <1>1, <1>6, FS_Surjection
<1> QED BY <1>1, <1>7 DEF T, I, Places

\* An order of the documents selected has each of them once.
LEMMA OrderIs ==
  ASSUME NEW S \in SUBSET Ids, NEW s \in Orders(S)
  PROVE  /\ Cardinality(S) \in Nat /\ s \in [1..Cardinality(S) -> S]
         /\ s \in Seq(S) /\ Len(s) = Cardinality(S)
         /\ \A i, j \in 1..Cardinality(S) : i < j => s[i] # s[j] /\ created[s[i]] <= created[s[j]]
         /\ \A x \in S : \E i \in 1..Cardinality(S) : s[i] = x
<1> DEFINE n == Cardinality(S)
<1>1. n \in Nat /\ IsFiniteSet(S)
  BY Count
<1>2. /\ s \in [1..n -> S]
      /\ \A i, j \in 1..n : i < j => s[i] # s[j] /\ created[s[i]] <= created[s[j]]
  BY DEF Orders
<1>3. s \in Seq(S) /\ Len(s) = n
  <2>1. s \in Seq(S)
    BY <1>1, <1>2, SeqDef
  <2>2. DOMAIN s = 1..n /\ DOMAIN s = 1..Len(s) /\ Len(s) \in Nat
    BY <1>2, <2>1, LenProperties
  <2> QED BY <1>1, <2>1, <2>2
<1>4. IsFiniteSet(1..n) /\ Cardinality(1..n) = n
  BY <1>1, FS_Interval
<1>5. \A i, j \in 1..n : s[i] = s[j] => i = j
  <2> SUFFICES ASSUME NEW i \in 1..n, NEW j \in 1..n, i # j PROVE s[i] # s[j]
    OBVIOUS
  <2>1. i < j \/ j < i
    BY <1>1
  <2> QED BY <1>2, <2>1
<1> HIDE DEF n
<1>6. s \in Injection(1..n, S)
  BY <1>2, <1>5 DEF Injection, IsInjective
<1>7. s \in Surjection(1..n, S)
  BY <1>1, <1>4, <1>6, FS_Injection DEF n
<1>8. \A x \in S : \E i \in 1..n : s[i] = x
  BY <1>7 DEF Surjection
<1> QED BY <1>1, <1>2, <1>3, <1>8 DEF n

-----------------------------------------------------------------------------
(* The inductive invariant *)

\* The documents of the list that the client got as they are.
Given == {id \in Selected(list) : list.got[id] = created[id]}

Listed(page) == {page[k] : k \in DOMAIN page}

\* The parts of the list that go up to some date.
Fronts == {P \in SUBSET Selected(list) :
             \A x \in P : \A y \in Selected(list) : created[y] < created[x] => y \in P}

Allowed == moves + late + again

\* No date is in the future; a document in hand is dated after what it replaces
\* and after what the client got; and that is of the interval of the list.
DInv ==
  /\ Second <= now
  /\ \A id \in Ids : created[id] <= now /\ list.got[id] <= now /\ stamp[id] <= now
  /\ \A id \in Ids : stamp[id] # NoDate => created[id] <= stamp[id] /\ list.got[id] <= stamp[id]
  /\ list.step # "none" => list.from = cursor
  /\ list.step = "none" => list = NoList
  /\ list.step # "count" => list.page = <<>>
  /\ \A id \in Ids : list.got[id] # NoDate =>
       /\ From(list.got[id], list.from)
       /\ created[id] = NoDate \/ list.got[id] <= created[id]

\* Of every part of the list that goes up to some date, the client got all, or
\* as many as the token counts, but for the losses allowed.
Covered ==
  \A P \in Fronts :
    \/ Cardinality(P) <= Cardinality(P \cap Given) + Allowed
    \/ Token(list) <= Cardinality(P \cap Given) + Allowed

IInv == TypeOK /\ DInv /\ Covered

-----------------------------------------------------------------------------
(* The model's operators *)

LEMMA Sets ==
  /\ \A l : Selected(l) \in SUBSET Ids
  /\ Given \in SUBSET Ids /\ Given \subseteq Selected(list)
  /\ Missed \in SUBSET Ids
BY DEF Selected, Given, Missed

\* A page is a part of the order, and a whole one unless the order ends.
LEMMA PageIs ==
  ASSUME NEW S \in SUBSET Ids, NEW s \in Orders(S), NEW o \in Nat,
         NEW p \in Nat, p = o \div maxListSize, NEW k, k = p * maxListSize
  PROVE  LET page == Page(s, o)
         IN  /\ page \in Seq(S) /\ Len(page) \in Nat /\ Listed(page) \in SUBSET S
             /\ Len(page) # maxListSize => Cardinality(S) <= k + Len(page)
             /\ Cardinality(Listed(page)) = Len(page)
             /\ Listed(page) = Places(s, k, k + Len(page))
             /\ Len(page) # 0 => k + Len(page) <= Cardinality(S)
<1> DEFINE n == Cardinality(S)
           b == IF k + maxListSize < n THEN k + maxListSize ELSE n
           page == SubSeq(s, k + 1, b)
<1>1. /\ n \in Nat /\ s \in [1..n -> S] /\ Len(s) = n
      /\ \A i, j \in 1..n : i < j => s[i] # s[j]
  BY OrderIs
<1>2. maxListSize \in Nat \ {0} /\ k \in Nat
  BY ListSizeAssumption, Multiples
<1>3. Page(s, o) = page
  BY <1>1, <1>2 DEF Page
<1> HIDE DEF n
<1>4. b \in Nat /\ b <= n /\ b <= k + maxListSize /\ (b < k + maxListSize => b = n)
  BY <1>1, <1>2
<1> HIDE DEF b
<1>5. /\ page \in Seq(S)
      /\ Len(page) = IF k + 1 <= b THEN b - (k + 1) + 1 ELSE 0
      /\ \A i \in 1..(b - (k + 1) + 1) : page[i] = s[(k + 1) + i - 1]
  <2>1. \A i \in (k + 1)..b : s[i] \in S
    BY <1>1, <1>2, <1>4
  <2>2. k + 1 \in Int /\ b \in Int
    BY <1>2, <1>4
  <2> QED BY <2>1, <2>2, SubSeqProperties
<1> HIDE DEF page
<1>6. DOMAIN page = 1..Len(page) /\ Len(page) \in Nat
  BY <1>5, LenProperties
<1>7. Listed(page) \in SUBSET S
  BY <1>5, <1>6, ElementOfSeq DEF Listed
<1>8. Len(page) # maxListSize => n <= k + Len(page)
  BY <1>1, <1>2, <1>4, <1>5
<1> DEFINE J == {j \in 1..n : k < j /\ j <= k + Len(page)}
<1>9. J = (k + 1)..(k + Len(page)) /\ (Len(page) # 0 => k + Len(page) <= n)
  BY <1>1, <1>2, <1>4, <1>5
<1> HIDE DEF J
<1>10. Listed(page) = {s[j] : j \in J}
  <2> DEFINE l == Len(page)
  <2>a. /\ k \in Nat /\ b \in Nat /\ l = IF k + 1 <= b THEN b - (k + 1) + 1 ELSE 0
        /\ l \in Nat /\ J = (k + 1)..(k + l)
    BY <1>2, <1>4, <1>5, <1>6, <1>9
  <2> HIDE DEF l
  <2>1. ASSUME NEW i \in 1..Len(page) PROVE page[i] \in {s[j] : j \in J}
    <3>i. i \in 1..l
      BY DEF l
    <3>1. k + i \in J /\ (k + 1) + i - 1 = k + i /\ i \in 1..(b - (k + 1) + 1)
      BY ONLY <2>a, <3>i
    <3> QED BY <1>5, <3>1
  <2>2. ASSUME NEW j \in J PROVE s[j] \in Listed(page)
    <3>1. j - k \in 1..Len(page) /\ (k + 1) + (j - k) - 1 = j /\ j - k \in 1..(b - (k + 1) + 1)
      BY <1>2, <1>4, <1>5, <1>6, <1>9
    <3> QED BY <1>5, <1>6, <3>1 DEF Listed
  <2> QED BY <1>6, <2>1, <2>2 DEF Listed
<1>11. Cardinality(Listed(page)) = Len(page)
  <2>1. CASE Len(page) = 0
    <3>1. Listed(page) = {}
      BY <1>6, <2>1 DEF Listed
    <3> QED BY <2>1, <3>1, FS_EmptySet
  <2>2. CASE Len(page) # 0
    <3>1. k + Len(page) <= n /\ k <= k + Len(page) /\ k + Len(page) \in Nat
      BY <1>2, <1>6, <1>9, <2>2
    <3>2. Distinct(s, n)
      BY <1>1 DEF Distinct
    <3>3. (k + Len(page)) - k = Len(page)
      BY <1>2, <1>6
    <3>4. \A b1 \in Nat : k <= b1 /\ b1 <= n => Cardinality(Places(s, k, b1)) = b1 - k
      <4>1. S \in SUBSET Ids /\ n \in Nat /\ s \in [1..n -> S] /\ k \in Nat /\ Distinct(s, n)
        BY <1>1, <1>2, <3>2
      <4> QED BY ONLY <4>1, CountPlaces
    <3>5. Cardinality(Places(s, k, k + Len(page))) = (k + Len(page)) - k
      BY <3>1, <3>4
    <3> QED BY <1>9, <1>10, <3>3, <3>5 DEF Places
  <2> QED BY <2>1, <2>2
<1>12. Listed(page) = Places(s, k, k + Len(page))
  BY <1>9, <1>10 DEF Places
<1> QED BY <1>3, <1>5, <1>6, <1>7, <1>8, <1>9, <1>11, <1>12 DEF n

-----------------------------------------------------------------------------
(* The types *)

LEMMA NoListType ==
  /\ NoList \in List /\ NoList.step = "none" /\ NoList.page = <<>> /\ NoList.oldCount = 0
  /\ NoList.from = NoDate /\ NoList.until = NoDate /\ NoList.date = NoDate
  /\ \A id \in Ids : NoList.got[id] = NoDate
  /\ Token(NoList) = 0
<1>1. NoList \in List
  BY DEF NoList, List, NoDate
<1>2. /\ NoList.step = "none" /\ NoList.page = <<>> /\ NoList.oldCount = 0
      /\ NoList.from = NoDate /\ NoList.until = NoDate /\ NoList.date = NoDate
      /\ \A id \in Ids : NoList.got[id] = NoDate
  BY DEF NoList
<1>3. Token(NoList) = 0
  BY <1>2 DEF Token
<1> QED BY <1>1, <1>2, <1>3

\* The fields of a list, and what its token counts.
LEMMA ListFields ==
  ASSUME NEW l \in List
  PROVE  /\ l.step \in {"none", "find", "count"} /\ l.from \in Nat /\ l.until \in Nat
         /\ l.oldCount \in Nat /\ l.page \in Seq(Ids) /\ l.date \in Nat /\ l.got \in [Ids -> Nat]
         /\ Len(l.page) \in Nat /\ Token(l) \in Nat
<1>1. /\ l.step \in {"none", "find", "count"} /\ l.from \in Nat /\ l.until \in Nat
      /\ l.oldCount \in Nat /\ l.page \in Seq(Ids) /\ l.date \in Nat /\ l.got \in [Ids -> Nat]
  BY DEF List
<1>2. Len(l.page) \in Nat
  BY <1>1, LenProperties
<1> QED BY <1>1, <1>2 DEF Token

\* What the steps of the client make of the list.
LEMMA ListRecordsEffect ==
  ASSUME TypeOK, NEW until \in Nat, ListRecords(until)
  PROVE  /\ list' \in List /\ list'.step = "find" /\ list'.from = cursor /\ list'.until = until
         /\ list'.oldCount = 0 /\ list'.page = <<>> /\ list'.date = SecondOf(now)
         /\ list'.got = NoList.got
<1>1. list' = [NoList EXCEPT !.step = "find", !.from = cursor, !.until = until,
                             !.date = SecondOf(now)]
  BY DEF ListRecords
<1>2. cursor \in Nat /\ SecondOf(now) \in Nat
  BY Seconds, 0 \in Nat DEF TypeOK
<1>3. NoList \in List /\ NoList.oldCount = 0 /\ NoList.page = <<>>
  BY NoListType
<1> HIDE DEF NoList
<1> QED BY <1>1, <1>2, <1>3 DEF List

LEMMA FindEffect ==
  ASSUME TypeOK, NEW s \in Orders(Selected(list)), NEW page, page = Page(s, list.oldCount),
         page \in Seq(Ids),
         list' = [list EXCEPT !.step = "count", !.page = page,
                    !.got = [id \in Ids |-> IF \E k \in DOMAIN page : page[k] = id
                                            THEN created[id] ELSE @[id]]]
  PROVE  /\ list' \in List /\ list'.step = "count" /\ list'.from = list.from
         /\ list'.until = list.until /\ list'.oldCount = list.oldCount /\ list'.page = page
         /\ list'.date = list.date
         /\ \A id \in Ids : list'.got[id] = IF id \in Listed(page) THEN created[id] ELSE list.got[id]
<1> DEFINE g == [id \in Ids |-> IF \E k \in DOMAIN page : page[k] = id
                                THEN created[id] ELSE list.got[id]]
<1>1. list \in List /\ list.got \in [Ids -> Nat] /\ created \in [Ids -> Nat]
  BY ListFields DEF TypeOK
<1>2. g \in [Ids -> Nat]
  BY <1>1
<1>3. \A id \in Ids : g[id] = IF id \in Listed(page) THEN created[id] ELSE list.got[id]
  BY DEF Listed
<1>4. list' = [list EXCEPT !.step = "count", !.page = page, !.got = g]
  OBVIOUS
<1> HIDE DEF g
<1> QED BY <1>1, <1>2, <1>3, <1>4 DEF List

LEMMA ResumeEffect ==
  ASSUME TypeOK, Resume
  PROVE  /\ list' \in List /\ list'.step = "find" /\ list'.from = list.from
         /\ list'.until = list.until /\ list'.oldCount = Token(list) /\ list'.page = <<>>
         /\ list'.date = SecondOf(now) /\ list'.got = list.got
<1>1. list' = [list EXCEPT !.step = "find", !.oldCount = Token(list), !.page = <<>>,
                           !.date = SecondOf(now)]
  BY DEF Resume
<1>2. list \in List /\ Token(list) \in Nat /\ SecondOf(now) \in Nat /\ <<>> \in Seq(Ids)
  BY Seconds, ListFields, EmptySeq, 0 \in Nat DEF TypeOK
<1> QED BY <1>1, <1>2 DEF List

\* The page of a response.
LEMMA FindPage ==
  ASSUME TypeOK, NEW s \in Orders(Selected(list))
  PROVE  /\ Page(s, list.oldCount) \in Seq(Ids)
         /\ Listed(Page(s, list.oldCount)) \subseteq Selected(list)
<1> DEFINE S == Selected(list)
           o == list.oldCount
           page == Page(s, o)
           p == o \div maxListSize
           k == p * maxListSize
<1>1. S \in SUBSET Ids /\ s \in Orders(S) /\ o \in Nat /\ p \in Nat /\ p = o \div maxListSize /\ k = p * maxListSize
  BY Sets, ListFields, ListSizeAssumption, Division DEF TypeOK
<1> HIDE DEF p, k, o, S
<1>2. page \in Seq(S) /\ Listed(page) \in SUBSET S
  BY <1>1, PageIs
<1> USE DEF o, S
<1>3. Seq(S) \subseteq Seq(Ids)
  BY <1>1
<1> QED BY <1>2, <1>3

\* Documents after a page that may come before it the next time.
LEMMA TiesType ==
  ASSUME NEW S \in SUBSET Ids, NEW s \in Orders(S), NEW page, NEW o
  PROVE  Ties(s, page, o) \in SUBSET Ids /\ Cardinality(Ties(s, page, o)) \in Nat
<1>1. s \in [1..Cardinality(S) -> S]
  BY OrderIs
<1>2. Ties(s, page, o) \in SUBSET Ids
  BY <1>1 DEF Ties
<1> QED BY <1>2, Count

LEMMA TypeInit == Init => TypeOK
<1> SUFFICES ASSUME Init PROVE TypeOK
  OBVIOUS
<1>1. Loaded \in [Ids -> Nat]
  BY LoadedAssumption, ClockAssumption
<1> QED BY <1>1, NoListType, ClockAssumption DEF Init, TypeOK, NoDate

\* The interval of a list that ends has an end in the past.
LEMMA Untils ==
  ASSUME TypeOK, DInv, NEW until \in {NoDate, SecondOf(now) - 1}
  PROVE  until \in Nat /\ until + 1 <= SecondOf(now)
<1>1. now \in Nat /\ Second \in Nat \ {0} /\ Second <= now /\ SecondOf(now) \in Nat
  BY ClockAssumption, Seconds, 0 \in Nat DEF TypeOK, DInv
<1>2. StartOf(1) = Second
  BY <1>1 DEF StartOf
<1>3. ~(SecondOf(now) < 1)
  BY <1>1, <1>2, Seconds, 1 \in Nat
<1> QED BY <1>1, <1>3 DEF NoDate

\* What the steps other than the client's do.
LEMMA ImportEffect ==
  ASSUME TypeOK, NEW id \in Ids, Import(id)
  PROVE  /\ stamp' \in [Ids -> Nat] /\ stamp'[id] = now
         /\ \A x \in Ids \ {id} : stamp'[x] = stamp[x]
         /\ imports' \in Nat /\ written' \subseteq Ids
         /\ now' = now /\ created' = created /\ list' = list /\ copy' = copy /\ cursor' = cursor
         /\ moves' = moves /\ late' = late /\ again' = again /\ wipes' = wipes
BY DEF Import, TypeOK, client, history

LEMMA WipeEffect ==
  ASSUME TypeOK, NEW ids \in Repositories, Wipe(ids)
  PROVE  /\ stamp' \in [Ids -> Nat]
         /\ \A x \in Ids : stamp'[x] \in {NoDate, stamp[x]}
         /\ wipes' \in Nat /\ written' \subseteq Ids
         /\ now' = now /\ created' = created /\ list' = list /\ copy' = copy /\ cursor' = cursor
         /\ moves' = moves /\ late' = late /\ again' = again /\ imports' = imports
<1> DEFINE rows == {id \in ids : created[id] # NoDate}
<1>1. /\ wipes' = wipes + 1 /\ written' = written \cup rows
      /\ stamp' = [id \in Ids |-> IF id \in rows THEN NoDate ELSE stamp[id]]
      /\ UNCHANGED <<now, created, client, history, imports>>
  BY DEF Wipe
<1>2. ids \in SUBSET Ids /\ rows \subseteq Ids
  BY LoadedAssumption
<1> HIDE DEF rows
<1> QED BY <1>1, <1>2 DEF TypeOK, client, history, NoDate

LEMMA EndsEffect ==
  ASSUME TypeOK, NEW ids \in SUBSET written, Ends(ids)
  PROVE  /\ stamp' \in [Ids -> Nat] /\ ids \in SUBSET Ids
         /\ \A x \in Ids : stamp'[x] = IF x \in ids THEN NoDate ELSE stamp[x]
         /\ written' \subseteq Ids
         /\ now' = now /\ list' = list /\ copy' = copy /\ cursor' = cursor
         /\ again' = again /\ imports' = imports /\ wipes' = wipes
BY DEF Ends, TypeOK, client, NoDate

LEMMA CommitEffect ==
  ASSUME TypeOK, NEW ids \in SUBSET written, Commit(ids)
  PROVE  /\ created' \in [Ids -> Nat]
         /\ \A x \in Ids : created'[x] = IF x \in ids THEN stamp[x] ELSE created[x]
         /\ Leaving(ids) \in SUBSET Ids /\ Passed(ids) \in SUBSET Ids
         /\ Cardinality(Leaving(ids)) \in Nat /\ Cardinality(Passed(ids)) \in Nat
         /\ moves' \in Nat /\ moves' = moves + Cardinality(Leaving(ids))
         /\ late' \in Nat /\ late' = late + Cardinality(Passed(ids))
<1>1. /\ created' = [id \in Ids |-> IF id \in ids THEN stamp[id] ELSE created[id]]
      /\ moves' = moves + Cardinality(Leaving(ids)) /\ late' = late + Cardinality(Passed(ids))
  BY DEF Commit
<1>2. ids \in SUBSET Ids /\ created \in [Ids -> Nat] /\ stamp \in [Ids -> Nat]
      /\ moves \in Nat /\ late \in Nat
  BY DEF TypeOK
<1>3. Leaving(ids) \in SUBSET Ids /\ Passed(ids) \in SUBSET Ids
  BY <1>2 DEF Leaving, Passed
<1>4. Cardinality(Leaving(ids)) \in Nat /\ Cardinality(Passed(ids)) \in Nat
  BY <1>3, Count
<1> QED BY <1>1, <1>2, <1>3, <1>4

\* A response: the documents in an order, the page, what the client has got and
\* what the next page may give again.
LEMMA FindStep ==
  ASSUME TypeOK, Find
  PROVE  \E s \in Orders(Selected(list)) :
           LET page == Page(s, list.oldCount)
           IN  /\ list' \in List /\ list'.step = "count" /\ list'.from = list.from
               /\ list'.until = list.until /\ list'.oldCount = list.oldCount /\ list'.page = page
               /\ \A id \in Ids : list'.got[id] = IF id \in Listed(page) THEN created[id] ELSE list.got[id]
               /\ again' = again + (list.oldCount % maxListSize)
                                 + Cardinality(Ties(s, page, list.oldCount))
<1>1. PICK s \in Orders(Selected(list)) :
        LET page == Page(s, list.oldCount)
        IN  /\ list' = [list EXCEPT !.step = "count", !.page = page,
                          !.got = [id \in Ids |-> IF \E k \in DOMAIN page : page[k] = id
                                                  THEN created[id] ELSE @[id]]]
            /\ again' = again + (list.oldCount % maxListSize)
                              + Cardinality(Ties(s, page, list.oldCount))
  BY DEF Find
<1> QED BY <1>1, FindPage, FindEffect

LEMMA Remainder ==
  ASSUME NEW o \in Nat
  PROVE  /\ o % maxListSize \in Nat
         /\ o = (o \div maxListSize) * maxListSize + (o % maxListSize)
BY ListSizeAssumption

LEMMA TypeNext == TypeOK /\ DInv /\ [Next]_vars => TypeOK'
<1> SUFFICES ASSUME TypeOK, DInv, [Next]_vars PROVE TypeOK'
  OBVIOUS
<1>t. /\ now \in Nat /\ cursor \in Nat /\ moves \in Nat /\ late \in Nat /\ again \in Nat
      /\ imports \in Nat /\ wipes \in Nat
      /\ created \in [Ids -> Nat] /\ stamp \in [Ids -> Nat] /\ written \subseteq Ids
      /\ copy \in [Ids -> Nat] /\ list \in List /\ list.got \in [Ids -> Nat]
  BY ListFields DEF TypeOK
<1>1. CASE Tick
  BY <1>t, <1>1 DEF Tick, open, client, history, TypeOK
<1>2. ASSUME NEW id \in Ids, Import(id) PROVE TypeOK'
  BY <1>t, <1>2, ImportEffect DEF TypeOK
<1>3. ASSUME NEW ids \in Repositories, Wipe(ids) PROVE TypeOK'
  BY <1>t, <1>3, WipeEffect DEF TypeOK
<1>4. ASSUME NEW ids \in SUBSET written, Commit(ids) PROVE TypeOK'
  <2>1. Ends(ids)
    BY <1>4 DEF Commit
  <2> QED BY <1>t, <1>4, <2>1, EndsEffect, CommitEffect DEF TypeOK
<1>5. ASSUME NEW ids \in SUBSET written, Rollback(ids) PROVE TypeOK'
  <2>1. Ends(ids) /\ UNCHANGED <<created, moves, late>>
    BY <1>5 DEF Rollback
  <2> QED BY <1>t, <2>1, EndsEffect DEF TypeOK
<1>6. ASSUME NEW until \in {NoDate, SecondOf(now) - 1}, ListRecords(until) PROVE TypeOK'
  <2>1. list' \in List
    BY <1>6, Untils, ListRecordsEffect
  <2> QED BY <1>t, <1>6, <2>1 DEF ListRecords, open, history, TypeOK
<1>7. CASE Find
  <2>1. PICK s \in Orders(Selected(list)) :
          /\ list' \in List
          /\ again' = again + (list.oldCount % maxListSize)
                            + Cardinality(Ties(s, Page(s, list.oldCount), list.oldCount))
    BY <1>7, FindStep
  <2>2. list.oldCount % maxListSize \in Nat
    BY <1>t, ListFields, Remainder
  <2>3. Cardinality(Ties(s, Page(s, list.oldCount), list.oldCount)) \in Nat
    BY Sets, TiesType
  <2>4. again' \in Nat
    BY <1>t, <2>1, <2>2, <2>3
  <2>5. UNCHANGED <<now, created, open, copy, cursor, moves, late>>
    BY <1>7 DEF Find
  <2> QED BY <1>t, <2>1, <2>4, <2>5 DEF open, TypeOK
<1>8. CASE Resume
  <2>1. list' \in List
    BY <1>8, ResumeEffect
  <2> QED BY <1>t, <1>8, <2>1 DEF Resume, open, history, TypeOK
<1>9. CASE Finish
  <2>1. cursor' \in Nat
    BY <1>9, ListFields DEF Finish, Cursor, TypeOK
  <2>2. /\ copy' = [id \in Ids |-> IF list.got[id] # NoDate THEN list.got[id] ELSE copy[id]]
        /\ list' = NoList /\ NoHistory /\ UNCHANGED <<now, created, open>>
    BY <1>9 DEF Finish
  <2> QED BY <1>t, <2>1, <2>2, NoListType DEF open, NoHistory, TypeOK
<1>10. CASE Fail
  BY <1>t, <1>10, NoListType DEF Fail, NoHistory, open, TypeOK
<1>11. CASE UNCHANGED vars
  BY <1>t, <1>11 DEF vars, TypeOK
<1> QED BY <1>1, <1>2, <1>3, <1>4, <1>5, <1>6, <1>7, <1>8, <1>9, <1>10, <1>11 DEF Next

-----------------------------------------------------------------------------
(* Dates *)

\* A document of a list is there, at a date of its interval.
LEMMA InSelected ==
  ASSUME NEW l, NEW x \in Selected(l)
  PROVE  x \in Ids /\ created[x] # NoDate /\ From(created[x], l.from) /\ Until(created[x], l.until)
BY DEF Selected

\* What is dated after a date of an interval without an end is in it too.
LEMMA FromGrows ==
  ASSUME NEW t \in Nat, NEW u \in Nat, NEW from \in Nat, t <= u, From(t, from)
  PROVE  From(u, from)
<1>1. StartOf(from) \in Nat
  BY Seconds, 0 \in Nat
<1> QED BY <1>1 DEF From

LEMMA DatesInit == Init => DInv
<1> SUFFICES ASSUME Init PROVE DInv
  OBVIOUS
<1>1. /\ now = FirstTick /\ created = Loaded /\ list = NoList /\ now \in Nat /\ Second <= now
      /\ \A id \in Ids : stamp[id] = 0
  BY ClockAssumption DEF Init, NoDate
<1>2. \A id \in Ids : created[id] <= now
  BY <1>1, LoadedAssumption
<1>3. \A id \in Ids : list.got[id] = 0
  BY <1>1, NoListType DEF NoDate
<1> QED BY <1>1, <1>2, <1>3, NoListType DEF DInv, NoDate

\* A list that is given up leaves nothing to say of it.
LEMMA DatesNoList ==
  ASSUME TypeOK, DInv, list' = NoList, now' = now, created' = created, stamp' = stamp
  PROVE  DInv'
<1>1. \A id \in Ids : list'.got[id] = 0
  BY NoListType DEF NoDate
<1>2. /\ now \in Nat /\ Second <= now
      /\ \A id \in Ids : created[id] <= now /\ stamp[id] <= now
      /\ \A id \in Ids : created[id] \in Nat /\ stamp[id] \in Nat
      /\ \A id \in Ids : stamp[id] # NoDate => created[id] <= stamp[id]
  BY DEF DInv, TypeOK
<1> QED BY <1>1, <1>2, NoListType DEF DInv, NoDate

LEMMA DatesNext == TypeOK /\ DInv /\ [Next]_vars => DInv'
<1> SUFFICES ASSUME TypeOK, DInv, [Next]_vars PROVE DInv'
  OBVIOUS
<1>t. /\ now \in Nat /\ Second \in Nat /\ list \in List
      /\ \A id \in Ids : created[id] \in Nat /\ list.got[id] \in Nat /\ stamp[id] \in Nat
      /\ list.from \in Nat
  BY ListFields, ClockAssumption DEF TypeOK
<1>d. /\ Second <= now
      /\ \A id \in Ids : created[id] <= now /\ list.got[id] <= now /\ stamp[id] <= now
      /\ \A id \in Ids : stamp[id] # NoDate => created[id] <= stamp[id] /\ list.got[id] <= stamp[id]
      /\ list.step # "none" => list.from = cursor
      /\ list.step = "none" => list = NoList
      /\ list.step # "count" => list.page = <<>>
      /\ \A id \in Ids : list.got[id] # NoDate =>
           /\ From(list.got[id], list.from)
           /\ created[id] = NoDate \/ list.got[id] <= created[id]
  BY DEF DInv
<1>1. CASE Tick
  <2>1. /\ now' = now + 1 /\ created' = created /\ stamp' = stamp /\ list' = list /\ cursor' = cursor
    BY <1>1 DEF Tick, open, client
  <2> QED BY <1>t, <1>d, <2>1 DEF DInv, From, StartOf
<1>2. ASSUME NEW id \in Ids, Import(id) PROVE DInv'
  BY <1>t, <1>d, <1>2, ImportEffect DEF DInv, From, StartOf
<1>3. ASSUME NEW ids \in Repositories, Wipe(ids) PROVE DInv'
  <2>1. /\ \A x \in Ids : stamp'[x] \in {NoDate, stamp[x]}
        /\ now' = now /\ created' = created /\ list' = list /\ cursor' = cursor
    BY <1>3, WipeEffect
  <2> QED BY <1>t, <1>d, <2>1 DEF DInv, From, StartOf, NoDate
<1>4. ASSUME NEW ids \in SUBSET written, Commit(ids) PROVE DInv'
  <2>1. /\ \A x \in Ids : stamp'[x] = IF x \in ids THEN NoDate ELSE stamp[x]
        /\ \A x \in Ids : created'[x] = IF x \in ids THEN stamp[x] ELSE created[x]
        /\ now' = now /\ list' = list /\ cursor' = cursor
    BY <1>4, EndsEffect, CommitEffect DEF Commit
  <2>2. \A id \in Ids : /\ created'[id] <= now /\ stamp'[id] <= now
                        /\ stamp'[id] # NoDate => created'[id] <= stamp'[id] /\ list.got[id] <= stamp'[id]
                        /\ list.got[id] # NoDate => created'[id] = NoDate \/ list.got[id] <= created'[id]
    BY <1>t, <1>d, <2>1 DEF NoDate
  <2> QED BY <1>t, <1>d, <2>1, <2>2 DEF DInv, From, StartOf, NoDate
<1>5. ASSUME NEW ids \in SUBSET written, Rollback(ids) PROVE DInv'
  <2>1. /\ \A x \in Ids : stamp'[x] = IF x \in ids THEN NoDate ELSE stamp[x]
        /\ now' = now /\ created' = created /\ list' = list /\ cursor' = cursor
    BY <1>5, EndsEffect DEF Rollback
  <2> QED BY <1>t, <1>d, <2>1 DEF DInv, From, StartOf, NoDate
<1>6. ASSUME NEW until \in {NoDate, SecondOf(now) - 1}, ListRecords(until) PROVE DInv'
  <2>1. /\ list'.step = "find" /\ list'.from = cursor /\ list'.page = <<>>
        /\ \A id \in Ids : list'.got[id] = 0
    BY <1>6, Untils, ListRecordsEffect, NoListType DEF NoDate
  <2>2. now' = now /\ created' = created /\ stamp' = stamp /\ cursor' = cursor
    BY <1>6 DEF ListRecords, open
  <2> QED BY <1>t, <1>d, <2>1, <2>2 DEF DInv, NoDate
<1>7. CASE Find
  <2>1. PICK s \in Orders(Selected(list)) :
          /\ list'.step = "count" /\ list'.from = list.from
          /\ \A id \in Ids : list'.got[id] = IF id \in Listed(Page(s, list.oldCount))
                                             THEN created[id] ELSE list.got[id]
    BY <1>7, FindStep
  <2>2. \A id \in Listed(Page(s, list.oldCount)) : From(created[id], list.from)
    BY FindPage, InSelected
  <2>3. /\ now' = now /\ created' = created /\ stamp' = stamp /\ cursor' = cursor /\ list.step = "find"
    BY <1>7 DEF Find, open
  <2>4. \A id \in Ids : /\ list'.got[id] <= now
                        /\ stamp[id] # NoDate => list'.got[id] <= stamp[id]
                        /\ list'.got[id] # NoDate =>
                             /\ From(list'.got[id], list.from)
                             /\ created[id] = NoDate \/ list'.got[id] <= created[id]
    BY <1>t, <1>d, <2>1, <2>2
  <2> QED BY <1>t, <1>d, <2>1, <2>3, <2>4 DEF DInv, From, StartOf
<1>8. CASE Resume
  <2>1. /\ list'.step = "find" /\ list'.from = list.from /\ list'.page = <<>> /\ list'.got = list.got
    BY <1>8, ResumeEffect
  <2>2. /\ now' = now /\ created' = created /\ stamp' = stamp /\ cursor' = cursor /\ list.step = "count"
    BY <1>8 DEF Resume, open
  <2> QED BY <1>t, <1>d, <2>1, <2>2 DEF DInv, From, StartOf
<1>9. CASE Finish
  BY <1>9, DatesNoList DEF Finish, open
<1>10. CASE Fail
  BY <1>10, DatesNoList DEF Fail, open
<1>11. CASE UNCHANGED vars
  BY <1>d, <1>11 DEF DInv, vars, From, StartOf
<1> QED BY <1>1, <1>2, <1>3, <1>4, <1>5, <1>6, <1>7, <1>8, <1>9, <1>10, <1>11 DEF Next

-----------------------------------------------------------------------------
(* What the pages have covered *)

\* The sets of the invariant after a step.
LEMMA SetsNext ==
  /\ Selected(list)' =
       {y \in Ids : /\ created'[y] # NoDate
                    /\ From(created'[y], list'.from) /\ Until(created'[y], list'.until)}
  /\ Given' = {x \in Selected(list)' : list'.got[x] = created'[x]}
  /\ Fronts' = {P \in SUBSET Selected(list)' :
                  \A x \in P : \A y \in Selected(list)' : created'[y] < created'[x] => y \in P}
<1>1. Selected(list)' =
       {y \in Ids : /\ created'[y] # NoDate
                    /\ From(created'[y], list'.from) /\ Until(created'[y], list'.until)}
  BY DEF Selected, From, Until, StartOf, NoDate
<1>2. Given' = {x \in Selected(list)' : list'.got[x] = created'[x]}
  BY DEF Given
<1>3. Fronts' = {P \in SUBSET Selected(list)' :
                  \A x \in P : \A y \in Selected(list)' : created'[y] < created'[x] => y \in P}
  BY DEF Fronts
<1> QED BY <1>1, <1>2, <1>3

\* ... when neither dates nor the interval change.
LEMMA SameSets ==
  ASSUME created' = created, list'.from = list.from, list'.until = list.until
  PROVE  /\ Selected(list)' = Selected(list) /\ Fronts' = Fronts
         /\ Given' = {x \in Selected(list) : list'.got[x] = created[x]}
<1>1. Selected(list)' = Selected(list)
  BY SetsNext DEF Selected
<1> QED BY <1>1, SetsNext DEF Fronts

\* A step that touches none of it.
LEMMA SameCovered ==
  ASSUME Covered, created' = created, list'.from = list.from, list'.until = list.until,
         list'.got = list.got, Token(list)' = Token(list), Allowed' = Allowed
  PROVE  Covered'
<1>1. Fronts' = Fronts /\ Given' = Given
  BY SameSets DEF Given
<1> QED BY <1>1 DEF Covered

LEMMA Sums ==
  \A x, y, z \in Nat : x + y + z \in Nat
OBVIOUS

\* Nothing has been listed.
LEMMA NothingCovered ==
  ASSUME TypeOK', Token(list)' = 0
  PROVE  Covered'
<1>1. Allowed' \in Nat
  <2>1. moves' \in Nat /\ late' \in Nat /\ again' \in Nat
    BY DEF TypeOK
  <2>2. moves' + late' + again' \in Nat
    BY ONLY <2>1, Sums
  <2>3. Allowed' = moves' + late' + again'
    BY DEF Allowed
  <2> QED BY ONLY <2>2, <2>3
<1>2. \A P : P \in Fronts' => Cardinality(P \cap Given') \in Nat
  <2>1. Given' \in SUBSET Ids
    BY SetsNext
  <2>2. \A P : P \cap Given' \in SUBSET Ids
    BY <2>1
  <2> QED BY <2>2, Count
<1> QED BY <1>1, <1>2 DEF Covered

\* A commit: each document that leaves its place, and each that comes to a place
\* listed already, is one loss more.
LEMMA CoveredCommit ==
  ASSUME TypeOK, TypeOK', Covered, NEW ids \in SUBSET written, Commit(ids)
  PROVE  Covered'
<1> DEFINE S == Selected(list)
           G == Given
           C == Given'
           t == Token(list)
           b == Allowed
           left == Cardinality(ids \cap S)
           passed == Cardinality(Passed(ids))
<1>1. /\ ids \in SUBSET Ids /\ list' = list
      /\ \A x \in Ids : created'[x] = IF x \in ids THEN stamp[x] ELSE created[x]
      /\ \A x \in Ids : created[x] \in Nat /\ stamp[x] \in Nat
      /\ again' = again /\ moves' = moves + Cardinality(Leaving(ids)) /\ late' = late + passed
      /\ Passed(ids) \in SUBSET Ids /\ passed \in Nat /\ Cardinality(Leaving(ids)) \in Nat
  BY EndsEffect, CommitEffect DEF Commit, TypeOK
<1>2. /\ t \in Nat /\ b \in Nat /\ Token(list)' = t
      /\ Allowed' = b + Cardinality(Leaving(ids)) + passed
  <2>1. t \in Nat /\ moves \in Nat /\ late \in Nat /\ again \in Nat
    BY ListFields DEF TypeOK
  <2>2. Token(list)' = t
    BY <1>1 DEF Token
  <2> QED BY <1>1, <2>1, <2>2 DEF Allowed
<1>3. CASE t = 0
  BY <1>2, <1>3, NothingCovered
<1>4. CASE t # 0
  <2>1. Leaving(ids) = ids \cap S /\ Allowed' = b + left + passed /\ left \in Nat
    BY <1>1, <1>2, <1>4 DEF Leaving
  <2>2. /\ S \in SUBSET Ids /\ G \subseteq S
        /\ \A x \in S : x \notin ids => (x \in G => x \in C)
        /\ C \in SUBSET Ids
    BY <1>1, Sets, SetsNext DEF Given, Selected
  <2> SUFFICES ASSUME NEW P \in Fronts'
               PROVE  \/ Cardinality(P) <= Cardinality(P \cap C) + (b + left + passed)
                      \/ t <= Cardinality(P \cap C) + (b + left + passed)
    BY <1>2, <2>1 DEF Covered
  <2>3. /\ P \in SUBSET Ids
        /\ \A x \in P : created'[x] # NoDate /\ From(created'[x], list.from) /\ Until(created'[x], list.until)
        /\ \A x \in P : x \notin ids => x \in S
        /\ \A x \in P : \A y \in S : y \notin ids /\ created[y] < created'[x] => y \in P
    BY <1>1, SetsNext DEF Selected
  <2> DEFINE new == (P \cap ids) \ S
  <2>4. CASE new \subseteq Passed(ids)
    <3> DEFINE Q == P \ ids
               Y == {y \in ids \cap S : \E x \in Q : created[y] < created[x]}
               F == Q \cup Y
    <3>1. F \in Fronts
      <4>1. F \in SUBSET S
        BY <2>3
      <4>2. ASSUME NEW x \in F, NEW y \in S, created[y] < created[x] PROVE y \in F
        <5>1. \E z \in Q : created[y] < created[z]
          <6>1. CASE x \in Q
            BY <4>2, <6>1
          <6>2. CASE x \in Y
            <7>1. PICK z \in Q : created[x] < created[z]
              BY <6>2
            <7>2. x \in Ids /\ y \in Ids /\ z \in Ids
              BY <2>2, <2>3, <4>1
            <7> QED BY <1>1, <4>2, <7>1, <7>2
          <6> QED BY <6>1, <6>2
        <5>2. PICK z \in Q : created[y] < created[z]
          BY <5>1
        <5>3. created'[z] = created[z]
          BY <1>1, <2>3
        <5> QED BY <2>3, <5>2, <5>3
      <4> HIDE DEF F
      <4> QED BY <4>1, <4>2 DEF Fronts
    <3>2. \/ Cardinality(F) <= Cardinality(F \cap G) + b
          \/ t <= Cardinality(F \cap G) + b
      BY <3>1 DEF Covered
    <3> DEFINE k == Cardinality(Y)
               q == Cardinality(Q)
               g == Cardinality(Q \cap G)
    <3>3. /\ Q \in SUBSET Ids /\ Y \in SUBSET Ids /\ Q \cap G \in SUBSET Ids /\ P \cap C \in SUBSET Ids
          /\ F \cap G \in SUBSET Ids /\ F \in SUBSET Ids
          /\ ids \cap S \in SUBSET Ids /\ new \in SUBSET Ids /\ (P \cap ids) \cap S \in SUBSET Ids
      BY <1>1, <2>2, <2>3
    <3>4. /\ k \in Nat /\ q \in Nat /\ g \in Nat /\ Cardinality(P \cap C) \in Nat /\ Cardinality(P) \in Nat
          /\ Cardinality(F \cap G) \in Nat /\ Cardinality(F) \in Nat
      BY <2>3, <3>3, Count
    <3>5. Cardinality(F) = q + k
      BY <3>3, CountUnion, Q \cap Y = {}
    <3>6. Cardinality(F \cap G) <= g + k
      <4>1. F \cap G \subseteq (Q \cap G) \cup Y /\ (Q \cap G) \cup Y \in SUBSET Ids
        BY <3>3
      <4>2. Cardinality(F \cap G) <= Cardinality((Q \cap G) \cup Y)
        BY <3>3, <4>1, CountSubset
      <4>3. Cardinality((Q \cap G) \cup Y) <= g + k /\ Cardinality((Q \cap G) \cup Y) \in Nat
        BY <3>3, <4>1, Count, CountUnion
      <4> QED BY <3>4, <4>2, <4>3
    <3>7. g <= Cardinality(P \cap C)
      <4>1. Q \cap G \subseteq P \cap C
        BY <2>2
      <4> QED BY <3>3, <4>1, CountSubset
    <3>8. Cardinality(P) <= q + left + passed
      <4> DEFINE old == (P \cap ids) \cap S
      <4>1. P = Q \cup (old \cup new)
        OBVIOUS
      <4>2. /\ Cardinality(old) \in Nat /\ Cardinality(old) <= left
            /\ Cardinality(new) \in Nat /\ Cardinality(new) <= passed
        BY <1>1, <2>4, <3>3, Count, CountSubset
      <4>3. old \cup new \in SUBSET Ids
        BY <3>3
      <4>4. Cardinality(old \cup new) \in Nat /\ Cardinality(old \cup new) <= Cardinality(old) + Cardinality(new)
        BY <3>3, <4>3, Count, CountUnion
      <4>5. Cardinality(P) <= q + Cardinality(old \cup new)
        BY <3>3, <4>1, <4>3, CountUnion
      <4> HIDE DEF old, new, q, left, passed
      <4> QED BY <1>1, <2>1, <3>4, <4>2, <4>4, <4>5
    <3> DEFINE f == Cardinality(F)
               fg == Cardinality(F \cap G)
               p == Cardinality(P)
               pc == Cardinality(P \cap C)
    <3>9. /\ k \in Nat /\ q \in Nat /\ g \in Nat /\ pc \in Nat /\ p \in Nat /\ fg \in Nat
          /\ left \in Nat /\ passed \in Nat /\ b \in Nat /\ t \in Nat
          /\ f = q + k /\ fg <= g + k /\ g <= pc /\ p <= q + left + passed
          /\ f <= fg + b \/ t <= fg + b
      BY <1>1, <1>2, <2>1, <3>2, <3>4, <3>5, <3>6, <3>7, <3>8
    <3>10. k <= left
      BY <3>3, CountSubset
    <3> HIDE DEF k, q, g, f, fg, p, pc, left, passed, b, t
    <3>11. p <= pc + (b + left + passed) \/ t <= pc + (b + left + passed)
      BY ONLY <3>9, <3>10
    <3> QED BY <3>11 DEF p, pc
  <2>5. CASE ~(new \subseteq Passed(ids))
    <3>1. PICK n \in new : n \notin Passed(ids)
      BY <2>5
    <3> DEFINE F == {x \in S : created[x] < stamp[n]}
    <3>2. /\ n \in Ids /\ n \in ids /\ n \in P /\ created'[n] = stamp[n]
          /\ stamp[n] # NoDate /\ n \notin S
          /\ From(stamp[n], list.from) /\ Until(stamp[n], list.until)
      BY <1>1, <2>3, <3>1
    <3>3. ~(Cardinality(F) < t)
      BY <3>1, <3>2 DEF Passed
    <3>4. F \in Fronts
      <4>1. F \in SUBSET S
        OBVIOUS
      <4>2. ASSUME NEW x \in F, NEW y \in S, created[y] < created[x] PROVE y \in F
        <5>1. x \in Ids /\ y \in Ids
          BY <2>2
        <5> QED BY <1>1, <3>2, <4>2, <5>1
      <4> HIDE DEF F
      <4> QED BY <4>1, <4>2 DEF Fronts
    <3>5. \/ Cardinality(F) <= Cardinality(F \cap G) + b
          \/ t <= Cardinality(F \cap G) + b
      BY <3>4 DEF Covered
    <3>6. /\ F \in SUBSET Ids /\ F \cap G \in SUBSET Ids /\ P \cap C \in SUBSET Ids /\ ids \cap S \in SUBSET Ids
          /\ (P \cap C) \cup (ids \cap S) \in SUBSET Ids
      BY <1>1, <2>2, <2>3
    <3>7. /\ Cardinality(F) \in Nat /\ Cardinality(F \cap G) \in Nat /\ Cardinality(P \cap C) \in Nat
          /\ Cardinality((P \cap C) \cup (ids \cap S)) \in Nat
      BY <3>6, Count
    <3>8. F \cap G \subseteq (P \cap C) \cup (ids \cap S)
      BY <2>2, <2>3, <3>2
    <3>9. Cardinality(F \cap G) <= Cardinality((P \cap C) \cup (ids \cap S))
      BY <3>6, <3>8, CountSubset
    <3>10. Cardinality((P \cap C) \cup (ids \cap S)) <= Cardinality(P \cap C) + left
      BY <3>6, CountUnion
    <3> HIDE DEF F, left, passed, b, t
    <3> QED BY <1>1, <1>2, <2>1, <3>3, <3>5, <3>7, <3>9, <3>10
  <2> QED BY <2>4, <2>5
<1> QED BY <1>2, <1>3, <1>4

\* A page that begins before the token gives its first places again, and one that
\* ends within a date may be followed by others of that date.
LEMMA CoveredFind ==
  ASSUME TypeOK, TypeOK', DInv, Covered, Find
  PROVE  Covered'
<1> DEFINE S == Selected(list)
           n == Cardinality(S)
           G == Given
           C == Given'
           b == Allowed
           o == list.oldCount
           p == o \div maxListSize
           a == p * maxListSize
           r == o % maxListSize
<1>1. PICK s \in Orders(S) :
        /\ list'.from = list.from /\ list'.until = list.until /\ list'.oldCount = o
        /\ list'.page = Page(s, o)
        /\ \A id \in Ids : list'.got[id] = IF id \in Listed(Page(s, o)) THEN created[id] ELSE list.got[id]
        /\ again' = again + r + Cardinality(Ties(s, Page(s, o), o))
  BY FindStep
<1> DEFINE page == Page(s, o)
           l == Len(page)
           ties == Cardinality(Ties(s, page, o))
<1>2. /\ S \in SUBSET Ids /\ G \subseteq S /\ o \in Nat /\ p \in Nat /\ a \in Nat /\ r \in Nat /\ o = a + r
      /\ Token(list) = o /\ \A x \in Ids : created[x] \in Nat
  <2>1. list \in List /\ list.oldCount \in Nat /\ list.page = <<>>
    BY ListFields DEF TypeOK, DInv, Find
  <2>2. Token(list) = o
    BY <2>1, Len(<<>>) = 0 DEF Token
  <2>3. p \in Nat /\ a \in Nat
    BY <2>1, ListSizeAssumption, Division, Multiples
  <2> QED BY <2>1, <2>2, <2>3, Sets, Remainder DEF TypeOK
<1>3. /\ l \in Nat /\ Listed(page) \in SUBSET S
      /\ Listed(page) = Places(s, a, a + l) /\ (l # 0 => a + l <= n)
      /\ Cardinality(Listed(page)) = l
  <2> p = o \div maxListSize /\ a = p * maxListSize
    OBVIOUS
  <2> HIDE DEF p, a, o, S
  <2>1. S \in SUBSET Ids /\ s \in Orders(S) /\ o \in Nat /\ p \in Nat
    BY <1>2 DEF S
  <2>2. /\ Len(Page(s, o)) \in Nat /\ Listed(Page(s, o)) \in SUBSET S
        /\ Listed(Page(s, o)) = Places(s, a, a + Len(Page(s, o)))
        /\ Len(Page(s, o)) # 0 => a + Len(Page(s, o)) <= Cardinality(S)
        /\ Cardinality(Listed(Page(s, o))) = Len(Page(s, o))
    BY <2>1, PageIs
  <2> QED BY <2>2 DEF o, S
<1>4. ties \in Nat /\ Ties(s, page, o) \in SUBSET Ids
  BY <1>2, TiesType
<1>5. b \in Nat /\ Token(list)' = o + l /\ Allowed' = b + r + ties
  <2>1. moves \in Nat /\ late \in Nat /\ again \in Nat /\ moves' = moves /\ late' = late
    BY DEF TypeOK, Find
  <2>2. b \in Nat
    BY <2>1 DEF Allowed
  <2>3. Allowed' = moves' + late' + again'
    BY DEF Allowed
  <2>4. Token(list)' = o + l
    BY <1>1 DEF Token
  <2> HIDE DEF o, r, ties, l
  <2>5. Allowed' = b + r + ties
    BY <1>1, <1>2, <1>4, <2>1, <2>3 DEF Allowed, ties
  <2> QED BY <2>2, <2>4, <2>5
<1>6. Fronts' = Fronts /\ C = {x \in S : list'.got[x] = created[x]}
  <2>1. created' = created
    BY DEF Find
  <2> QED BY <1>1, <2>1, SameSets
<1>7. C \in SUBSET Ids /\ G \subseteq C /\ Listed(page) \subseteq C
  BY <1>1, <1>2, <1>3, <1>6 DEF Given
<1> SUFFICES ASSUME NEW P \in Fronts
             PROVE  \/ Cardinality(P) <= Cardinality(P \cap C) + (b + r + ties)
                    \/ o + l <= Cardinality(P \cap C) + (b + r + ties)
  BY <1>5, <1>6 DEF Covered
<1>8. /\ P \in SUBSET Ids /\ P \subseteq S /\ P \cap C \in SUBSET Ids /\ P \cap G \in SUBSET Ids /\ P \ C \in SUBSET Ids
      /\ \A x \in P : \A y \in S : created[y] < created[x] => y \in P
  BY <1>2 DEF Fronts
<1>9. /\ Cardinality(P) \in Nat /\ Cardinality(P \cap C) \in Nat /\ Cardinality(P \cap G) \in Nat
      /\ Cardinality(P \ C) \in Nat
      /\ Cardinality(P \cap G) <= Cardinality(P \cap C)
      /\ Cardinality(P) <= Cardinality(P \ C) + Cardinality(P \cap C)
  <2>1. P \cap G \subseteq P \cap C
    BY <1>7
  <2> QED BY <1>7, <1>8, <2>1, Count, CountSubset, CountWithout
<1>10. CASE l = 0
  <2>1. \/ Cardinality(P) <= Cardinality(P \cap G) + b
        \/ o <= Cardinality(P \cap G) + b
    BY <1>2 DEF Covered
  <2> HIDE DEF o, r, ties, l, b
  <2> QED BY <1>2, <1>4, <1>5, <1>9, <1>10, <2>1
<1>11. CASE l # 0
  <2> DEFINE D == Places(s, 0, a)
             E == Places(s, 0, a + l)
  <2>1. /\ n \in Nat /\ s \in [1..n -> S] /\ a + l \in Nat /\ a + l <= n /\ a <= a + l
        /\ \A i, j \in 1..n : i < j => s[i] # s[j] /\ created[s[i]] <= created[s[j]]
        /\ \A x \in S : \E i \in 1..n : s[i] = x
    BY <1>2, <1>3, <1>11, OrderIs
  <2> HIDE DEF n, o, p, a, l
  <2>2. /\ D \in SUBSET S /\ E \in SUBSET S
        /\ \A x \in E : x \in D \/ x \in Listed(page)
    <3>1. E \in SUBSET S /\ D \in SUBSET S
      BY <1>2, <2>1 DEF Places
    <3>2. ASSUME NEW i \in (0 + 1)..(a + l) PROVE s[i] \in D \/ s[i] \in Listed(page)
      <4>1. i \in (0 + 1)..a \/ i \in (a + 1)..(a + l)
        BY <1>2, <2>1
      <4> QED BY <1>3, <4>1 DEF Places
    <3> QED BY <3>1, <3>2 DEF Places
  <2>3. Cardinality(D) = a /\ Cardinality(E) = a + l
    <3>1. Distinct(s, n)
      BY <2>1 DEF Distinct
    <3>2. \A c \in Nat : c <= n => Cardinality(Places(s, 0, c)) = c - 0
      <4>1. S \in SUBSET Ids /\ n \in Nat /\ s \in [1..n -> S] /\ 0 \in Nat
        BY <1>2, <2>1
      <4>2. \A c \in Nat : 0 <= c
        OBVIOUS
      <4> QED BY ONLY <3>1, <4>1, <4>2, CountPlaces
    <3>3. a <= n
      BY <1>2, <2>1
    <3> QED BY <1>2, <2>1, <3>2, <3>3
  <2>4. D \in Fronts
    <3>1. ASSUME NEW x \in D, NEW y \in S, created[y] < created[x] PROVE y \in D
      <4>1. PICK i \in (0 + 1)..a : x = s[i]
        BY DEF Places
      <4>2. PICK j \in 1..n : y = s[j]
        BY <2>1
      <4>3. i \in 1..n
        BY <1>2, <2>1
      <4>4. ~(i <= j)
        <5>1. i = j => ~(created[y] < created[x])
          BY <1>2, <2>2, <4>1, <4>2
        <5>2. i < j => ~(created[y] < created[x])
          <6>1. created[x] \in Nat /\ created[y] \in Nat
            BY <1>2, <2>2
          <6> QED BY <2>1, <4>1, <4>2, <4>3, <6>1
        <5> QED BY <2>1, <3>1, <5>1, <5>2, <4>3
      <4>5. j \in (0 + 1)..a
        BY <1>2, <2>1, <4>3, <4>4
      <4> QED BY <4>2, <4>5 DEF Places
    <3> HIDE DEF D
    <3> QED BY <2>2, <3>1 DEF Fronts
  <2>5. Cardinality(E \ C) \in Nat /\ Cardinality(E \ C) <= b
    <3>1. \/ Cardinality(D) <= Cardinality(D \cap G) + b
          \/ o <= Cardinality(D \cap G) + b
      BY <1>2, <2>4 DEF Covered
    <3>2. /\ D \in SUBSET Ids /\ G \in SUBSET Ids /\ D \ G \in SUBSET Ids /\ D \cap G \in SUBSET Ids
          /\ E \ C \in SUBSET Ids
      BY <1>2, <2>2
    <3>3. E \ C \subseteq D \ G
      BY <1>7, <2>2
    <3>4. /\ Cardinality(E \ C) \in Nat /\ Cardinality(D \ G) \in Nat /\ Cardinality(D \cap G) \in Nat
          /\ Cardinality(E \ C) <= Cardinality(D \ G)
      BY <3>2, <3>3, Count, CountSubset
    <3>5. Cardinality(D \ G) = Cardinality(D) - Cardinality(D \cap G)
      BY <3>2, Count, FS_Difference
    <3> HIDE DEF D, E, r, b
    <3> QED BY <1>2, <1>5, <2>3, <3>1, <3>4, <3>5
  <2>6. CASE E \subseteq P
    <3>1. E \in SUBSET Ids /\ E \cap C \in SUBSET Ids /\ E \cap C \subseteq P \cap C
      BY <1>2, <2>2, <2>6
    <3>2. /\ Cardinality(E \cap C) \in Nat /\ Cardinality(E \cap C) <= Cardinality(P \cap C)
          /\ Cardinality(E) <= Cardinality(E \ C) + Cardinality(E \cap C)
      BY <1>7, <1>8, <3>1, Count, CountSubset, CountWithout
    <3>3. a + l <= b + Cardinality(P \cap C)
      <4> HIDE DEF E, b
      <4> QED BY <1>5, <1>9, <2>1, <2>3, <2>5, <3>2
    <3> DEFINE pc == Cardinality(P \cap C)
    <3> HIDE DEF pc, b, r, ties, E
    <3>4. o + l <= pc + (b + r + ties)
      BY <1>2, <1>3, <1>4, <1>5, <1>9, <3>3 DEF pc
    <3> QED BY <3>4 DEF pc
  <2>7. CASE ~(E \subseteq P)
    <3>1. PICK z \in E : z \notin P
      BY <2>7
    <3>2. P \ E \subseteq Ties(s, page, o)
      <4> SUFFICES ASSUME NEW x \in P, x \notin E PROVE x \in Ties(s, page, o)
        OBVIOUS
      <4>1. PICK i \in 1..n : x = s[i]
        BY <1>8, <2>1
      <4>2. PICK j \in (0 + 1)..(a + l) : z = s[j]
        BY DEF Places
      <4>3. i > a + l
        <5>1. i \notin (0 + 1)..(a + l)
          BY <4>1 DEF Places
        <5> QED BY <2>1, <5>1
      <4>4. a + l \in 1..n /\ j \in 1..n /\ i \in 1..n
        BY <2>1, <4>2
      <4>5. created[z] <= created[s[a + l]] /\ created[s[a + l]] <= created[x]
        <5>1. created[s[a + l]] \in Nat
          BY <1>2, <2>1, <4>4
        <5>2. j < a + l \/ j = a + l
          BY <2>1, <4>2
        <5>3. j < a + l => created[z] <= created[s[a + l]]
          BY <2>1, <4>2, <4>4
        <5>4. j = a + l => created[z] <= created[s[a + l]]
          BY <4>2, <5>1
        <5>5. created[s[a + l]] <= created[x]
          BY <2>1, <4>1, <4>3, <4>4
        <5> QED BY <5>2, <5>3, <5>4, <5>5
      <4>6. ~(created[z] < created[x])
        BY <1>8, <2>2, <3>1
      <4>7. created[x] = created[s[a + l]]
        <5>1. created[x] \in Nat /\ created[z] \in Nat /\ created[s[a + l]] \in Nat
          BY <1>2, <1>8, <2>1, <2>2, <4>4
        <5> QED BY <4>5, <4>6, <5>1
      <4>8. page # <<>>
        <5>1. Len(page) # 0
          BY <1>11 DEF l
        <5>2. Len(<<>>) = 0
          OBVIOUS
        <5> QED BY <5>1, <5>2
      <4>9. DOMAIN s = 1..n
        BY <2>1
      <4>10. (o \div maxListSize) * maxListSize + Len(page) = a + l
        BY DEF a, p, l
      <4> QED BY <4>1, <4>3, <4>4, <4>7, <4>8, <4>9, <4>10 DEF Ties
    <3>3. /\ P \ C \subseteq (E \ C) \cup Ties(s, page, o)
          /\ E \ C \in SUBSET Ids /\ (E \ C) \cup Ties(s, page, o) \in SUBSET Ids
      BY <1>2, <1>4, <2>2, <3>2
    <3>4. /\ Cardinality(P \ C) <= Cardinality((E \ C) \cup Ties(s, page, o))
          /\ Cardinality((E \ C) \cup Ties(s, page, o)) \in Nat
          /\ Cardinality((E \ C) \cup Ties(s, page, o)) <= Cardinality(E \ C) + ties
      BY <1>4, <1>8, <3>3, Count, CountSubset, CountUnion
    <3> DEFINE pc == Cardinality(P \cap C)
               pn == Cardinality(P \ C)
               en == Cardinality(E \ C)
               u == Cardinality((E \ C) \cup Ties(s, page, o))
               pp == Cardinality(P)
    <3>5. /\ pc \in Nat /\ pn \in Nat /\ en \in Nat /\ u \in Nat /\ pp \in Nat /\ b \in Nat /\ r \in Nat /\ ties \in Nat
          /\ pp <= pn + pc /\ pn <= u /\ u <= en + ties /\ en <= b
      BY <1>2, <1>4, <1>5, <1>9, <2>5, <3>4
    <3> HIDE DEF pc, pn, en, u, pp, b, r, ties
    <3>6. pp <= pc + (b + r + ties)
      BY ONLY <3>5
    <3> QED BY <3>6 DEF pp, pc
  <2> QED BY <2>6, <2>7
<1> QED BY <1>10, <1>11, <1>3

LEMMA CoveredNext == TypeOK /\ TypeOK' /\ DInv /\ Covered /\ [Next]_vars => Covered'
<1> SUFFICES ASSUME TypeOK, TypeOK', DInv, Covered, [Next]_vars PROVE Covered'
  OBVIOUS
<1>1. CASE Tick
  BY <1>1, SameCovered DEF Tick, client, history, Token, Allowed
<1>2. ASSUME NEW id \in Ids, Import(id) PROVE Covered'
  BY <1>2, SameCovered DEF Import, client, history, Token, Allowed
<1>3. ASSUME NEW ids \in Repositories, Wipe(ids) PROVE Covered'
  <2>1. UNCHANGED <<created, client, history>>
    BY <1>3 DEF Wipe
  <2> QED BY <2>1, SameCovered DEF client, history, Token, Allowed
<1>4. ASSUME NEW ids \in SUBSET written, Commit(ids) PROVE Covered'
  BY <1>4, CoveredCommit
<1>5. ASSUME NEW ids \in SUBSET written, Rollback(ids) PROVE Covered'
  BY <1>5, SameCovered DEF Rollback, Ends, client, Token, Allowed
<1>6. ASSUME NEW until \in {NoDate, SecondOf(now) - 1}, ListRecords(until) PROVE Covered'
  <2>1. list'.oldCount = 0 /\ list'.page = <<>>
    BY <1>6, Untils, ListRecordsEffect
  <2>2. Token(list)' = 0
    BY <2>1, Len(<<>>) = 0 DEF Token
  <2> QED BY <2>2, NothingCovered
<1>7. CASE Find
  BY <1>7, CoveredFind
<1>8. CASE Resume
  <2>1. /\ list'.from = list.from /\ list'.until = list.until /\ list'.got = list.got
        /\ list'.oldCount = Token(list) /\ list'.page = <<>>
    BY <1>8, ResumeEffect
  <2>2. Token(list)' = Token(list)
    BY <2>1, Len(<<>>) = 0, ListFields DEF Token, TypeOK
  <2>3. created' = created /\ Allowed' = Allowed
    BY <1>8 DEF Resume, history, Allowed
  <2> QED BY <2>1, <2>2, <2>3, SameCovered
<1>9. CASE Finish \/ Fail
  <2>1. list' = NoList
    BY <1>9 DEF Finish, Fail
  <2>2. Token(list)' = 0
    BY <2>1, NoListType DEF Token
  <2> QED BY <2>2, NothingCovered
<1>10. CASE UNCHANGED vars
  BY <1>10, SameCovered DEF vars, Token, Allowed
<1> QED BY <1>1, <1>2, <1>3, <1>4, <1>5, <1>6, <1>7, <1>8, <1>9, <1>10 DEF Next

-----------------------------------------------------------------------------
(* Theorems *)

LEMMA CoveredInit == Init => Covered
<1> SUFFICES ASSUME Init PROVE Covered
  OBVIOUS
<1>1. Token(list) = 0 /\ Allowed = 0
  BY NoListType DEF Init, Allowed
<1>2. \A P : Cardinality(P \cap Given) \in Nat
  <2>1. \A P : P \cap Given \in SUBSET Ids
    BY Sets
  <2> QED BY <2>1, Count
<1> QED BY <1>1, <1>2 DEF Covered

\* The inductive invariant holds in every state.
LEMMA Invariance == Spec => []IInv
<1>1. Init => IInv
  BY TypeInit, DatesInit, CoveredInit DEF IInv
<1>2. IInv /\ [Next]_vars => IInv'
  BY TypeNext, DatesNext, CoveredNext DEF IInv
<1> QED BY <1>1, <1>2, PTL DEF Spec

LEMMA MissedNext ==
  Missed' = {x \in Ids : /\ created'[x] # NoDate
                         /\ SecondOf(created'[x]) < cursor' /\ copy'[x] # created'[x]}
BY DEF Missed, SecondOf, NoDate

\* A list that ends has covered all that is selected.
LEMMA FinishLoses ==
  ASSUME IInv, Finish
  PROVE  Cardinality(Missed' \ Missed) <= moves + late + again
<1> DEFINE S == Selected(list)
           G == Given
           b == Allowed
<1>1. /\ list.step = "count" /\ Token(list) >= Cardinality(S)
      /\ copy' = [id \in Ids |-> IF list.got[id] # NoDate THEN list.got[id] ELSE copy[id]]
      /\ cursor' = Cursor(list) /\ created' = created
  BY DEF Finish
<1>2. /\ list.from = cursor /\ list.from \in Nat /\ list.until \in Nat /\ Token(list) \in Nat
      /\ \A id \in Ids : /\ created[id] \in Nat /\ list.got[id] \in Nat
                         /\ list.got[id] # NoDate =>
                              /\ From(list.got[id], list.from)
                              /\ created[id] = NoDate \/ list.got[id] <= created[id]
  BY <1>1, ListFields DEF IInv, DInv, TypeOK
<1>3. Missed' \ Missed \subseteq S \ G
  <2> SUFFICES ASSUME NEW x \in Missed', x \notin Missed PROVE x \in S \ G
    OBVIOUS
  <2>1. /\ x \in Ids /\ created[x] # NoDate /\ SecondOf(created[x]) < Cursor(list)
        /\ copy'[x] # created[x]
        /\ copy'[x] = IF list.got[x] # NoDate THEN list.got[x] ELSE copy[x]
    BY <1>1, MissedNext
  <2>2. ~(SecondOf(created[x]) < cursor) \/ copy[x] = created[x]
    BY <2>1 DEF Missed
  <2>3. From(created[x], list.from)
    <3>1. CASE copy[x] = created[x]
      <4>1. list.got[x] # NoDate
        BY <2>1, <3>1
      <4> QED BY <1>2, <2>1, <4>1, FromGrows
    <3>2. CASE ~(SecondOf(created[x]) < cursor)
      <4>1. ~(created[x] < StartOf(list.from)) /\ StartOf(list.from) \in Nat
        BY <1>2, <2>1, <3>2, Seconds
      <4> QED BY <1>2, <2>1, <4>1 DEF From
    <3> QED BY <2>2, <3>1, <3>2
  <2>4. Until(created[x], list.until)
    <3>1. CASE list.until = NoDate
      BY <3>1 DEF Until
    <3>2. CASE list.until # NoDate
      <4>1. Cursor(list) = list.until + 1 /\ list.until + 1 \in Nat
        BY <1>2, <3>2 DEF Cursor
      <4> QED BY <1>2, <2>1, <4>1, Seconds DEF Until
    <3> QED BY <3>1, <3>2
  <2>5. x \in S
    BY <2>1, <2>3, <2>4 DEF Selected
  <2>6. x \notin G
    BY <2>1 DEF Given
  <2> QED BY <2>5, <2>6
<1>4. /\ S \in SUBSET Ids /\ G \in SUBSET Ids /\ S \ G \in SUBSET Ids /\ S \cap G \in SUBSET Ids
      /\ Missed' \ Missed \in SUBSET Ids
  BY Sets, MissedNext
<1>5. S \in Fronts
  BY DEF Fronts
<1>6. Cardinality(S) <= Cardinality(S \cap G) + b \/ Token(list) <= Cardinality(S \cap G) + b
  BY <1>5 DEF IInv, Covered
<1>7. /\ Cardinality(S) \in Nat /\ Cardinality(S \cap G) \in Nat /\ Cardinality(S \ G) \in Nat
      /\ Cardinality(Missed' \ Missed) \in Nat
      /\ Cardinality(S \ G) = Cardinality(S) - Cardinality(S \cap G)
      /\ Cardinality(Missed' \ Missed) <= Cardinality(S \ G)
  BY <1>3, <1>4, Count, CountSubset, FS_Difference
<1>8. b = moves + late + again /\ b \in Nat
  BY DEF IInv, TypeOK, Allowed
<1> HIDE DEF S, G, b
<1>9. Cardinality(Missed' \ Missed) <= b
  BY <1>1, <1>2, <1>6, <1>7, <1>8
<1> QED BY <1>8, <1>9

\* Only a commit makes documents missed without a list.
LEMMA OthersLose ==
  ASSUME TypeOK, [Next]_vars, ~Finish, NEW x \in Missed', x \notin Missed
  PROVE  x \in written \ written' /\ SecondOf(stamp[x]) < cursor
<1>1. CASE \E ids \in SUBSET written : Commit(ids)
  <2>1. PICK ids \in SUBSET written : Commit(ids)
    BY <1>1
  <2>2. /\ \A y \in Ids : created'[y] = IF y \in ids THEN stamp[y] ELSE created[y]
        /\ copy' = copy /\ cursor' = cursor /\ written' = written \ ids
    BY <2>1, EndsEffect, CommitEffect DEF Commit, Ends
  <2> QED BY <2>2, MissedNext DEF Missed
<1>2. CASE ~(\E ids \in SUBSET written : Commit(ids))
  <2>1. created' = created /\ copy' = copy /\ cursor' = cursor
    <3>1. ASSUME NEW ids \in Repositories, Wipe(ids) PROVE created' = created /\ copy' = copy /\ cursor' = cursor
      BY <3>1 DEF Wipe, client
    <3> QED BY <1>2, <3>1 DEF Next, vars, Tick, Import, Rollback, Ends, ListRecords, Find, Resume, Fail, client
  <2> QED BY <2>1, MissedNext DEF Missed
<1> QED BY <1>1, <1>2

\* Every variable always holds a value of its type.
THEOREM ProviderTypeCorrect == Spec => []TypeOK
<1>1. IInv => TypeOK
  BY DEF IInv
<1> QED BY <1>1, Invariance, PTL

\* However documents are imported, wiped, committed and rolled back between the
\* queries of a list (DocumentServiceImpl.find and count), the list loses at most
\* one document for each that left its place in it, for each committed among what
\* it had listed, and for each place a page gave again; and all else that is
\* missed was committed behind the cursor.
THEOREM ProviderLossesAreAccountedFor == Spec => LossesAreAccountedFor
<1>1. IInv /\ [Next]_vars =>
        [/\ Finish => Cardinality(Missed' \ Missed) <= moves + late + again
         /\ ~Finish => \A id \in Missed' \ Missed :
                         id \in written \ written' /\ SecondOf(stamp[id]) < cursor]_vars
  BY FinishLoses, OthersLose DEF IInv
<1> QED BY <1>1, Invariance, PTL DEF Spec, LossesAreAccountedFor
=============================================================================
