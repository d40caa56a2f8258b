------------------------- MODULE SearchIndexProofs -------------------------
(***************************************************************************)
(* What module SearchIndex promises, for any documents, administrators,    *)
(* pages and bounds: the types, and that the index is the table when the   *)
(* rebuild that erased it last has ended and nothing was written           *)
(* meanwhile.                                                              *)
(*                                                                         *)
(* The operators of SearchIndex read the table; here they take it as a     *)
(* parameter, so that the lemmas speak of the table before and after a     *)
(* step alike.                                                             *)
(***************************************************************************)
EXTENDS SearchIndex, SiftingProofs

-----------------------------------------------------------------------------
(* The table as its readers see it *)

OwnedIn(h) == {h[i].id : i \in {j \in DOMAIN h : h[j].own}}

Visible(h, b) ==
  IF b = Robot THEN {r \in Row : (r.own /\ r.ver # 0) \/ r.id \notin OwnedIn(h)} ELSE CommittedRows

ViewOf(h, b) == Sift(h, Visible(h, b))
DocsOf(h, b) == Contents(ViewOf(h, b))

Version(r) == [id |-> r.id, ver |-> r.ver]

\* At most one row of a document is the robot's, and one is not.
OneRowEach(h) == \A r, s \in Elements(h) : r.id = s.id /\ r.own = s.own => r = s

\* The documents on the pages before page p.
Taken(rows, p) == {Version(rows[i]) : i \in {j \in 1..Len(rows) : j <= p * numMaxDoc}}

-----------------------------------------------------------------------------
(* The inductive invariant *)

\* The robot rebuilds the index only at the end of its night, and a rebuild
\* that has not begun has read nothing.
TInv ==
  /\ TypeOK
  /\ OneRowEach(heap)
  /\ night # "indexes" => build[Robot] = Idle
  /\ last = Robot => night = "indexes"
  /\ \A b \in Builders : build[b].step = "erase" => build[b].docs = {} /\ build[b].page = 0

\* What a rebuild has read and is about to add is the page it is at.
AtItsPage(b) ==
  build[b].step = "add" =>
    /\ build[b].docs = Contents(PageOf(ViewOf(heap, b), build[b].page))
    /\ build[b].more = HasNext(ViewOf(heap, b), build[b].page)

\* While nothing has disturbed the rebuild that erased the index last, the index
\* holds documents of the table only; whatever other rebuilds are about to add
\* is in the table; and what the rebuild has gone past is in the index.
CInv ==
  covered =>
    /\ index \subseteq DocsOf(heap, last)
    /\ \A b \in Builders :
         Running(b) => /\ DocsOf(heap, b) = DocsOf(heap, last)
                       /\ build[b].docs \subseteq DocsOf(heap, last)
    /\ complete => DocsOf(heap, last) \subseteq index
    /\ last # NoOne /\ Running(last) =>
         /\ AtItsPage(last)
         /\ Taken(ViewOf(heap, last), build[last].page) \subseteq index

IInv == TInv /\ CInv

-----------------------------------------------------------------------------
(* The operators of SearchIndex in these terms *)

LEMMA Readings ==
  /\ Owned = OwnedIn(heap)
  /\ \A b : View(b) = ViewOf(heap, b) /\ Docs(b) = DocsOf(heap, b)
  /\ \A b : b # Robot => Committed = DocsOf(heap, b)
BY DEF Owned, OwnedIn, View, ViewOf, Visible, Docs, DocsOf, Committed

LEMMA OwnedIs ==
  ASSUME NEW h \in Seq(Row)
  PROVE  OwnedIn(h) = {r.id : r \in {s \in Elements(h) : s.own}}
<1>1. DOMAIN h = 1..Len(h)
  BY LenProperties
<1> QED BY <1>1 DEF OwnedIn, Elements

LEMMA ContentsIs ==
  ASSUME NEW s \in Seq(Row)
  PROVE  /\ Contents(s) = {Version(r) : r \in Elements(s)}
         /\ Contents(s) \subseteq Doc
<1>1. DOMAIN s = 1..Len(s) /\ \A i \in 1..Len(s) : s[i] \in Row
  BY LenProperties, ElementOfSeq
<1>2. Contents(s) = {Version(r) : r \in Elements(s)}
  BY <1>1 DEF Contents, Version, Elements
<1>3. ASSUME NEW i \in 1..Len(s) PROVE [id |-> s[i].id, ver |-> s[i].ver] \in Doc
  BY <1>1 DEF Row, Doc
<1>4. Contents(s) \subseteq Doc
  BY <1>1, <1>3 DEF Contents
<1> QED BY <1>2, <1>4

LEMMA ViewIs ==
  ASSUME NEW h \in Seq(Row), NEW b
  PROVE  /\ ViewOf(h, b) \in Seq(Row)
         /\ Elements(ViewOf(h, b)) = Elements(h) \cap Visible(h, b)
<1>1. Row \cap Visible(h, b) \subseteq Row
  OBVIOUS
<1>2. ViewOf(h, b) \in Seq(Row)
  BY <1>1, SiftType, SeqMonotonic DEF ViewOf
<1> QED BY <1>2, SiftElements DEF ViewOf

\* A reader sees one row of a document, and so one version of it.
LEMMA OneRowSeen ==
  ASSUME NEW h \in Seq(Row), OneRowEach(h), NEW b,
         NEW r \in Elements(ViewOf(h, b)), NEW s \in Elements(ViewOf(h, b)), r.id = s.id
  PROVE  r = s
<1>1. r \in Elements(h) /\ s \in Elements(h) /\ r \in Visible(h, b) /\ s \in Visible(h, b)
  BY ViewIs
<1>2. CASE b = Robot
  <2>1. (r.own \/ r.id \notin OwnedIn(h)) /\ (s.own \/ s.id \notin OwnedIn(h))
    BY <1>1, <1>2 DEF Visible
  <2>2. (r.own => r.id \in OwnedIn(h)) /\ (s.own => s.id \in OwnedIn(h))
    BY <1>1, OwnedIs
  <2>3. r \in Row /\ s \in Row
    BY <1>1, <1>2 DEF Visible
  <2>4. r.own \in BOOLEAN /\ s.own \in BOOLEAN
    BY <2>3 DEF Row
  <2>5. r.own = s.own
    BY <2>1, <2>2, <2>4
  <2> QED BY <1>1, <2>5 DEF OneRowEach
<1>3. CASE b # Robot
  <2>1. r \in Row /\ s \in Row /\ ~r.own /\ ~s.own
    BY <1>1, <1>3 DEF Visible, CommittedRows
  <2>2. r.own = s.own
    BY <2>1 DEF Row
  <2> QED BY <1>1, <2>2 DEF OneRowEach
<1> QED BY <1>2, <1>3

LEMMA OneVersionSeen ==
  ASSUME NEW h \in Seq(Row), OneRowEach(h), NEW b,
         NEW d \in DocsOf(h, b), NEW e \in DocsOf(h, b), d.id = e.id
  PROVE  d = e
<1>1. DocsOf(h, b) = {Version(r) : r \in Elements(ViewOf(h, b))}
  BY ViewIs, ContentsIs DEF DocsOf
<1>2. PICK r \in Elements(ViewOf(h, b)), s \in Elements(ViewOf(h, b)) :
        d = Version(r) /\ e = Version(s)
  BY <1>1
<1>3. r.id = s.id
  BY <1>2 DEF Version
<1>4. r = s
  BY <1>3, OneRowSeen
<1> QED BY <1>2, <1>4

\* Adding documents of the table to documents of the table replaces none.
LEMMA AddedIs ==
  ASSUME NEW h \in Seq(Row), OneRowEach(h), NEW b, NEW ds,
         index \subseteq DocsOf(h, b), ds \subseteq DocsOf(h, b)
  PROVE  Added(ds) = index \cup ds
<1>1. \A d \in index, e \in ds : d.id = e.id => d = e
  BY OneVersionSeen
<1> QED BY <1>1 DEF Added

\* Whether a sequence has an element in a set that its parts do not matter.
LEMMA ElementsConcat ==
  ASSUME NEW X, NEW s \in Seq(X), NEW t \in Seq(X)
  PROVE  Elements(s \o t) = Elements(s) \cup Elements(t)
<1>1. /\ s \o t \in Seq(X) /\ Len(s \o t) = Len(s) + Len(t)
      /\ \A i \in 1..Len(s) + Len(t) : (s \o t)[i] = IF i <= Len(s) THEN s[i] ELSE t[i - Len(s)]
      /\ Len(s) \in Nat /\ Len(t) \in Nat
  BY ConcatProperties, LenProperties
<1> DEFINE u == s \o t
<1> HIDE DEF u
<1>2. ASSUME NEW i \in 1..Len(u) PROVE u[i] \in Elements(s) \cup Elements(t)
  <2>1. CASE i <= Len(s)
    BY <1>1, <2>1 DEF u, Elements
  <2>2. CASE i > Len(s)
    <3>1. i - Len(s) \in 1..Len(t) /\ u[i] = t[i - Len(s)]
      BY <1>1, <2>2 DEF u
    <3> QED BY <3>1 DEF Elements
  <2> QED BY <1>1, <2>1, <2>2
<1>3. ASSUME NEW i \in 1..Len(s) PROVE s[i] \in Elements(u)
  <2>1. i \in 1..Len(u) /\ u[i] = s[i]
    BY <1>1 DEF u
  <2> QED BY <2>1 DEF Elements
<1>4. ASSUME NEW i \in 1..Len(t) PROVE t[i] \in Elements(u)
  <2>1. i + Len(s) \in 1..Len(u) /\ u[i + Len(s)] = t[i]
    BY <1>1 DEF u
  <2> QED BY <2>1 DEF Elements
<1> QED BY <1>2, <1>3, <1>4 DEF Elements, u

\* A row inserted anywhere is one more row, and nothing to who does not see it.
LEMMA InsertAtIs ==
  ASSUME NEW s \in Seq(Row), NEW x \in Row, NEW i \in 1..(Len(s) + 1)
  PROVE  /\ InsertAt(s, i, x) \in Seq(Row)
         /\ Elements(InsertAt(s, i, x)) = Elements(s) \cup {x}
         /\ \A S : x \notin S => Sift(InsertAt(s, i, x), S) = Sift(s, S)
<1>0. Len(s) \in Nat /\ i \in Nat
  BY LenProperties
<1> DEFINE p == SubSeq(s, 1, i - 1)
           t == SubSeq(s, i, Len(s))
<1>1. \A j \in 1..Len(s) : s[j] \in Row
  BY ElementOfSeq
<1>2. p \in Seq(Row)
  <2>1. \A j \in 1..(i - 1) : s[j] \in Row
    BY <1>0, <1>1
  <2> QED BY <1>0, <2>1, SubSeqProperties
<1>3. t \in Seq(Row)
  <2>1. \A j \in i..Len(s) : s[j] \in Row
    BY <1>0, <1>1
  <2> QED BY <1>0, <2>1, SubSeqProperties
<1>4. p \o t = s
  <2>1. p \o SubSeq(s, (i - 1) + 1, Len(s)) = SubSeq(s, 1, Len(s))
    <3>1. 1 \in 1..(Len(s) + 1) /\ i - 1 \in (1 - 1)..Len(s) /\ Len(s) \in (i - 1)..Len(s)
      BY <1>0
    <3> QED BY Zenon, <3>1, ConcatAdjacentSubSeq
  <2>2. SubSeq(s, 1, Len(s)) = s /\ (i - 1) + 1 = i
    BY <1>0, SubSeqFull
  <2> QED BY Zenon, <2>1, <2>2
<1>5. InsertAt(s, i, x) = (p \o <<x>>) \o t
  BY DEF InsertAt
<1> DEFINE one == <<x>>
<1>6. one \in Seq(Row) /\ Elements(one) = {x} /\ <<>> \in Seq(Row) /\ one = Append(<<>>, x)
  BY DEF Elements
<1> HIDE DEF p, t, one
<1>c. \A a, b \in Seq(Row) : a \o b \in Seq(Row) /\ Elements(a \o b) = Elements(a) \cup Elements(b)
  BY ConcatProperties, ElementsConcat
<1>7. p \o one \in Seq(Row) /\ (p \o one) \o t \in Seq(Row)
  BY <1>2, <1>3, <1>6, <1>c
<1>8. Elements((p \o one) \o t) = Elements(p) \cup {x} \cup Elements(t)
  <2>1. Elements((p \o one) \o t) = Elements(p \o one) \cup Elements(t)
    BY <1>3, <1>7, <1>c
  <2>2. Elements(p \o one) = Elements(p) \cup {x}
    BY <1>2, <1>6, <1>c
  <2> QED BY <2>1, <2>2
<1>9. Elements(s) = Elements(p) \cup Elements(t)
  BY <1>2, <1>3, <1>4, <1>c
<1>10. ASSUME NEW S, x \notin S PROVE Sift(InsertAt(s, i, x), S) = Sift(s, S)
  <2>1. Sift(one, S) = <<>>
    <3>1. \A a \in Seq(Row) : Sift(Append(a, x), S) = Sift(a, S)
      BY <1>10, SiftAppend
    <3> QED BY <1>6, <3>1, SiftEmpty
  <2>2. Sift(p, S) \in Seq(Row)
    BY <1>2, SiftType, SeqMonotonic, Row \cap S \subseteq Row
  <2>c. \A a, b \in Seq(Row) : Sift(a \o b, S) = Sift(a, S) \o Sift(b, S)
    BY SiftConcat
  <2>3. Sift(p \o one, S) = Sift(p, S)
    BY ZenonT(40), <1>2, <1>6, <2>1, <2>2, <2>c, ConcatEmptySeq
  <2>4. Sift((p \o one) \o t, S) = Sift(p, S) \o Sift(t, S)
    BY <1>3, <1>7, <2>3, <2>c
  <2>5. Sift(s, S) = Sift(p, S) \o Sift(t, S)
    BY <1>2, <1>3, <1>4, <2>c
  <2> QED BY <1>5, <2>4, <2>5 DEF one
<1> QED BY Zenon, <1>5, <1>7, <1>8, <1>9, <1>10 DEF one

\* What a document placed in the table changes: the rows of its writer; for
\* others nothing, when the writer is the robot.
LEMMA PlacedIs ==
  ASSUME heap \in Seq(Row), writes \in Nat, NEW id \in Ids, NEW own \in BOOLEAN,
         NEW g \in Placed(id, own)
  PROVE  /\ g \in Seq(Row)
         /\ Elements(g) = {r \in Elements(heap) : r.id # id \/ (own /\ ~r.own)}
                            \cup {[id |-> id, ver |-> writes + 2, own |-> own]}
         /\ own => \A b : b # Robot => ViewOf(g, b) = ViewOf(heap, b)
<1> DEFINE S == {r \in Row : r.id # id \/ (own /\ ~r.own)}
           rest == Sift(heap, S)
           x == [id |-> id, ver |-> writes + 2, own |-> own]
<1>1. PICK i \in 1..(Len(rest) + 1) : g = InsertAt(rest, i, x)
  BY DEF Placed
<1>2. x \in Row
  BY DEF Row
<1>3. rest \in Seq(Row)
  BY SiftType, SeqMonotonic, Row \cap S \subseteq Row
<1>4. Elements(rest) = Elements(heap) \cap S
  BY SiftElements
<1>5. Elements(heap) \subseteq Row
  BY ElementOfSeq DEF Elements
<1>6. Elements(heap) \cap S = {r \in Elements(heap) : r.id # id \/ (own /\ ~r.own)}
  BY <1>5
<1>7. ASSUME own, NEW b, b # Robot PROVE ViewOf(g, b) = ViewOf(heap, b)
  <2>1. x \notin CommittedRows
    BY <1>7 DEF CommittedRows
  <2> HIDE DEF x, rest
  <2>2. Sift(g, CommittedRows) = Sift(rest, CommittedRows)
    BY <1>1, <1>2, <1>3, <2>1, InsertAtIs
  <2>3. S \cap CommittedRows = CommittedRows
    BY <1>7 DEF CommittedRows
  <2> HIDE DEF S
  <2>4. Sift(rest, CommittedRows) = Sift(heap, CommittedRows)
    BY <2>3, SiftTwice DEF rest
  <2> QED BY <1>7, <2>2, <2>4 DEF ViewOf, Visible
<1> HIDE DEF S, x, rest
<1>8. g \in Seq(Row) /\ Elements(g) = Elements(rest) \cup {x}
  BY <1>1, <1>2, <1>3, InsertAtIs
<1> QED BY <1>4, <1>6, <1>7, <1>8 DEF x

\* What a deletion by the robot changes: its own rows, and nothing for others.
LEMMA TombstonePlaced ==
  ASSUME heap \in Seq(Row), NEW id \in Ids, NEW g,
         g = Append(Sift(heap, {r \in Row : r.id # id \/ ~r.own}), Tombstone(id))
  PROVE  /\ g \in Seq(Row)
         /\ Elements(g) = {r \in Elements(heap) : r.id # id \/ ~r.own} \cup {Tombstone(id)}
         /\ \A b : b # Robot => ViewOf(g, b) = ViewOf(heap, b)
<1> DEFINE S == {r \in Row : r.id # id \/ ~r.own}
           rest == Sift(heap, S)
           x == Tombstone(id)
<1>1. x \in Row /\ x \notin CommittedRows
  BY DEF Row, CommittedRows, Tombstone
<1>2. rest \in Seq(Row)
  BY SiftType, SeqMonotonic, Row \cap S \subseteq Row
<1>3. Elements(rest) = Elements(heap) \cap S
  BY SiftElements
<1>4. Elements(heap) \subseteq Row
  BY ElementOfSeq DEF Elements
<1>5. Elements(heap) \cap S = {r \in Elements(heap) : r.id # id \/ ~r.own}
  BY <1>4
<1>6. S \cap CommittedRows = CommittedRows
  BY DEF CommittedRows
<1>7. g = Append(rest, x)
  OBVIOUS
<1> HIDE DEF S, x
<1>8. Sift(rest, CommittedRows) = Sift(heap, CommittedRows)
  BY <1>6, SiftTwice
<1> HIDE DEF rest
<1>c. \A y \in Seq(Row) : /\ Append(y, x) \in Seq(Row)
                          /\ Elements(Append(y, x)) = Elements(y) \cup {x}
                          /\ Sift(Append(y, x), CommittedRows) = Sift(y, CommittedRows)
  <2> TAKE y \in Seq(Row)
  <2>1. Append(y, x) \in Seq(Row)
    BY <1>1, AppendProperties
  <2>2. Elements(Append(y, x)) = Elements(y) \cup {x}
    BY <1>1, ElementsAppend
  <2>3. Sift(Append(y, x), CommittedRows) = Sift(y, CommittedRows)
    BY <1>1, SiftAppend
  <2> QED BY <2>1, <2>2, <2>3
<1>9. Sift(g, CommittedRows) = Sift(rest, CommittedRows)
  BY Zenon, <1>2, <1>7, <1>c
<1>10. g \in Seq(Row) /\ Elements(g) = Elements(rest) \cup {x}
  BY Zenon, <1>2, <1>7, <1>c
<1>11. \A b : b # Robot => ViewOf(g, b) = ViewOf(heap, b)
  BY <1>8, <1>9 DEF ViewOf, Visible
<1> QED BY <1>3, <1>5, <1>10, <1>11 DEF x

-----------------------------------------------------------------------------
(* Pages *)

\* Multiplying by the page size, one page at a time.
LEMMA PageSize ==
  ASSUME NEW p \in Nat
  PROVE  /\ numMaxDoc \in Nat \ {0} /\ p * numMaxDoc \in Nat
         /\ (p + 1) * numMaxDoc = p * numMaxDoc + numMaxDoc
BY PageAssumption

LEMMA PageOfIs ==
  ASSUME NEW rows \in Seq(Row), NEW p \in Nat
  PROVE  Contents(PageOf(rows, p))
           = {Version(rows[i]) : i \in {j \in 1..Len(rows) :
                                          p * numMaxDoc < j /\ j <= p * numMaxDoc + numMaxDoc}}
<1> DEFINE a == p * numMaxDoc
           z == IF Len(rows) < a + numMaxDoc THEN Len(rows) ELSE a + numMaxDoc
           t == SubSeq(rows, a + 1, z)
<1>1. a \in Nat /\ numMaxDoc \in Nat \ {0} /\ (p + 1) * numMaxDoc = a + numMaxDoc
  BY PageSize
<1>2. PageOf(rows, p) = t
  BY <1>1 DEF PageOf
<1>3. Len(rows) \in Nat /\ \A i \in 1..Len(rows) : rows[i] \in Row
  BY LenProperties, ElementOfSeq
<1> HIDE DEF a
<1>4. z \in Nat /\ z <= Len(rows) /\ z <= a + numMaxDoc
  BY <1>1, <1>3
<1>5. \A i \in 1..Len(rows) : a < i /\ i <= a + numMaxDoc <=> i \in (a + 1)..z
  BY <1>1, <1>3
<1> HIDE DEF z
<1>6. /\ t \in Seq(Row)
      /\ Len(t) = IF a + 1 <= z THEN z - (a + 1) + 1 ELSE 0
      /\ \A i \in 1..(z - (a + 1) + 1) : t[i] = rows[(a + 1) + i - 1]
  <2>1. \A i \in (a + 1)..z : rows[i] \in Row
    BY <1>1, <1>3, <1>4
  <2>2. a + 1 \in Int /\ z \in Int
    BY <1>1, <1>4
  <2> QED BY <2>1, <2>2, SubSeqProperties
<1> HIDE DEF t
<1>7. DOMAIN t = 1..Len(t)
  BY <1>6, LenProperties
<1>8. Contents(t) = {Version(t[i]) : i \in 1..Len(t)}
  BY <1>7 DEF Contents, Version
<1>9. ASSUME NEW i \in 1..Len(t) PROVE a + i \in (a + 1)..z /\ t[i] = rows[a + i]
  <2>1. a + 1 <= z /\ i \in 1..(z - (a + 1) + 1)
    BY <1>1, <1>4, <1>6
  <2>2. (a + 1) + i - 1 = a + i
    BY <1>1, <2>1
  <2> QED BY <1>1, <1>4, <1>6, <2>1, <2>2
<1>10. ASSUME NEW j \in (a + 1)..z PROVE j - a \in 1..Len(t) /\ t[j - a] = rows[j]
  <2>1. a + 1 <= z /\ j - a \in 1..(z - (a + 1) + 1)
    BY <1>1, <1>4
  <2>2. (a + 1) + (j - a) - 1 = j
    BY <1>1, <1>4
  <2> QED BY <1>1, <1>4, <1>6, <2>1, <2>2
<1> DEFINE J == {j \in 1..Len(rows) : a < j /\ j <= a + numMaxDoc}
<1>11. J = (a + 1)..z
  BY <1>1, <1>3, <1>4, <1>5
<1> HIDE DEF J
<1>12. {Version(t[i]) : i \in 1..Len(t)} = {Version(rows[j]) : j \in J}
  <2>1. ASSUME NEW i \in 1..Len(t) PROVE Version(t[i]) \in {Version(rows[j]) : j \in J}
    BY <1>9, <1>11
  <2>2. ASSUME NEW j \in J PROVE Version(rows[j]) \in {Version(t[i]) : i \in 1..Len(t)}
    BY <1>10, <1>11
  <2> QED BY <2>1, <2>2
<1> QED BY <1>2, <1>8, <1>12 DEF J, a

\* A page is of the rows it is a page of, and page by page all is taken.
LEMMA TakenIs ==
  ASSUME NEW rows \in Seq(Row), NEW p \in Nat
  PROVE  /\ Contents(PageOf(rows, p)) \subseteq Contents(rows)
         /\ Taken(rows, 0) = {}
         /\ Taken(rows, p + 1) = Taken(rows, p) \cup Contents(PageOf(rows, p))
         /\ ~HasNext(rows, p) => Taken(rows, p + 1) = Contents(rows)
<1> DEFINE a == p * numMaxDoc
<1>1. a \in Nat /\ numMaxDoc \in Nat \ {0} /\ (p + 1) * numMaxDoc = a + numMaxDoc
  BY PageSize
<1>2. Len(rows) \in Nat /\ DOMAIN rows = 1..Len(rows)
  BY LenProperties
<1>3. Contents(rows) = {Version(rows[i]) : i \in 1..Len(rows)}
  BY <1>2 DEF Contents, Version
<1>4. Contents(PageOf(rows, p))
        = {Version(rows[i]) : i \in {j \in 1..Len(rows) : a < j /\ j <= a + numMaxDoc}}
  BY PageOfIs
<1>5. Taken(rows, p) = {Version(rows[i]) : i \in {j \in 1..Len(rows) : j <= a}}
  BY DEF Taken
<1>6. Taken(rows, p + 1) = {Version(rows[i]) : i \in {j \in 1..Len(rows) : j <= a + numMaxDoc}}
  BY <1>1 DEF Taken
<1>7. Taken(rows, 0) = {}
  <2>1. 0 * numMaxDoc = 0
    BY PageAssumption
  <2>2. {j \in 1..Len(rows) : j <= 0} = {}
    BY <1>2
  <2> QED BY <2>1, <2>2 DEF Taken
<1>8. ~HasNext(rows, p) => Len(rows) <= a + numMaxDoc
  BY <1>1, <1>2 DEF HasNext
<1> HIDE DEF a
<1>9. {j \in 1..Len(rows) : j <= a + numMaxDoc}
        = {j \in 1..Len(rows) : j <= a} \cup {j \in 1..Len(rows) : a < j /\ j <= a + numMaxDoc}
  BY <1>1, <1>2
<1>10. Taken(rows, p + 1) = Taken(rows, p) \cup Contents(PageOf(rows, p))
  BY <1>4, <1>5, <1>6, <1>9
<1>11. ~HasNext(rows, p) => {j \in 1..Len(rows) : j <= a + numMaxDoc} = 1..Len(rows)
  BY <1>1, <1>2, <1>8
<1> QED BY <1>3, <1>4, <1>6, <1>7, <1>10, <1>11

-----------------------------------------------------------------------------
(* The end of the night *)

\* When the robot commits, all see what it saw, and where it had written
\* nothing the table stays as it is.
LEMMA NightCommitsTable ==
  ASSUME heap \in Seq(Row), OneRowEach(heap), NEW g,
         g = [i \in DOMAIN View(Robot) |-> [View(Robot)[i] EXCEPT !.own = FALSE]]
  PROVE  /\ g \in Seq(Row) /\ OneRowEach(g)
         /\ \A b : b # Robot => DocsOf(g, b) = DocsOf(heap, Robot)
         /\ Owned = {} => g = heap
<1> DEFINE rows == ViewOf(heap, Robot)
<1>1. rows \in Seq(Row) /\ View(Robot) = rows
  BY ViewIs, Readings
<1>2. /\ Len(rows) \in Nat /\ DOMAIN rows = 1..Len(rows)
      /\ \A i \in 1..Len(rows) : rows[i] \in Row
  BY <1>1, LenProperties, ElementOfSeq
<1>3. \A r, s \in Elements(rows) : r.id = s.id => r = s
  BY OneRowSeen
<1>4. Owned = {} => rows = heap
  <2> SUFFICES ASSUME Owned = {} PROVE rows = heap
    OBVIOUS
  <2>1. Visible(heap, Robot) = Row
    BY Readings DEF Visible
  <2> QED BY <2>1, SiftAll DEF ViewOf
<1> HIDE DEF rows
<1>5. g = [i \in 1..Len(rows) |-> [rows[i] EXCEPT !.own = FALSE]]
  BY <1>1, <1>2
<1>6. ASSUME NEW i \in 1..Len(rows)
      PROVE  /\ g[i] \in CommittedRows
             /\ g[i].id = rows[i].id /\ g[i].ver = rows[i].ver /\ g[i].own = FALSE
             /\ ~rows[i].own => g[i] = rows[i]
  <2>1. g[i] = [rows[i] EXCEPT !.own = FALSE] /\ rows[i] \in Row
    BY <1>2, <1>5
  <2> QED BY ZenonT(40), <2>1 DEF CommittedRows, Row
<1>7. g \in Seq(CommittedRows) /\ Len(g) = Len(rows) /\ DOMAIN g = 1..Len(rows)
  <2>1. g \in [1..Len(rows) -> CommittedRows]
    BY <1>5, <1>6
  <2>2. g \in Seq(CommittedRows)
    BY <1>2, <2>1, SeqDef
  <2>3. DOMAIN g = 1..Len(rows) /\ DOMAIN g = 1..Len(g) /\ Len(g) \in Nat
    BY <1>5, <2>2, LenProperties
  <2>4. Len(g) = Len(rows)
    BY <1>2, <2>3
  <2> QED BY <2>2, <2>3, <2>4
<1>8. g \in Seq(Row)
  BY <1>7, SeqMonotonic, CommittedRows \subseteq Row DEF CommittedRows
<1>9. OneRowEach(g)
  <2> SUFFICES ASSUME NEW r \in Elements(g), NEW s \in Elements(g), r.id = s.id
               PROVE  r = s
    BY DEF OneRowEach
  <2>1. PICK i \in 1..Len(rows), j \in 1..Len(rows) : r = g[i] /\ s = g[j]
    BY <1>7 DEF Elements
  <2>2. rows[i].id = rows[j].id
    BY <1>6, <2>1
  <2>3. rows[i] \in Elements(rows) /\ rows[j] \in Elements(rows)
    BY DEF Elements
  <2>4. rows[i] = rows[j]
    BY <1>3, <2>2, <2>3
  <2>5. g[i] = [rows[i] EXCEPT !.own = FALSE] /\ g[j] = [rows[j] EXCEPT !.own = FALSE]
    BY <1>5
  <2> QED BY Zenon, <2>1, <2>4, <2>5
<1>10. Contents(g) = Contents(rows)
  BY <1>2, <1>6, <1>7 DEF Contents
<1>11. ASSUME NEW b, b # Robot PROVE DocsOf(g, b) = DocsOf(heap, Robot)
  <2>1. Sift(g, CommittedRows) = g
    BY <1>7, SiftAll
  <2> QED BY <1>10, <1>11, <2>1 DEF DocsOf, ViewOf, Visible, rows
<1>12. ASSUME Owned = {} PROVE g = heap
  <2>1. rows = heap /\ \A i \in 1..Len(rows) : ~rows[i].own
    <3>1. \A i \in 1..Len(heap) : heap[i].own => heap[i].id \in OwnedIn(heap)
      <4>1. DOMAIN heap = 1..Len(heap)
        BY LenProperties
      <4> QED BY <4>1 DEF OwnedIn
    <3> QED BY <1>4, <1>12, <3>1, Readings
  <2>2. \A i \in 1..Len(g) : g[i] = rows[i]
    BY <1>6, <1>7, <2>1
  <2>3. heap \in Seq(Row) /\ Len(g) = Len(heap) /\ \A i \in 1..Len(g) : g[i] = heap[i]
    BY <1>7, <2>1, <2>2
  <2> QED BY <1>8, <2>3, SeqEqual
<1> QED BY <1>8, <1>9, <1>11, <1>12

\* When it does not, the others see what they saw, and the robot too if it had
\* written nothing.
LEMMA NightRollsBackTable ==
  ASSUME heap \in Seq(Row), OneRowEach(heap), NEW g, g = Sift(heap, CommittedRows)
  PROVE  /\ g \in Seq(Row) /\ OneRowEach(g)
         /\ \A b : b # Robot => ViewOf(g, b) = ViewOf(heap, b)
         /\ Owned = {} => \A b : ViewOf(g, b) = ViewOf(heap, Robot)
<1>1. g \in Seq(Row)
  BY SiftType, SeqMonotonic, Row \cap CommittedRows \subseteq Row
<1>2. Elements(g) \subseteq Elements(heap)
  BY SiftElements
<1>3. OneRowEach(g)
  BY <1>2 DEF OneRowEach
<1>4. ASSUME NEW b, b # Robot PROVE ViewOf(g, b) = ViewOf(heap, b)
  <2>1. CommittedRows \cap CommittedRows = CommittedRows
    OBVIOUS
  <2>2. Sift(g, CommittedRows) = Sift(heap, CommittedRows)
    BY <2>1, SiftTwice
  <2> QED BY <1>4, <2>2 DEF ViewOf, Visible
<1>5. ASSUME Owned = {}, NEW b PROVE ViewOf(g, b) = ViewOf(heap, Robot)
  <2>1. \A i \in 1..Len(heap) : heap[i] \in Row /\ (heap[i].own => heap[i].id \in OwnedIn(heap))
    <3>1. DOMAIN heap = 1..Len(heap) /\ \A i \in 1..Len(heap) : heap[i] \in Row
      BY LenProperties, ElementOfSeq
    <3> QED BY <3>1 DEF OwnedIn
  <2>2. OwnedIn(heap) = {} /\ \A i \in 1..Len(heap) : heap[i] \in CommittedRows
    BY <1>5, <2>1, Readings DEF CommittedRows
  <2>3. heap \in Seq(CommittedRows)
    <3>1. Len(heap) \in Nat /\ heap \in [1..Len(heap) -> Row]
      BY LenProperties
    <3>2. heap \in [1..Len(heap) -> CommittedRows]
      BY <2>2, <3>1
    <3> QED BY <3>1, <3>2, SeqDef
  <2>4. g = heap
    BY <2>3, SiftAll
  <2>5. \A c : CommittedRows \subseteq Visible(heap, c)
    BY <2>2 DEF Visible, CommittedRows
  <2>6. \A c : ViewOf(heap, c) = heap
    BY <2>3, <2>5, SiftAll DEF ViewOf
  <2> QED BY <2>4, <2>6
<1> QED BY <1>1, <1>3, <1>4, <1>5

-----------------------------------------------------------------------------
(* The types *)

LEMMA BuildTypes ==
  /\ Idle \in Build /\ Idle.step = "idle"
  /\ [Idle EXCEPT !.step = "erase"] \in Build /\ [Idle EXCEPT !.step = "erase"].step = "erase"
  /\ [Idle EXCEPT !.step = "end"] \in Build /\ [Idle EXCEPT !.step = "end"].step = "end"
  /\ [Idle EXCEPT !.step = "erase"].docs = {} /\ [Idle EXCEPT !.step = "erase"].page = 0
<1>1. Idle \in Build
  BY DEF Idle, Build
<1>2. Idle.step = "idle" /\ Idle.docs = {} /\ Idle.page = 0
  BY DEF Idle
<1>3. \A x \in Build :
        /\ [x EXCEPT !.step = "erase"] \in Build /\ [x EXCEPT !.step = "erase"].step = "erase"
        /\ [x EXCEPT !.step = "erase"].docs = x.docs /\ [x EXCEPT !.step = "erase"].page = x.page
        /\ [x EXCEPT !.step = "end"] \in Build /\ [x EXCEPT !.step = "end"].step = "end"
  BY DEF Build
<1> QED BY <1>1, <1>2, <1>3

LEMMA TInvInit == Init => TInv
<1> SUFFICES ASSUME Init PROVE TInv
  OBVIOUS
<1>1. Loaded \in Seq(Ids) /\ Len(Loaded) \in Nat /\ DOMAIN Loaded = 1..Len(Loaded)
      /\ \A i \in 1..Len(Loaded) : Loaded[i] \in Ids
  BY LoadedAssumption, LenProperties, ElementOfSeq
<1>2. heap \in [1..Len(Loaded) -> Row]
  BY <1>1 DEF Init, Row
<1>3. heap \in Seq(Row)
  BY <1>1, <1>2, SeqDef
<1>4. OneRowEach(heap)
  <2> SUFFICES ASSUME NEW r \in Elements(heap), NEW s \in Elements(heap), r.id = s.id
               PROVE  r = s
    BY DEF OneRowEach
  <2>1. Len(heap) = Len(Loaded)
    BY <1>1, <1>2, <1>3, LenProperties
  <2>2. PICK i \in 1..Len(Loaded), j \in 1..Len(Loaded) : r = heap[i] /\ s = heap[j]
    BY <2>1 DEF Elements
  <2>3. /\ r = [id |-> Loaded[i], ver |-> 1, own |-> FALSE]
        /\ s = [id |-> Loaded[j], ver |-> 1, own |-> FALSE]
    BY <1>1, <2>2 DEF Init
  <2> QED BY <2>3
<1>5. build \in [Builders -> Build] /\ \A b \in Builders : build[b] = Idle
  BY BuildTypes DEF Init
<1>6. Robot \in Builders
  BY DEF Builders
<1>7. TypeOK
  BY <1>3, <1>5 DEF Init, TypeOK
<1>8. last # Robot
  BY ThreadsAssumption DEF Init
<1> QED BY <1>4, <1>5, <1>6, <1>7, <1>8, BuildTypes DEF TInv, Init

\* What a step does to one thread's rebuild is enough for the others' types.
LEMMA TInvBuild ==
  ASSUME TInv, NEW b \in Builders, NEW x \in Build, build' = [build EXCEPT ![b] = x],
         x.step = "erase" => x.docs = {} /\ x.page = 0
  PROVE  /\ build' \in [Builders -> Build] /\ build'[b] = x
         /\ \A o \in Builders \ {b} : build'[o] = build[o]
         /\ \A o \in Builders : build'[o].step = "erase" => build'[o].docs = {} /\ build'[o].page = 0
<1>1. build \in [Builders -> Build]
  BY DEF TInv, TypeOK
<1>2. /\ build' \in [Builders -> Build] /\ build'[b] = x
      /\ \A o \in Builders \ {b} : build'[o] = build[o]
  BY <1>1
<1>3. \A o \in Builders : build[o].step = "erase" => build[o].docs = {} /\ build[o].page = 0
  BY DEF TInv
<1> QED BY <1>2, <1>3

LEMMA TInvPlaced ==
  ASSUME TInv, NEW id \in Ids, NEW own \in BOOLEAN, own \/ id \notin Owned,
         heap' \in Placed(id, own)
  PROVE  heap' \in Seq(Row) /\ OneRowEach(heap')
<1> DEFINE x == [id |-> id, ver |-> writes + 2, own |-> own]
<1>1. heap \in Seq(Row) /\ writes \in Nat /\ OneRowEach(heap)
  BY DEF TInv, TypeOK
<1>2. /\ heap' \in Seq(Row)
      /\ Elements(heap') = {r \in Elements(heap) : r.id # id \/ (own /\ ~r.own)} \cup {x}
  BY <1>1, PlacedIs
<1>3. x.id = id /\ x.own = own
  OBVIOUS
<1>4. \A r \in Elements(heap) : (own /\ ~r.own) => r.own # own
  OBVIOUS
<1> HIDE DEF x
<1> QED BY <1>1, <1>2, <1>3, <1>4 DEF OneRowEach

LEMMA TInvNext == TInv /\ [Next]_vars => TInv'
<1> SUFFICES ASSUME TInv, [Next]_vars PROVE TInv'
  OBVIOUS
<1>t. /\ heap \in Seq(Row) /\ index \in SUBSET Doc /\ build \in [Builders -> Build]
      /\ night \in {"away", "imports", "indexes"} /\ last \in Builders \cup {NoOne}
      /\ complete \in BOOLEAN /\ covered \in BOOLEAN
      /\ writes \in Nat /\ rebuilds \in Nat /\ fails \in Nat
  BY DEF TInv, TypeOK
<1>o. /\ OneRowEach(heap)
      /\ night # "indexes" => build[Robot] = Idle
      /\ last = Robot => night = "indexes"
      /\ \A b \in Builders : build[b].step = "erase" => build[b].docs = {} /\ build[b].page = 0
  BY DEF TInv
<1>b. Robot \in Builders /\ Robot \notin Admins /\ NoOne # Robot
      /\ \A b \in Admins : b \in Builders /\ b # Robot
  BY ThreadsAssumption DEF Builders
<1>1. ASSUME NEW id \in Ids, Save(id) PROVE TInv'
  <2>1. heap' \in Seq(Row) /\ OneRowEach(heap')
    BY <1>1, TInvPlaced DEF Save
  <2>2. /\ UNCHANGED <<index, build, night, last, complete, rebuilds, fails>>
        /\ writes' = writes + 1 /\ covered' \in BOOLEAN
    BY <1>1 DEF Save
  <2> QED BY <1>t, <1>o, <2>1, <2>2 DEF TInv, TypeOK
<1>2. ASSUME NEW id \in Ids, Delete(id) PROVE TInv'
  <2>1. heap' = Sift(heap, {r \in Row : r.id # id})
    BY <1>2 DEF Delete
  <2> DEFINE S == {r \in Row : r.id # id}
  <2>2. heap' \in Seq(Row)
    BY <1>t, <2>1, SiftType, SeqMonotonic, Row \cap S \subseteq Row
  <2>3. Elements(heap') \subseteq Elements(heap)
    BY <1>t, <2>1, SiftElements
  <2>4. OneRowEach(heap')
    BY <1>o, <2>3 DEF OneRowEach
  <2>5. /\ UNCHANGED <<index, build, night, last, complete, rebuilds, fails>>
        /\ writes' = writes + 1 /\ covered' \in BOOLEAN
    BY <1>2 DEF Delete
  <2> QED BY <1>t, <1>o, <2>2, <2>4, <2>5 DEF TInv, TypeOK
<1>3. ASSUME NEW id \in Ids, NightSaves(id) PROVE TInv'
  <2>1. heap' \in Seq(Row) /\ OneRowEach(heap')
    BY <1>3, TInvPlaced DEF NightSaves
  <2> QED BY <1>3, <1>t, <1>o, <2>1 DEF NightSaves, TInv, TypeOK
<1>15. ASSUME NEW id \in Ids, NightDeletes(id) PROVE TInv'
  <2>1. /\ heap' \in Seq(Row)
        /\ Elements(heap') = {r \in Elements(heap) : r.id # id \/ ~r.own} \cup {Tombstone(id)}
    BY <1>15, <1>t, TombstonePlaced DEF NightDeletes
  <2>2. Tombstone(id).id = id /\ Tombstone(id).own = TRUE
    BY DEF Tombstone
  <2>3. OneRowEach(heap')
    BY <1>o, <2>1, <2>2 DEF OneRowEach
  <2> QED BY <1>15, <1>t, <1>o, <2>1, <2>3 DEF NightDeletes, TInv, TypeOK
<1>4. CASE NightBegins
  BY <1>4, <1>t, <1>o DEF NightBegins, bounds, TInv, TypeOK
<1>5. CASE NightRebuilds
  <2>1. /\ build' \in [Builders -> Build]
        /\ \A o \in Builders : build'[o].step = "erase" => build'[o].docs = {} /\ build'[o].page = 0
    BY <1>5, <1>b, BuildTypes, TInvBuild DEF NightRebuilds
  <2> QED BY <1>5, <1>t, <1>o, <2>1 DEF NightRebuilds, bounds, TInv, TypeOK
<1>6. CASE NightCommits
  <2>1. heap' \in Seq(Row) /\ OneRowEach(heap')
    BY <1>6, <1>t, <1>o, NightCommitsTable DEF NightCommits
  <2>2. /\ build' \in [Builders -> Build] /\ build'[Robot] = Idle
        /\ \A o \in Builders : build'[o].step = "erase" => build'[o].docs = {} /\ build'[o].page = 0
    BY <1>6, <1>b, BuildTypes, TInvBuild DEF NightCommits
  <2>3. covered' \in BOOLEAN /\ last' \in Builders \cup {NoOne} /\ last' # Robot
    BY <1>6, <1>t, <1>b DEF NightCommits
  <2> QED BY <1>6, <1>t, <2>1, <2>2, <2>3 DEF NightCommits, bounds, TInv, TypeOK
<1>7. CASE NightRollsBack
  <2>1. heap' \in Seq(Row) /\ OneRowEach(heap')
    BY <1>7, <1>t, <1>o, NightRollsBackTable DEF NightRollsBack
  <2>2. /\ build' \in [Builders -> Build] /\ build'[Robot] = Idle
        /\ \A o \in Builders : build'[o].step = "erase" => build'[o].docs = {} /\ build'[o].page = 0
    BY <1>7, <1>b, BuildTypes, TInvBuild DEF NightRollsBack
  <2>3. covered' \in BOOLEAN /\ last' \in Builders \cup {NoOne} /\ last' # Robot
    BY <1>7, <1>t, <1>b DEF NightRollsBack
  <2> QED BY <1>7, <1>t, <2>1, <2>2, <2>3 DEF NightRollsBack, TInv, TypeOK
<1>8. ASSUME NEW b \in Admins, AdminRebuilds(b) PROVE TInv'
  <2>1. /\ build' \in [Builders -> Build] /\ \A o \in Builders \ {b} : build'[o] = build[o]
        /\ \A o \in Builders : build'[o].step = "erase" => build'[o].docs = {} /\ build'[o].page = 0
    BY <1>8, <1>b, BuildTypes, TInvBuild DEF AdminRebuilds
  <2>2. build'[Robot] = build[Robot]
    BY <1>b, <2>1
  <2> QED BY <1>8, <1>t, <1>o, <2>1, <2>2 DEF AdminRebuilds, TInv, TypeOK
<1>9. ASSUME NEW b \in Admins, AdminEnds(b) PROVE TInv'
  <2>1. /\ build' \in [Builders -> Build] /\ \A o \in Builders \ {b} : build'[o] = build[o]
        /\ \A o \in Builders : build'[o].step = "erase" => build'[o].docs = {} /\ build'[o].page = 0
    BY <1>9, <1>b, BuildTypes, TInvBuild DEF AdminEnds
  <2>2. build'[Robot] = build[Robot]
    BY <1>b, <2>1
  <2> QED BY <1>9, <1>t, <1>o, <2>1, <2>2 DEF AdminEnds, bounds, TInv, TypeOK
<1>r. ASSUME NEW b \in Builders, build[b].step # "idle" PROVE b = Robot => night = "indexes"
  BY <1>o, <1>r, BuildTypes
<1>10. ASSUME NEW b \in Builders, Erase(b) PROVE TInv'
  <2> DEFINE x == [build[b] EXCEPT !.step = "fetch"]
  <2>1. x \in Build /\ x.step = "fetch"
    BY <1>t DEF Build
  <2>2. build' = [build EXCEPT ![b] = x]
    BY <1>10 DEF Erase
  <2> HIDE DEF x
  <2>3. /\ build' \in [Builders -> Build] /\ \A o \in Builders \ {b} : build'[o] = build[o]
        /\ \A o \in Builders : build'[o].step = "erase" => build'[o].docs = {} /\ build'[o].page = 0
    BY <2>1, <2>2, TInvBuild
  <2>4. b = Robot => night = "indexes"
    BY <1>10, <1>r DEF Erase
  <2>5. covered' \in BOOLEAN
    BY <1>10 DEF Erase
  <2> QED BY <1>10, <1>t, <1>o, <1>b, <2>3, <2>4, <2>5 DEF Erase, bounds, TInv, TypeOK
<1>11. ASSUME NEW b \in Builders, Fetch(b) PROVE TInv'
  <2> DEFINE x == [build[b] EXCEPT !.step = "add",
                                   !.docs = Contents(PageOf(View(b), build[b].page)),
                                   !.more = HasNext(View(b), build[b].page)]
  <2>1. View(b) \in Seq(Row) /\ build[b].page \in Nat
    BY <1>t, ViewIs, Readings DEF Build
  <2>2. Contents(PageOf(View(b), build[b].page)) \subseteq Doc
    BY <2>1, TakenIs, ContentsIs
  <2>3. HasNext(View(b), build[b].page) \in BOOLEAN
    BY DEF HasNext
  <2>4. x \in Build /\ x.step = "add"
    BY <1>t, <2>2, <2>3 DEF Build
  <2>5. build' = [build EXCEPT ![b] = x]
    BY <1>11 DEF Fetch
  <2> HIDE DEF x
  <2>6. /\ build' \in [Builders -> Build] /\ \A o \in Builders \ {b} : build'[o] = build[o]
        /\ \A o \in Builders : build'[o].step = "erase" => build'[o].docs = {} /\ build'[o].page = 0
    BY <2>4, <2>5, TInvBuild
  <2>7. b = Robot => night = "indexes"
    BY <1>11, <1>r DEF Fetch
  <2> QED BY <1>11, <1>t, <1>o, <1>b, <2>6, <2>7 DEF Fetch, bounds, TInv, TypeOK
<1>12. ASSUME NEW b \in Builders, Add(b) PROVE TInv'
  <2> DEFINE x == [build[b] EXCEPT !.step = IF build[b].more THEN "fetch" ELSE "end",
                                   !.page = NextPage(@), !.docs = {}]
  <2> DEFINE s == IF build[b].more THEN "fetch" ELSE "end"
  <2>0. /\ build[b] \in Build /\ NextPage(build[b].page) \in Nat
        /\ s \in {"fetch", "end"}
    BY <1>t DEF Build, NextPage
  <2> HIDE DEF s
  <2>1. x \in Build /\ x.step # "erase"
    BY <2>0 DEF Build, s
  <2>2. build' = [build EXCEPT ![b] = x]
    BY <1>12 DEF Add
  <2> HIDE DEF x
  <2>3. /\ build' \in [Builders -> Build] /\ \A o \in Builders \ {b} : build'[o] = build[o]
        /\ \A o \in Builders : build'[o].step = "erase" => build'[o].docs = {} /\ build'[o].page = 0
    BY <2>1, <2>2, TInvBuild
  <2>4. b = Robot => night = "indexes"
    BY <1>12, <1>r DEF Add
  <2>5. index' \subseteq Doc /\ complete' \in BOOLEAN
    BY <1>12, <1>t DEF Add, Added, Build
  <2> QED BY <1>12, <1>t, <1>o, <1>b, <2>3, <2>4, <2>5 DEF Add, bounds, TInv, TypeOK
<1>13. ASSUME NEW b \in Builders, SolrFails(b) PROVE TInv'
  <2>1. /\ build' \in [Builders -> Build] /\ \A o \in Builders \ {b} : build'[o] = build[o]
        /\ \A o \in Builders : build'[o].step = "erase" => build'[o].docs = {} /\ build'[o].page = 0
    <3>1. CASE b = Robot
      BY <1>13, <3>1, BuildTypes, TInvBuild DEF SolrFails
    <3>2. CASE b # Robot
      BY <1>13, <3>2, BuildTypes, TInvBuild DEF SolrFails
    <3> QED BY <3>1, <3>2
  <2>2. b = Robot => night = "indexes"
    BY <1>13, <1>r DEF SolrFails
  <2> QED BY <1>13, <1>t, <1>o, <1>b, <2>1, <2>2 DEF SolrFails, TInv, TypeOK
<1>14. CASE UNCHANGED vars
  BY <1>14, <1>t, <1>o DEF vars, TInv, TypeOK
<1> QED BY <1>1, <1>2, <1>3, <1>4, <1>5, <1>6, <1>7, <1>8, <1>9, <1>10, <1>11, <1>12,
           <1>13, <1>14, <1>15 DEF Next, Step

-----------------------------------------------------------------------------
(* The index *)

LEMMA CInvInit == Init => CInv
BY DEF Init, CInv

\* The table and the index stay, and no rebuild but one that is not running changes.
LEMMA CInvFrame ==
  ASSUME CInv, heap' = heap, index' = index, last' = last, complete' = complete,
         covered' => covered, NEW c \in Builders, \A b \in Builders \ {c} : build'[b] = build[b],
         build'[c].step \in {"idle", "erase", "end"}, last \in Builders \cup {NoOne}
  PROVE  CInv'
<1> SUFFICES ASSUME covered' PROVE CInv'
  BY DEF CInv
<1>1. /\ index \subseteq DocsOf(heap, last)
      /\ complete => DocsOf(heap, last) \subseteq index
  BY DEF CInv
<1>2. ASSUME NEW b \in Builders, Running(b)'
      PROVE  b # c /\ build'[b] = build[b] /\ Running(b)
  BY <1>2 DEF Running
<1>3. ASSUME NEW b \in Builders, Running(b)'
      PROVE  DocsOf(heap', b) = DocsOf(heap', last') /\ build'[b].docs \subseteq DocsOf(heap', last')
  BY <1>2, <1>3 DEF CInv
<1>4. ASSUME last' # NoOne, Running(last)'
      PROVE  AtItsPage(last)' /\ Taken(ViewOf(heap', last'), build'[last'].page) \subseteq index'
  <2>1. last # c /\ build'[last] = build[last] /\ Running(last)
    BY <1>4 DEF Running
  <2>2. AtItsPage(last) /\ Taken(ViewOf(heap, last), build[last].page) \subseteq index
    BY <1>4, <2>1 DEF CInv
  <2> QED BY <2>1, <2>2 DEF AtItsPage
<1> QED BY <1>1, <1>3, <1>4 DEF CInv

\* The robot changes what only it sees, and does not rebuild.
LEMMA CInvRobotWrites ==
  ASSUME CInv, \A b : b # Robot => ViewOf(heap', b) = ViewOf(heap, b),
         index' = index, last' = last, complete' = complete, covered' => covered,
         \A b \in Builders \ {Robot} : build'[b] = build[b], build'[Robot] = Idle,
         last \in Builders \cup {NoOne}, last # Robot
  PROVE  CInv'
<1> SUFFICES ASSUME covered' PROVE CInv'
  BY DEF CInv
<1>0. \A b : b # Robot => DocsOf(heap', b) = DocsOf(heap, b)
  BY DEF DocsOf
<1>1. /\ index \subseteq DocsOf(heap, last)
      /\ complete => DocsOf(heap, last) \subseteq index
  BY DEF CInv
<1>2. ASSUME NEW b \in Builders, Running(b)'
      PROVE  b # Robot /\ build'[b] = build[b] /\ Running(b)
  BY <1>2, BuildTypes DEF Running
<1>3. ASSUME NEW b \in Builders, Running(b)'
      PROVE  DocsOf(heap', b) = DocsOf(heap', last') /\ build'[b].docs \subseteq DocsOf(heap', last')
  BY <1>0, <1>2, <1>3 DEF CInv
<1>4. ASSUME last' # NoOne, Running(last)'
      PROVE  AtItsPage(last)' /\ Taken(ViewOf(heap', last'), build'[last'].page) \subseteq index'
  <2>1. build'[last] = build[last] /\ Running(last) /\ ViewOf(heap', last) = ViewOf(heap, last)
    BY <1>4 DEF Running
  <2>2. AtItsPage(last) /\ Taken(ViewOf(heap, last), build[last].page) \subseteq index
    BY <1>4, <2>1 DEF CInv
  <2> QED BY <2>1, <2>2 DEF AtItsPage
<1> QED BY <1>0, <1>1, <1>3, <1>4 DEF CInv

\* The robot, who erased the index last, ends, and all see what it saw.
LEMMA CInvRobotEnds ==
  ASSUME CInv, \A b : b # Robot => DocsOf(heap', b) = DocsOf(heap, Robot),
         index' = index, last = Robot, last' = NoOne, complete' = complete, covered' => covered,
         \A b \in Builders \ {Robot} : build'[b] = build[b], build'[Robot] = Idle
  PROVE  CInv'
<1> SUFFICES ASSUME covered' PROVE CInv'
  BY DEF CInv
<1>0. NoOne # Robot
  BY ThreadsAssumption
<1>1. /\ index \subseteq DocsOf(heap, Robot)
      /\ complete => DocsOf(heap, Robot) \subseteq index
  BY DEF CInv
<1>2. ASSUME NEW b \in Builders, Running(b)'
      PROVE  b # Robot /\ build'[b] = build[b] /\ Running(b)
  BY <1>2, BuildTypes DEF Running
<1>3. ASSUME NEW b \in Builders, Running(b)'
      PROVE  DocsOf(heap', b) = DocsOf(heap', last') /\ build'[b].docs \subseteq DocsOf(heap', last')
  BY <1>0, <1>2, <1>3 DEF CInv
<1> QED BY <1>0, <1>1, <1>3 DEF CInv

LEMMA CInvErase ==
  ASSUME TInv, CInv, NEW b \in Builders, Erase(b)
  PROVE  CInv'
<1> SUFFICES ASSUME covered' PROVE CInv'
  BY DEF CInv
<1>1. /\ build[b].step = "erase" /\ build[b].docs = {} /\ build[b].page = 0
      /\ build \in [Builders -> Build] /\ heap \in Seq(Row)
  BY DEF Erase, TInv, TypeOK
<1>2. /\ index' = {} /\ last' = b /\ ~complete' /\ heap' = heap
      /\ build' = [build EXCEPT ![b].step = "fetch"]
      /\ \A o \in Builders \ {b} : Running(o) =>
           DocsOf(heap, o) = DocsOf(heap, b) /\ build[o].docs \subseteq DocsOf(heap, b)
  BY Readings DEF Erase
<1>3. /\ build'[b].step = "fetch" /\ build'[b].docs = {} /\ build'[b].page = 0
      /\ \A o \in Builders \ {b} : build'[o] = build[o]
  BY <1>1, <1>2 DEF Build
<1>4. ASSUME NEW o \in Builders, Running(o)'
      PROVE  DocsOf(heap', o) = DocsOf(heap', last') /\ build'[o].docs \subseteq DocsOf(heap', last')
  <2>1. CASE o = b
    BY <1>2, <1>3, <2>1
  <2>2. CASE o # b
    BY <1>2, <1>3, <1>4, <2>2 DEF Running
  <2> QED BY <2>1, <2>2
<1>5. AtItsPage(last)'
  BY <1>2, <1>3 DEF AtItsPage
<1>6. Taken(ViewOf(heap', last'), build'[last'].page) \subseteq index'
  BY <1>1, <1>2, <1>3, ViewIs, TakenIs, 0 \in Nat
<1> QED BY <1>2, <1>4, <1>5, <1>6 DEF CInv

LEMMA CInvFetch ==
  ASSUME TInv, CInv, NEW b \in Builders, Fetch(b)
  PROVE  CInv'
<1> SUFFICES ASSUME covered' PROVE CInv'
  BY DEF CInv
<1>1. build[b].step = "fetch" /\ build \in [Builders -> Build] /\ heap \in Seq(Row)
      /\ last \in Builders \cup {NoOne} /\ NoOne \notin Builders
  BY ThreadsAssumption DEF Fetch, TInv, TypeOK, Builders
<1>2. /\ index' = index /\ last' = last /\ complete' = complete /\ covered' = covered
      /\ heap' = heap
      /\ build' = [build EXCEPT ![b].step = "add",
                                ![b].docs = Contents(PageOf(ViewOf(heap, b), build[b].page)),
                                ![b].more = HasNext(ViewOf(heap, b), build[b].page)]
  BY Readings DEF Fetch
<1>3. /\ build'[b].step = "add" /\ build'[b].page = build[b].page /\ build[b].page \in Nat
      /\ build'[b].docs = Contents(PageOf(ViewOf(heap, b), build[b].page))
      /\ build'[b].more = HasNext(ViewOf(heap, b), build[b].page)
      /\ \A o \in Builders \ {b} : build'[o] = build[o]
  BY <1>1, <1>2 DEF Build
<1>4. build'[b].docs \subseteq DocsOf(heap, b)
  <2> DEFINE rows == ViewOf(heap, b)
  <2>1. rows \in Seq(Row)
    BY <1>1, ViewIs
  <2>2. build'[b].docs = Contents(PageOf(rows, build[b].page)) /\ build[b].page \in Nat
    BY <1>3
  <2> HIDE DEF rows
  <2>3. build'[b].docs \subseteq Contents(rows)
    BY <2>1, <2>2, TakenIs
  <2> QED BY <2>3 DEF DocsOf, rows
<1>5. Running(b)
  BY <1>1 DEF Running
<1>6. ASSUME NEW o \in Builders, Running(o)'
      PROVE  DocsOf(heap', o) = DocsOf(heap', last') /\ build'[o].docs \subseteq DocsOf(heap', last')
  <2>1. CASE o = b
    BY <1>2, <1>4, <1>5, <2>1 DEF CInv
  <2>2. CASE o # b
    <3>1. Running(o) /\ build'[o] = build[o]
      BY <1>3, <1>6, <2>2 DEF Running
    <3> QED BY <1>2, <3>1 DEF CInv
  <2> QED BY <2>1, <2>2
<1>7. ASSUME last' # NoOne, Running(last)'
      PROVE  AtItsPage(last)' /\ Taken(ViewOf(heap', last'), build'[last'].page) \subseteq index'
  <2>1. CASE last = b
    BY <1>1, <1>2, <1>3, <1>5, <1>7, <2>1 DEF AtItsPage, CInv
  <2>2. CASE last # b
    <3>1. Running(last) /\ build'[last] = build[last]
      BY <1>1, <1>2, <1>3, <1>7, <2>2 DEF Running
    <3>2. AtItsPage(last) /\ Taken(ViewOf(heap, last), build[last].page) \subseteq index
      BY <1>2, <1>7, <3>1 DEF CInv
    <3> QED BY <1>2, <3>1, <3>2 DEF AtItsPage
  <2> QED BY <2>1, <2>2
<1> QED BY <1>2, <1>6, <1>7 DEF CInv

LEMMA CInvAdd ==
  ASSUME TInv, CInv, NEW b \in Builders, Add(b)
  PROVE  CInv'
<1> SUFFICES ASSUME covered' PROVE CInv'
  BY DEF CInv
<1> DEFINE D == DocsOf(heap, last)
           ds == build[b].docs
<1>1. /\ build[b].step = "add" /\ build \in [Builders -> Build] /\ heap \in Seq(Row)
      /\ OneRowEach(heap) /\ last \in Builders \cup {NoOne} /\ NoOne \notin Builders
      /\ build[b].page \in Nat
  BY ThreadsAssumption DEF Add, TInv, TypeOK, Builders, Build
<1>2. /\ last' = last /\ covered' = covered /\ heap' = heap /\ index' = Added(ds)
      /\ complete' = (complete \/ (last = b /\ ~build[b].more))
      /\ build' = [build EXCEPT ![b].step = IF build[b].more THEN "fetch" ELSE "end",
                                ![b].page = NextPage(@), ![b].docs = {}]
  BY DEF Add
<1>3. /\ build'[b].step # "add" /\ build'[b].page = build[b].page + 1 /\ build'[b].docs = {}
      /\ \A o \in Builders \ {b} : build'[o] = build[o]
  <2> DEFINE s == IF build[b].more THEN "fetch" ELSE "end"
  <2>1. s # "add"
    OBVIOUS
  <2>2. build' = [build EXCEPT ![b].step = s, ![b].page = build[b].page + 1, ![b].docs = {}]
    BY <1>2 DEF NextPage
  <2>3. build[b] \in Build
    BY <1>1
  <2> HIDE DEF s
  <2>4. build'[b] = [build[b] EXCEPT !.step = s, !.page = build[b].page + 1, !.docs = {}]
        /\ \A o \in Builders \ {b} : build'[o] = build[o]
    BY <1>1, <2>2
  <2> QED BY <2>1, <2>3, <2>4 DEF Build
<1>4. Running(b)
  BY <1>1 DEF Running
<1>5. index \subseteq D /\ ds \subseteq D /\ DocsOf(heap, b) = D /\ (complete => D \subseteq index)
  BY <1>2, <1>4 DEF CInv
<1>6. index' = index \cup ds
  BY <1>1, <1>2, <1>5, AddedIs
<1> DEFINE rows == ViewOf(heap, b)
           p == build[b].page
<1>7. ASSUME last = b
      PROVE  /\ Taken(rows, p + 1) \subseteq index'
             /\ ~build[b].more => D \subseteq index'
  <2>1. ds = Contents(PageOf(rows, p)) /\ build[b].more = HasNext(rows, p)
        /\ Taken(rows, p) \subseteq index
    BY <1>1, <1>2, <1>4, <1>7 DEF CInv, AtItsPage
  <2>2. rows \in Seq(Row)
    BY <1>1, ViewIs
  <2>3. D = Contents(rows)
    BY <1>5 DEF DocsOf
  <2> HIDE DEF D, ds, rows, p
  <2>4. /\ Taken(rows, p + 1) = Taken(rows, p) \cup Contents(PageOf(rows, p))
        /\ ~HasNext(rows, p) => Taken(rows, p + 1) = Contents(rows)
    BY <1>1, <2>2, TakenIs DEF p
  <2>5. Taken(rows, p + 1) \subseteq index'
    BY <1>6, <2>1, <2>4
  <2>6. ~build[b].more => D \subseteq index'
    BY <2>1, <2>3, <2>4, <2>5
  <2> QED BY <2>5, <2>6
<1>8. ASSUME NEW o \in Builders, Running(o)'
      PROVE  DocsOf(heap', o) = DocsOf(heap', last') /\ build'[o].docs \subseteq DocsOf(heap', last')
  <2>1. CASE o = b
    BY <1>2, <1>3, <1>5, <2>1
  <2>2. CASE o # b
    <3>1. Running(o) /\ build'[o] = build[o]
      BY <1>3, <1>8, <2>2 DEF Running
    <3> QED BY <1>2, <3>1 DEF CInv
  <2> QED BY <2>1, <2>2
<1>9. ASSUME last' # NoOne, Running(last)'
      PROVE  AtItsPage(last)' /\ Taken(ViewOf(heap', last'), build'[last'].page) \subseteq index'
  <2>1. CASE last = b
    BY <1>1, <1>2, <1>3, <1>7, <2>1 DEF AtItsPage
  <2>2. CASE last # b
    <3>1. Running(last) /\ build'[last] = build[last]
      BY <1>1, <1>2, <1>3, <1>9, <2>2 DEF Running
    <3>2. AtItsPage(last) /\ Taken(ViewOf(heap, last), build[last].page) \subseteq index
      BY <1>2, <1>9, <3>1 DEF CInv
    <3> QED BY <1>2, <1>6, <3>1, <3>2 DEF AtItsPage
  <2> QED BY <2>1, <2>2
<1>10. index' \subseteq DocsOf(heap', last')
  BY <1>2, <1>5, <1>6
<1>11. complete' => DocsOf(heap', last') \subseteq index'
  <2>1. CASE complete
    BY <1>2, <1>5, <1>6, <2>1
  <2>2. CASE last = b /\ ~build[b].more
    BY <1>2, <1>7, <2>2
  <2> QED BY <1>2, <2>1, <2>2
<1> QED BY <1>8, <1>9, <1>10, <1>11 DEF CInv

LEMMA CInvNext == TInv /\ CInv /\ [Next]_vars => CInv'
<1> SUFFICES ASSUME TInv, CInv, [Next]_vars PROVE CInv'
  OBVIOUS
<1>t. /\ heap \in Seq(Row) /\ OneRowEach(heap) /\ build \in [Builders -> Build]
      /\ last \in Builders \cup {NoOne} /\ writes \in Nat
      /\ night # "indexes" => build[Robot] = Idle
  BY DEF TInv, TypeOK
<1>n. last = Robot => night = "indexes"
  BY DEF TInv
<1>b. Robot \in Builders /\ \A b \in Admins : b \in Builders
  BY DEF Builders
<1>1. ASSUME NEW id \in Ids, Save(id) \/ Delete(id) PROVE CInv'
  <2>1. ~covered'
    BY <1>1 DEF Save, Delete
  <2> QED BY <2>1 DEF CInv
<1>2. ASSUME NEW id \in Ids, NightSaves(id) PROVE CInv'
  <2>1. /\ night = "imports" /\ heap' \in Placed(id, TRUE)
        /\ UNCHANGED <<index, build, night, last, complete, covered, rebuilds, fails>>
    BY <1>2 DEF NightSaves
  <2>2. last # Robot /\ build[Robot] = Idle
    BY <1>t, <1>n, <2>1
  <2>3. \A b : b # Robot => ViewOf(heap', b) = ViewOf(heap, b)
    BY <1>t, <2>1, PlacedIs
  <2> QED BY <1>t, <2>1, <2>2, <2>3, CInvRobotWrites
<1>12. ASSUME NEW id \in Ids, NightDeletes(id) PROVE CInv'
  <2>1. /\ night = "imports"
        /\ heap' = Append(Sift(heap, {r \in Row : r.id # id \/ ~r.own}), Tombstone(id))
        /\ UNCHANGED <<index, build, night, last, complete, covered, rebuilds, fails>>
    BY <1>12 DEF NightDeletes
  <2>2. last # Robot /\ build[Robot] = Idle
    BY <1>t, <1>n, <2>1
  <2>3. \A b : b # Robot => ViewOf(heap', b) = ViewOf(heap, b)
    BY <1>t, <2>1, TombstonePlaced
  <2> QED BY <1>t, <2>1, <2>2, <2>3, CInvRobotWrites
<1>3. CASE NightBegins
  <2>1. night = "away" /\ UNCHANGED <<heap, index, build, last, complete, covered, bounds>>
    BY <1>3 DEF NightBegins
  <2>2. build'[Robot].step = "idle" /\ \A b \in Builders \ {Robot} : build'[b] = build[b]
    BY <1>t, <2>1, BuildTypes
  <2> QED BY <1>t, <1>b, <2>1, <2>2, CInvFrame
<1>4. CASE NightRebuilds
  <2>1. /\ UNCHANGED <<heap, index, last, complete, covered, bounds>>
        /\ build' = [build EXCEPT ![Robot] = [Idle EXCEPT !.step = "erase"]]
    BY <1>4 DEF NightRebuilds
  <2>2. build'[Robot].step = "erase" /\ \A b \in Builders \ {Robot} : build'[b] = build[b]
    BY <1>t, <1>b, <2>1, BuildTypes
  <2> QED BY <1>t, <1>b, <2>1, <2>2, CInvFrame
<1>5. CASE NightCommits
  <2>1. /\ build' = [build EXCEPT ![Robot] = Idle]
        /\ last' = IF last = Robot THEN NoOne ELSE last
        /\ covered' => covered /\ (last = Robot \/ Owned = {})
        /\ UNCHANGED <<index, complete, bounds>>
    BY <1>5 DEF NightCommits
  <2>2. build'[Robot] = Idle /\ \A b \in Builders \ {Robot} : build'[b] = build[b]
    BY <1>t, <1>b, <2>1
  <2>3. /\ \A b : b # Robot => DocsOf(heap', b) = DocsOf(heap, Robot)
        /\ Owned = {} => heap' = heap
    BY <1>5, <1>t, NightCommitsTable DEF NightCommits
  <2>4. CASE ~covered'
    BY <2>4 DEF CInv
  <2>5. CASE last = Robot
    BY <2>1, <2>2, <2>3, <2>5, CInvRobotEnds
  <2>6. CASE last # Robot /\ Owned = {}
    BY <1>t, <2>1, <2>2, <2>3, <2>6, CInvRobotWrites
  <2> QED BY <2>1, <2>4, <2>5, <2>6
<1>6. CASE NightRollsBack
  <2>1. /\ build' = [build EXCEPT ![Robot] = Idle]
        /\ last' = IF last = Robot THEN NoOne ELSE last
        /\ covered' => covered /\ (last # Robot \/ Owned = {})
        /\ UNCHANGED <<index, complete, writes, rebuilds>>
    BY <1>6 DEF NightRollsBack
  <2>2. build'[Robot] = Idle /\ \A b \in Builders \ {Robot} : build'[b] = build[b]
    BY <1>t, <1>b, <2>1
  <2>3. /\ \A b : b # Robot => ViewOf(heap', b) = ViewOf(heap, b)
        /\ Owned = {} => \A b : ViewOf(heap', b) = ViewOf(heap, Robot)
    BY <1>6, <1>t, NightRollsBackTable DEF NightRollsBack
  <2>4. CASE ~covered'
    BY <2>4 DEF CInv
  <2>5. CASE last # Robot
    BY <1>t, <2>1, <2>2, <2>3, <2>5, CInvRobotWrites
  <2>6. CASE last = Robot /\ Owned = {}
    <3>1. \A b : b # Robot => DocsOf(heap', b) = DocsOf(heap, Robot)
      BY <2>3, <2>6 DEF DocsOf
    <3> QED BY <2>1, <2>2, <2>6, <3>1, CInvRobotEnds
  <2> QED BY <2>1, <2>4, <2>5, <2>6
<1>7. ASSUME NEW b \in Admins, AdminRebuilds(b) PROVE CInv'
  <2>1. /\ UNCHANGED <<heap, index, night, last, complete, covered, writes, fails>>
        /\ build' = [build EXCEPT ![b] = [Idle EXCEPT !.step = "erase"]]
    BY <1>7 DEF AdminRebuilds
  <2>2. build'[b].step = "erase" /\ \A o \in Builders \ {b} : build'[o] = build[o]
    BY <1>t, <1>b, <2>1, BuildTypes
  <2> QED BY <1>t, <1>b, <2>1, <2>2, CInvFrame
<1>8. ASSUME NEW b \in Admins, AdminEnds(b) PROVE CInv'
  <2>1. /\ UNCHANGED <<heap, index, night, last, complete, covered, bounds>>
        /\ build' = [build EXCEPT ![b] = Idle]
    BY <1>8 DEF AdminEnds
  <2>2. build'[b].step = "idle" /\ \A o \in Builders \ {b} : build'[o] = build[o]
    BY <1>t, <1>b, <2>1, BuildTypes
  <2> QED BY <1>t, <1>b, <2>1, <2>2, CInvFrame
<1>9. ASSUME NEW b \in Builders, Step(b) PROVE CInv'
  BY <1>9, CInvErase, CInvFetch, CInvAdd DEF Step
<1>10. ASSUME NEW b \in Builders, SolrFails(b) PROVE CInv'
  <2>1. /\ UNCHANGED <<heap, index, night, last, complete, covered, writes, rebuilds>>
        /\ build' = [build EXCEPT ![b] = IF b = Robot THEN [Idle EXCEPT !.step = "end"] ELSE Idle]
    BY <1>10 DEF SolrFails
  <2>2. build'[b].step \in {"idle", "end"} /\ \A o \in Builders \ {b} : build'[o] = build[o]
    BY <1>t, <2>1, BuildTypes
  <2> QED BY <1>t, <2>1, <2>2, CInvFrame
<1>11. CASE UNCHANGED vars
  <2>1. UNCHANGED <<heap, index, build, last, complete, covered>>
    BY <1>11 DEF vars
  <2> QED BY <2>1 DEF CInv, AtItsPage, Running
<1> QED BY <1>1, <1>2, <1>3, <1>4, <1>5, <1>6, <1>7, <1>8, <1>9, <1>10, <1>11,
           <1>12 DEF Next

-----------------------------------------------------------------------------
(* The theorems *)

THEOREM Invariance == Spec => []IInv
<1>1. Init => IInv
  BY TInvInit, CInvInit DEF IInv
<1>2. IInv /\ [Next]_vars => IInv'
  BY TInvNext, CInvNext DEF IInv
<1> QED BY <1>1, <1>2, PTL DEF Spec

\* Every variable holds a value of its type (Indexador.populateR1, Robo.run).
THEOREM SearchIndexTypeCorrect == Spec => []TypeOK
<1>1. IInv => TypeOK
  BY DEF IInv, TInv
<1> QED BY <1>1, Invariance, PTL

\* For any documents, administrators and page size: the rebuild that erased the
\* index last leaves in it what it sees of the table, whatever other rebuilds
\* add before or after, unless documents were written meanwhile
\* (Indexador.populateR1).
THEOREM SearchIndexIsTheTable == Spec => []IndexIsTheTable
<1>1. IInv => IndexIsTheTable
  <2> SUFFICES ASSUME TInv, CInv, complete, covered
               PROVE  index = IF last = Robot THEN Docs(Robot) ELSE Committed
    BY DEF IInv, IndexIsTheTable
  <2>1. index = DocsOf(heap, last)
    BY DEF CInv
  <2> QED BY <2>1, Readings
<1> QED BY <1>1, Invariance, PTL
=============================================================================
