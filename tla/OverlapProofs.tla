--------------------------- MODULE OverlapProofs ---------------------------
(***************************************************************************)
(* What module Overlap promises, for any requests, repositories and bounds *)
(*                                                                         *)
(* The inductive invariant has six parts: the types; the keys; the dates;  *)
(* what a request harvested against what the provider has; what holds of a *)
(* request nothing has disturbed; and what the repositories that have been *)
(* put right keep.  Each part is preserved with the help of those before.  *)
(***************************************************************************)
EXTENDS Overlap, SiftingProofs, FiniteSetTheorems

USE DEF NoDate, NoKey

Past(q, steps) == req[q].pc \in Steps \ ({"idle"} \cup steps)

-----------------------------------------------------------------------------
(* The inductive invariant *)

\* A running request has a repository, and what it is about to use is there.
Equipped(q) ==
  /\ req[q].i \in Nat \ {0}
  /\ req[q].pc # "idle" => req[q].rep \in Repos
  /\ req[q].pc \in {"rep", "parse"} => imp.file \in Repos
  /\ req[q].pc \in {"parse", "save", "insert"} => imp.rep.rep \in Repos
  /\ req[q].pc = "insert" => req[q].new # <<>>
TInv ==
  /\ TypeOK
  /\ \A id \in Ids : IsFiniteSet(docs[id])
  /\ edit = NoEdit \/ edit.rep \in Repos
  /\ \A q \in Requests : Equipped(q)

\* Keys are given out once, and documents have a repository that is there.
Keyed(q) ==
  /\ req[q].pc # "idle" => req[q].ent.key # NoKey
  /\ req[q].pc \in {"parse", "save", "insert"} => imp.rep.key # NoKey
  /\ req[q].pc = "insert" => req[q].new[2].key # NoKey
KInv ==
  /\ \A r \in Repos : row[r].key <= keys[r]
  /\ \A id \in Ids : \A d \in docs[id] : row[d.owner].key # NoKey
  /\ edit # NoEdit => edit.old.key # NoKey /\ edit.old.key <= keys[edit.rep]
  /\ \A q \in Requests : Keyed(q)

\* No date is later than the providers' clock.
Dated(q) ==
  req[q].ent.dataXml <= now /\ req[q].temp <= now /\ req[q].got.date <= now
DInv ==
  /\ now >= 1 /\ imp.oai.date <= now /\ edit.old.dataXml <= now
  /\ \A r \in Repos : row[r].dataXml <= now /\ disk[r].date <= now
  /\ \A q \in Requests : Dated(q)

\* What a request harvested is, of what its repository lists, the records
\* changed since its cursor; those that are not as they were changed later.
Harvested(u) ==
  /\ 1 <= u.got.date /\ u.ent.dataXml <= u.got.date
  /\ \A i \in 1..Len(u.got.recs) :
       LET x == u.got.recs[i]
       IN  /\ x.id \in Owned(u.rep)
           /\ prov[x.id].stamp >= u.ent.dataXml
           /\ x.ver = prov[x.id].ver \/ prov[x.id].stamp >= u.got.date
  /\ \A i, j \in 1..Len(u.got.recs) : u.got.recs[i].id = u.got.recs[j].id => i = j
  /\ \A id \in Owned(u.rep) :
       \/ prov[id].stamp < u.ent.dataXml
       \/ prov[id].stamp >= u.got.date
       \/ \E i \in 1..Len(u.got.recs) : u.got.recs[i].id = id
Faithful(q) ==
  /\ Past(q, {"wipe", "empty", "fetch"}) => Harvested(req[q])
  /\ req[q].pc \notin {"save", "insert", "end"} => req[q].i = 1
  /\ req[q].full => req[q].ent.dataXml = NoDate
GInv == \A q \in Requests : Faithful(q)

\* Nothing has run into the request since it began.
Quiet(q) == req[q].pc # "idle" /\ (req[q].alone \/ solid # {})

\* And its repository has not been deleted.
Sound(q) == Quiet(q) /\ (req[q].alone \/ req[q].rep \in solid)

\* The first n records harvested are stored, each once.
StoredUpTo(u, n) ==
  \A i \in 1..n : \E d \in docs[u.got.recs[i].id] :
    docs[u.got.recs[i].id] = {d} /\ d.ver = u.got.recs[i].ver

\* It has FEB to itself, ...
Undisturbed(q) ==
  /\ \A p \in Requests \ {q} : req[p].pc = "idle"
  /\ edit = NoEdit

\* ... what it uses is its own, ...
OwnThings(q) ==
  LET u == req[q]
  IN  /\ u.pc \in {"open", "rep", "parse"} => disk[u.rep] = u.got
      /\ u.pc \in {"rep", "parse"} => imp.file = u.rep
      /\ u.pc \in {"parse", "save", "insert"} => imp.rep = [req |-> q, rep |-> u.rep, key |-> u.ent.key]
      /\ u.pc \in {"save", "insert"} => imp.oai = u.got
      /\ u.pc = "insert" =>
           /\ u.i <= Len(u.got.recs)
           /\ u.new = <<u.got.recs[u.i].id,
                        [owner |-> u.rep, key |-> u.ent.key, ver |-> u.got.recs[u.i].ver]>>
           /\ docs[u.new[1]] = {}
      /\ u.pc = "end" => u.temp = u.got.date

\* ... its entity is the row, or will be once it is flushed, and what it has
\* saved is there.
OwnRow(q) ==
  LET u == req[q]
  IN  /\ u.ent.key = row[u.rep].key /\ u.ent.form = row[u.rep].form
      /\ IF u.pc = "wipe"
         THEN \/ u.ent = row[u.rep] /\ ~u.dirty
              \/ u.dirty /\ ~u.ent.ultima /\ u.ent.dataXml = NoDate
         ELSE u.ent = row[u.rep] /\ ~u.dirty
      /\ u.pc \in {"save", "insert"} => u.i <= Len(u.got.recs) + 1 /\ StoredUpTo(u, u.i - 1)
      /\ u.pc = "end" => StoredUpTo(u, Len(u.got.recs))

QInv ==
  /\ \A q \in Requests :
       /\ req[q].alone => req[q].pc # "idle"
       /\ Quiet(q) => Undisturbed(q) /\ OwnThings(q)
       /\ Sound(q) => OwnRow(q)
  /\ solid # {} /\ edit # NoEdit =>
       /\ Running = {}
       /\ row[edit.rep].key = edit.old.key => row[edit.rep] = edit.old

\* A repository that was put right has all its documents, and only it has.
SInv ==
  \A r \in solid : \A id \in Owned(r) :
    /\ \A d \in docs[id] : d.owner = r
    /\ prov[id].stamp < row[r].dataXml => Stored(id)

IInv == TInv /\ KInv /\ DInv /\ GInv /\ QInv /\ SInv

-----------------------------------------------------------------------------
(* Types *)

\* What Goes does to the requests.
LEMMA GoesTo ==
  ASSUME req \in [Requests -> Update], NEW q \in Requests, NEW u, Goes(q, u)
  PROVE  /\ u \in Update => req' \in [Requests -> Update]
         /\ req'[q] = u
         /\ \A p \in Requests : p # q => req'[p] = req[p]
BY DEF Goes

LEMMA IdleType == Idle \in Update
<1>1. NoFile \in File
  BY EmptySeq DEF NoFile, File
<1>2. NoRow \in Row
  BY DEF NoRow, NewRow, Row
<1> QED BY <1>1, <1>2 DEF Idle, Update, Steps

\* What a provider answers: the records it lists that changed since then.
LEMMA ResponseIs ==
  ASSUME prov \in [Ids -> Rec], now \in Nat, NEW r \in Repos, NEW from \in Nat
  PROVE  LET f == Response(r, from)
         IN  /\ f \in File /\ f.date = now
             /\ \A i \in 1..Len(f.recs) :
                  LET x == f.recs[i]
                  IN  /\ x.id \in Owned(r) /\ prov[x.id].stamp >= from
                      /\ x.ver = prov[x.id].ver
             /\ \A i, j \in 1..Len(f.recs) : f.recs[i].id = f.recs[j].id => i = j
             /\ \A id \in Owned(r) : prov[id].stamp >= from =>
                  \E i \in 1..Len(f.recs) : f.recs[i].id = id
<1> DEFINE S == {id \in Ids : prov[id].stamp >= from}
           l == Sift(Lists[r], S)
           f == Response(r, from)
<1>1. Lists[r] \in Seq(Ids)
  BY ListsAssumption
<1>2. l \in Seq(Ids \cap S)
  BY <1>1, SiftType
<1>3. Elements(l) = Elements(Lists[r]) \cap S
  BY <1>1, SiftElements
<1>4. \A i, j \in 1..Len(l) : l[i] = l[j] => i = j
  <2>1. \A i, j \in 1..Len(Lists[r]) : Lists[r][i] = Lists[r][j] => i = j
    BY <1>1, ListsAssumption
  <2> QED BY <1>1, <2>1, SiftDistinct
<1>5. Elements(Lists[r]) = Owned(r)
  BY <1>1 DEF Elements, Owned
<1>6. f = [date |-> now, recs |-> [i \in DOMAIN l |-> [id |-> l[i], ver |-> prov[l[i]].ver]]]
  BY DEF Response
<1> HIDE DEF l, f
<1>7. DOMAIN l = 1..Len(l) /\ Len(l) \in Nat /\ \A i \in 1..Len(l) : l[i] \in Ids \cap S
  BY <1>2
<1>8. f.date = now /\ f.recs = [i \in 1..Len(l) |-> [id |-> l[i], ver |-> prov[l[i]].ver]]
  BY <1>6, <1>7
<1>9. f.recs \in Seq([id : Ids, ver : Nat]) /\ Len(f.recs) = Len(l)
  <2>1. \A i \in 1..Len(l) : prov[l[i]].ver \in Nat
    BY <1>7 DEF Rec
  <2>2. f.recs \in [1..Len(l) -> [id : Ids, ver : Nat]]
    BY <1>7, <1>8, <2>1
  <2>3. f.recs \in Seq([id : Ids, ver : Nat])
    BY ZenonT(40), <1>7, <2>2, SeqDef
  <2>4. DOMAIN f.recs = 1..Len(l) /\ DOMAIN f.recs = 1..Len(f.recs) /\ Len(f.recs) \in Nat
    BY <2>2, <2>3, LenProperties
  <2> QED BY <1>7, <2>3, <2>4
<1>10. f \in File
  BY <1>6, <1>8, <1>9 DEF File
<1>11. \A i \in 1..Len(f.recs) : f.recs[i].id = l[i] /\ f.recs[i].ver = prov[l[i]].ver
  BY <1>8, <1>9
<1>12. \A i \in 1..Len(l) : l[i] \in Owned(r) /\ l[i] \in S
  BY <1>3, <1>5, <1>7 DEF Elements
<1>13. \A id \in Owned(r) : id \in S => \E i \in 1..Len(l) : l[i] = id
  BY <1>3, <1>5 DEF Elements
<1>14. \A id \in Owned(r) : id \in Ids
  BY <1>1 DEF Owned
<1> QED BY <1>4, <1>8, <1>9, <1>10, <1>11, <1>12, <1>13, <1>14 DEF f

LEMMA OwnedIds ==
  ASSUME NEW r \in Repos
  PROVE  \A id \in Owned(r) : id \in Ids
<1>1. Lists[r] \in Seq(Ids)
  BY ListsAssumption
<1> QED BY <1>1 DEF Owned

LEMMA TInvInit == Init => TInv
<1> SUFFICES ASSUME Init PROVE TInv
  OBVIOUS
<1>1. NoFile \in File
  BY EmptySeq DEF NoFile, File
<1>2. Idle.pc = "idle" /\ Idle.i = 1
  BY DEF Idle
<1>3. \A id \in Ids : IsFiniteSet(docs[id])
  BY FS_EmptySet DEF Init
<1>4. TypeOK
  BY <1>1, IdleType DEF Init, TypeOK, Rec, Row, NewRow, NoRow, NoEdit, NoImport
<1> QED BY <1>2, <1>3, <1>4 DEF Init, TInv, Equipped

LEMMA LoneNoMore ==
  ASSUME NEW u \in Update
  PROVE  LET v == [u EXCEPT !.alone = FALSE]
         IN  v \in Update /\ v.pc = u.pc /\ v.i = u.i /\ v.rep = u.rep /\ v.new = u.new
BY DEF Update

\* The key of a new document is not one that is in use.
LEMMA FreeKey ==
  ASSUME TInv, NEW id \in Ids
  PROVE  LET key == CHOOSE k \in 1..(Cardinality(docs[id]) + 1) : \A d \in docs[id] : d.key # k
         IN  key \in Nat /\ \A d \in docs[id] : d.key # key
<1> DEFINE S == docs[id]
           K == {d.key : d \in S}
           N == 1..(Cardinality(S) + 1)
<1>1. IsFiniteSet(S) /\ Cardinality(S) \in Nat
  BY FS_CardinalityType DEF TInv
<1> DEFINE f == [d \in S |-> d.key]
<1>2. IsFiniteSet(K) /\ Cardinality(K) <= Cardinality(S)
  <2>1. f \in Surjection(S, K)
    BY DEF Surjection
  <2> QED BY <1>1, <2>1, FS_Surjection
<1>3. Cardinality(N) = Cardinality(S) + 1
  BY <1>1, FS_Interval
<1>4. ~(N \subseteq K)
  <2> SUFFICES ASSUME N \subseteq K PROVE FALSE
    OBVIOUS
  <2>1. Cardinality(N) <= Cardinality(K) /\ Cardinality(K) \in Nat
    BY <1>2, FS_Subset, FS_CardinalityType
  <2> QED BY <1>1, <1>2, <1>3, <2>1
<1>5. PICK k \in N : \A d \in S : d.key # k
  BY <1>4
<1> QED BY <1>1, <1>5

LEMMA TInvEnvironment ==
  ASSUME TInv,
         \/ Tick \/ EditSave \/ Crash
         \/ \E id \in Ids : Change(id)
         \/ \E r \in Repos : EditRead(r) \/ Delete(r) \/ Register(r)
  PROVE  TInv'
<1> USE DEF TInv, Equipped
<1>1. CASE Tick
  BY <1>1 DEF Tick, TypeOK, store
<1>2. CASE EditSave
  <2>1. edit.rep \in Repos /\ edit.old \in Row
    BY <1>2 DEF EditSave, TypeOK
  <2>2. [edit.old EXCEPT !.form = @ + 1] \in Row
    BY <2>1 DEF Row
  <2>3. NoEdit \in [rep : Repos \cup {NoRepo}, old : Row]
    BY DEF NoEdit, NoRow, NewRow, Row
  <2>4. row' \in [Repos -> Row]
    BY <1>2, <2>1, <2>2 DEF EditSave, TypeOK
  <2> QED BY <1>2, <2>3, <2>4 DEF EditSave, TypeOK, bounds
<1>3. CASE Crash
  <2>1. NoFile \in File /\ Idle.pc = "idle" /\ Idle.i = 1
    BY EmptySeq DEF NoFile, File, Idle
  <2>2. NoEdit \in [rep : Repos \cup {NoRepo}, old : Row]
    BY DEF NoEdit, NoRow, NewRow, Row
  <2> QED BY <1>3, <2>1, <2>2, IdleType DEF Crash, TypeOK, NoImport
<1>4. ASSUME NEW id \in Ids, Change(id) PROVE TInv'
  <2>1. prov' \in [Ids -> Rec]
    BY <1>4 DEF Change, TypeOK, Rec
  <2> QED BY <1>4, <2>1 DEF Change, TypeOK, store
<1>5. ASSUME NEW r \in Repos, EditRead(r) PROVE TInv'
  <2>1. req' \in [Requests -> Update] /\ \A q \in Requests :
          /\ req'[q].pc = req[q].pc /\ req'[q].i = req[q].i
          /\ req'[q].rep = req[q].rep /\ req'[q].new = req[q].new
    <3>1. req' = [q \in Requests |-> [req[q] EXCEPT !.alone = FALSE]]
      BY <1>5 DEF EditRead
    <3> QED BY <3>1, LoneNoMore DEF TypeOK
  <2>2. edit' \in [rep : Repos \cup {NoRepo}, old : Row] /\ edit'.rep \in Repos
    BY <1>5 DEF EditRead, TypeOK
  <2>3. solid' \in SUBSET Repos /\ events' \in Nat
    BY <1>5 DEF EditRead, TypeOK
  <2> QED BY <1>5, <2>1, <2>2, <2>3 DEF EditRead, TypeOK, store
<1>6. ASSUME NEW r \in Repos, Delete(r) PROVE TInv'
  <2>1. req' \in [Requests -> Update] /\ \A q \in Requests :
          /\ req'[q].pc = req[q].pc /\ req'[q].i = req[q].i
          /\ req'[q].rep = req[q].rep /\ req'[q].new = req[q].new
    <3>1. req' = [q \in Requests |-> [req[q] EXCEPT !.alone = FALSE]]
      BY <1>6 DEF Delete
    <3> QED BY <3>1, LoneNoMore DEF TypeOK
  <2>2. docs' \in [Ids -> SUBSET Doc]
    BY <1>6 DEF Delete, TypeOK
  <2>3. \A id \in Ids : IsFiniteSet(docs'[id])
    <3> SUFFICES ASSUME NEW id \in Ids PROVE IsFiniteSet(docs'[id])
      OBVIOUS
    <3>1. docs'[id] \subseteq docs[id]
      BY <1>6 DEF Delete
    <3> QED BY <3>1, FS_Subset
  <2>4. row' \in [Repos -> Row]
    BY <1>6 DEF Delete, TypeOK, NoRow, NewRow, Row
  <2>5. solid' \in SUBSET Repos /\ events' \in Nat
    BY <1>6 DEF Delete, TypeOK
  <2> QED BY <1>6, <2>1, <2>2, <2>3, <2>4, <2>5 DEF Delete, TypeOK
<1>7. ASSUME NEW r \in Repos, Register(r) PROVE TInv'
  <2>1. keys' \in [Repos -> Nat]
    BY <1>7 DEF Register, TypeOK
  <2>2. row' \in [Repos -> Row]
    BY <1>7, <2>1 DEF Register, TypeOK, NewRow, Row
  <2> QED BY <1>7, <2>1, <2>2 DEF Register, TypeOK
<1> QED BY <1>1, <1>2, <1>3, <1>4, <1>5, <1>6, <1>7

ImpType == [file : Repos \cup {NoRepo}, oai : File,
            rep : [req : Requests \cup {NoRequest}, rep : Repos \cup {NoRepo}, key : Nat]]

\* What is left to show of a step of a request.
LEMMA TInvFrame ==
  ASSUME TInv, NEW q \in Requests,
         UNCHANGED <<now, prov, keys, changes, overlaps, edit>>,
         events' \in Nat,
         docs' \in [Ids -> SUBSET Doc], \A id \in Ids : IsFiniteSet(docs'[id]),
         row' \in [Repos -> Row], disk' \in [Repos -> File], solid' \in SUBSET Repos,
         imp' \in ImpType,
         imp.file \in Repos => imp'.file \in Repos,
         imp.rep.rep \in Repos => imp'.rep.rep \in Repos,
         req' \in [Requests -> Update],
         \A p \in Requests : p # q => req'[p] = req[p],
         Equipped(q)'
  PROVE  TInv'
<1>1. TypeOK'
  BY DEF TInv, TypeOK, ImpType
<1>2. \A p \in Requests : Equipped(p)'
  <2> SUFFICES ASSUME NEW p \in Requests, p # q PROVE Equipped(p)'
    OBVIOUS
  <2> QED BY DEF TInv, Equipped
<1> QED BY <1>1, <1>2 DEF TInv

LEMMA TInvBegin ==
  ASSUME TInv, NEW q \in Requests, NEW r \in Repos, NEW apagar \in BOOLEAN, Begin(q, r, apagar)
  PROVE  TInv'
<1> USE DEF TInv, Equipped
<1> DEFINE alone == Running = {} /\ edit = NoEdit
           ent == IF apagar THEN [row[r] EXCEPT !.ultima = FALSE, !.dataXml = NoDate] ELSE row[r]
           new == [Idle EXCEPT !.pc = "wipe", !.rep = r, !.ent = ent, !.dirty = (ent # row[r]),
                               !.alone = alone]
<1>1. ent \in Row
  BY DEF TypeOK, Row
<1>2. new \in Update /\ new.pc = "wipe" /\ new.rep = r /\ new.i = 1
  <2> HIDE DEF ent, alone
  <2>1. (ent # row[r]) \in BOOLEAN /\ alone \in BOOLEAN
    BY DEF alone
  <2> QED BY ZenonT(40), <1>1, <2>1, IdleType DEF Update, Steps, Idle
<1>3. req' = [p \in Requests |-> IF p = q THEN new ELSE [req[p] EXCEPT !.alone = FALSE]]
  BY DEF Begin
<1> HIDE DEF new
<1>4. /\ req' \in [Requests -> Update] /\ req'[q] = new
      /\ \A p \in Requests : p # q =>
           /\ req'[p].pc = req[p].pc /\ req'[p].i = req[p].i
           /\ req'[p].rep = req[p].rep /\ req'[p].new = req[p].new
  BY <1>2, <1>3, LoneNoMore DEF TypeOK
<1>5. solid' \in SUBSET Repos /\ overlaps' \in Nat
  <2>1. solid' = solid \/ solid' = {}
    BY DEF Begin
  <2>2. overlaps' = overlaps \/ overlaps' = overlaps + 1
    BY DEF Begin
  <2> QED BY <2>1, <2>2 DEF TypeOK
<1>6. UNCHANGED <<now, prov, changes, events, store, edit>>
  BY DEF Begin
<1>7. TypeOK'
  BY <1>4, <1>5, <1>6 DEF TypeOK, store
<1>8. \A p \in Requests : Equipped(p)'
  BY <1>2, <1>4, <1>6 DEF store
<1> QED BY <1>6, <1>7, <1>8 DEF store

LEMMA TInvUpdate ==
  ASSUME TInv, NEW q \in Requests,
         \/ Wipe(q) \/ Empty(q) \/ Fetch(q) \/ Open(q) \/ SetRepositorio(q) \/ Parse(q)
         \/ Save(q) \/ Insert(q) \/ SetDataXmlTemp(q) \/ End(q) \/ EndGone(q) \/ UpdateFails(q)
  PROVE  TInv'
<1> DEFINE u == req[q]
<1>0. /\ req \in [Requests -> Update] /\ u \in Update /\ u.i \in Nat \ {0} /\ u.ent \in Row
      /\ u.pc # "idle" => u.rep \in Repos
      /\ u.pc \in {"rep", "parse"} => imp.file \in Repos
      /\ u.pc \in {"parse", "save", "insert"} => imp.rep.rep \in Repos
      /\ u.pc = "insert" => u.new # <<>>
      /\ imp \in ImpType /\ docs \in [Ids -> SUBSET Doc] /\ row \in [Repos -> Row]
      /\ disk \in [Repos -> File] /\ solid \in SUBSET Repos
      /\ now \in Nat /\ events \in Nat /\ prov \in [Ids -> Rec]
      /\ \A id \in Ids : IsFiniteSet(docs[id])
  BY DEF TInv, TypeOK, Equipped, Update, ImpType
<1>a. ASSUME NEW v \in Update, Goes(q, v) PROVE
      /\ req' \in [Requests -> Update] /\ req'[q] = v
      /\ \A p \in Requests : p # q => req'[p] = req[p]
  BY <1>0, <1>a, GoesTo
<1>b. Released(q) \in ImpType /\ Released(q).file = imp.file /\ Released(q).rep.rep = imp.rep.rep
  BY <1>0 DEF Released, ImpType
<1>c. Idle \in Update /\ Idle.pc = "idle" /\ Idle.i \in Nat \ {0}
  BY IdleType DEF Idle
\* A step with which the update ends.
<1>d. ASSUME Goes(q, Idle), imp' = Released(q),
             UNCHANGED <<now, prov, keys, changes, overlaps, edit, docs, disk>>,
             events' \in Nat, row' \in [Repos -> Row], solid' \in SUBSET Repos
      PROVE  TInv'
  <2>1. /\ req' \in [Requests -> Update] /\ req'[q] = Idle
        /\ \A p \in Requests : p # q => req'[p] = req[p]
    BY <1>a, <1>c, <1>d
  <2>2. Equipped(q)'
    BY <1>c, <2>1 DEF Equipped
  <2> QED BY <1>0, <1>b, <1>d, <2>1, <2>2, TInvFrame
\* A step that only moves on, and may change the files or the importer.
<1>e. ASSUME NEW v \in Update, Goes(q, v), v.pc # "idle", v.i \in Nat \ {0},
             u.pc # "idle", v.rep = u.rep,
             UNCHANGED <<now, prov, keys, changes, overlaps, edit, events, solid>>,
             docs' \in [Ids -> SUBSET Doc], \A id \in Ids : IsFiniteSet(docs'[id]),
             row' \in [Repos -> Row], disk' \in [Repos -> File],
             imp' \in ImpType,
             imp.file \in Repos => imp'.file \in Repos,
             imp.rep.rep \in Repos => imp'.rep.rep \in Repos,
             v.pc \in {"rep", "parse"} => imp'.file \in Repos,
             v.pc \in {"parse", "save", "insert"} => imp'.rep.rep \in Repos,
             v.pc = "insert" => v.new # <<>>
      PROVE  TInv'
  <2>1. /\ req' \in [Requests -> Update] /\ req'[q] = v
        /\ \A p \in Requests : p # q => req'[p] = req[p]
    BY <1>a, <1>e
  <2>2. Equipped(q)'
    BY <1>0, <1>e, <2>1 DEF Equipped
  <2> QED BY <1>0, <1>e, <2>1, <2>2, TInvFrame
<1>1. CASE Wipe(q)
  <2> DEFINE v == [u EXCEPT !.pc = "empty", !.dirty = FALSE, !.full = TRUE]
             w == [u EXCEPT !.pc = "empty"]
  <2>1. /\ v \in Update /\ v.pc = "empty" /\ v.i = u.i /\ v.rep = u.rep
        /\ w \in Update /\ w.pc = "empty" /\ w.i = u.i /\ w.rep = u.rep
    BY <1>0 DEF Update, Steps
  <2>2. /\ u.pc = "wipe" /\ (Goes(q, v) \/ Goes(q, w))
        /\ UNCHANGED <<now, prov, keys, changes, overlaps, edit, events, solid, disk, imp>>
    BY <1>1 DEF Wipe, bounds
  <2>3. u.pc = "wipe"
    BY <1>1 DEF Wipe
  <2> HIDE DEF v, w
  <2>5. docs' \in [Ids -> SUBSET Doc] /\ \A id \in Ids : docs'[id] \subseteq docs[id]
    BY <1>0, <1>1 DEF Wipe
  <2>6. \A id \in Ids : IsFiniteSet(docs'[id])
    BY <1>0, <2>5, FS_Subset
  <2>7. row' \in [Repos -> Row]
    BY <1>0, <1>1, <2>3 DEF Wipe
  <2>8. CASE Goes(q, v)
    BY <1>0, <1>e, <2>1, <2>2, <2>3, <2>5, <2>6, <2>7, <2>8
  <2>9. CASE Goes(q, w)
    BY <1>0, <1>e, <2>1, <2>2, <2>3, <2>5, <2>6, <2>7, <2>9
  <2> QED BY <2>2, <2>8, <2>9
<1>2. CASE Empty(q)
  <2> DEFINE v == [u EXCEPT !.pc = "fetch"]
  <2>1. v \in Update /\ v.pc = "fetch" /\ v.i = u.i /\ v.rep = u.rep
    BY <1>0 DEF Update, Steps
  <2>2. /\ Goes(q, v) /\ u.pc = "empty"
        /\ UNCHANGED <<now, prov, keys, changes, overlaps, edit, events, solid, docs, row, imp>>
    BY <1>2 DEF Empty, bounds
  <2> HIDE DEF v
  <2>3. disk' \in [Repos -> File]
    BY <1>2, EmptySeq DEF Empty, NoFile, File
  <2> QED BY <1>0, <1>e, <2>1, <2>2, <2>3
<1>3. CASE Fetch(q)
  <2> DEFINE answer == Response(u.rep, u.ent.dataXml)
             v == [u EXCEPT !.pc = "open", !.got = answer]
  <2>0. /\ u.pc = "fetch" /\ u.rep \in Repos /\ disk' = [disk EXCEPT ![u.rep] = answer]
        /\ UNCHANGED <<now, prov, keys, changes, overlaps, edit, events, solid, docs, row, imp>>
    BY <1>0, <1>3 DEF Fetch, bounds
  <2>1. answer \in File
    BY <1>0, <2>0, ResponseIs DEF Row
  <2>2. Goes(q, v)
    BY <1>3 DEF Fetch
  <2> HIDE DEF answer
  <2>3. v \in Update /\ v.pc = "open" /\ v.i = u.i /\ v.rep = u.rep
    BY <1>0, <2>1 DEF Update, Steps
  <2>4. disk' \in [Repos -> File]
    BY <1>0, <2>0, <2>1
  <2> HIDE DEF v
  <2> QED BY <1>0, <1>e, <2>0, <2>2, <2>3, <2>4
<1>4. CASE Open(q)
  <2> DEFINE v == [u EXCEPT !.pc = "end"]
             w == [u EXCEPT !.pc = "rep"]
  <2>1. /\ v \in Update /\ v.pc = "end" /\ v.i = u.i /\ v.rep = u.rep
        /\ w \in Update /\ w.pc = "rep" /\ w.i = u.i /\ w.rep = u.rep
    BY <1>0 DEF Update, Steps
  <2>2. /\ u.pc = "open"
        /\ \/ Goes(q, v) /\ imp' = imp
           \/ Goes(q, w) /\ imp' = [imp EXCEPT !.file = u.rep]
        /\ UNCHANGED <<now, prov, keys, changes, overlaps, edit, events, solid, docs, row, disk>>
    BY <1>4 DEF Open, bounds
  <2> HIDE DEF v, w
  <2>3. CASE Goes(q, v) /\ imp' = imp
    BY <1>0, <1>e, <2>1, <2>2, <2>3
  <2>4. CASE Goes(q, w) /\ imp' = [imp EXCEPT !.file = u.rep]
    <3>1. imp' \in ImpType /\ imp'.rep = imp.rep /\ imp'.file = u.rep /\ u.rep \in Repos
      BY <1>0, <2>2, <2>4 DEF ImpType
    <3> QED BY <1>0, <1>e, <2>1, <2>2, <2>4, <3>1
  <2> QED BY <2>2, <2>3, <2>4
<1>5. CASE SetRepositorio(q)
  <2> DEFINE v == [u EXCEPT !.pc = "parse"]
  <2>1. v \in Update /\ v.pc = "parse" /\ v.i = u.i /\ v.rep = u.rep
    BY <1>0 DEF Update, Steps
  <2>2. /\ Goes(q, v) /\ u.pc = "rep"
        /\ imp' = [imp EXCEPT !.rep = [req |-> q, rep |-> u.rep, key |-> u.ent.key]]
        /\ UNCHANGED <<now, prov, keys, changes, overlaps, edit, events, solid, docs, row, disk>>
    BY <1>5 DEF SetRepositorio, bounds
  <2> HIDE DEF v
  <2>3. imp' \in ImpType /\ imp'.file = imp.file /\ imp'.rep.rep = u.rep
    BY <1>0, <2>2 DEF ImpType, Row
  <2> QED BY <1>0, <1>e, <2>1, <2>2, <2>3
<1>6. CASE Parse(q)
  <2>0. /\ u.pc = "parse"
        /\ UNCHANGED <<now, prov, keys, changes, overlaps, edit, events, solid, docs, row, disk>>
    BY <1>6 DEF Parse, bounds
  <2>1. CASE Goes(q, Idle) /\ imp' = Released(q)
    BY <1>0, <1>d, <2>0, <2>1
  <2>2. CASE Goes(q, [u EXCEPT !.pc = "save"]) /\ imp' = [imp EXCEPT !.oai = disk[imp.file]]
    <3> DEFINE v == [u EXCEPT !.pc = "save"]
    <3>1. v \in Update /\ v.pc = "save" /\ v.i = u.i /\ v.rep = u.rep /\ Goes(q, v)
      BY ZenonT(40), <1>0, <2>2 DEF Update, Steps
    <3>2. imp' \in ImpType /\ imp'.file = imp.file /\ imp'.rep = imp.rep
      BY <1>0, <2>0, <2>2 DEF ImpType
    <3> HIDE DEF v
    <3> QED BY <1>0, <1>e, <2>0, <3>1, <3>2
  <2> QED BY <1>6, <2>1, <2>2 DEF Parse
<1>7. CASE Save(q)
  <2> DEFINE x == imp.oai.recs[u.i]
             found == docs[x.id]
  <2>0. /\ u.pc = "save" /\ u.i <= Len(imp.oai.recs)
        /\ UNCHANGED <<now, prov, keys, changes, overlaps, edit, events, solid, row, disk>>
    BY Zenon, <1>7 DEF Save, bounds
  <2>1. x \in [id : Ids, ver : Nat]
    <3>1. imp.oai.recs \in Seq([id : Ids, ver : Nat])
      BY <1>0 DEF ImpType, File
    <3>2. u.i \in 1..Len(imp.oai.recs)
      BY <1>0, <2>0, <3>1, LenProperties
    <3> QED BY <3>1, <3>2, ElementOfSeq
  <2>2. CASE /\ Goes(q, [u EXCEPT !.pc = "insert",
                       !.new = <<x.id, [owner |-> imp.rep.rep, key |-> imp.rep.key, ver |-> x.ver]>>])
             /\ UNCHANGED <<docs, imp>>
    <3> DEFINE n == <<x.id, [owner |-> imp.rep.rep, key |-> imp.rep.key, ver |-> x.ver]>>
               v == [u EXCEPT !.pc = "insert", !.new = n]
    <3>1. n \in Ids \X [owner : Repos, key : Nat, ver : Nat] /\ n # <<>> /\ Goes(q, v)
      BY <1>0, <2>0, <2>1, <2>2 DEF ImpType
    <3> HIDE DEF n
    <3>2. v \in Update /\ v.pc = "insert" /\ v.i = u.i /\ v.rep = u.rep /\ v.new = n
      BY ZenonT(40), <1>0, <3>1 DEF Update, Steps
    <3> HIDE DEF v
    <3> QED BY <1>0, <1>e, <2>0, <2>2, <3>1, <3>2
  <2>3. CASE /\ Cardinality(found) = 1
             /\ docs' = [docs EXCEPT ![x.id] = {[d EXCEPT !.ver = x.ver] : d \in found}]
             /\ Goes(q, [u EXCEPT !.i = @ + 1])
             /\ UNCHANGED imp
    <3> DEFINE v == [u EXCEPT !.i = @ + 1]
    <3>1. v \in Update /\ v.pc = u.pc /\ v.i \in Nat \ {0} /\ v.rep = u.rep /\ Goes(q, v)
      <4>1. u.i + 1 \in Nat \ {0}
        BY <1>0
      <4> DEFINE w == [u EXCEPT !.i = u.i + 1]
      <4>2. w \in Update /\ w.pc = u.pc /\ w.i = u.i + 1 /\ w.rep = u.rep
        <5> HIDE DEF u
        <5> QED BY Zenon, <1>0, <4>1 DEF Update
      <4>3. v = w
        OBVIOUS
      <4> QED BY Zenon, <2>3, <4>1, <4>2, <4>3
    <3> HIDE DEF v
    <3>2. PICK d : found = {d}
      <4>1. IsFiniteSet(found)
        BY <1>0, <2>1
      <4> QED BY Zenon, <2>3, <4>1, FS_Singleton
    <3> DEFINE e == [d EXCEPT !.ver = x.ver]
    <3>3. d \in Doc
      BY <1>0, <2>1, <3>2
    <3>4. e \in Doc
      BY <2>1, <3>3 DEF Doc
    <3>5. docs' = [docs EXCEPT ![x.id] = {e}]
      BY Zenon, <2>3, <3>2
    <3> HIDE DEF e
    <3>6. docs' \in [Ids -> SUBSET Doc]
      BY <1>0, <2>1, <3>4, <3>5
    <3>7. \A id \in Ids : IsFiniteSet(docs'[id])
      BY ZenonT(40), <1>0, <2>1, <3>5, FS_Singleton
    <3> QED BY Zenon, <1>0, <1>e, <2>0, <2>3, <3>1, <3>6, <3>7
  <2>4. CASE /\ Goes(q, Idle)
             /\ imp' = Released(q)
             /\ UNCHANGED docs
    BY <1>0, <1>d, <2>0, <2>4
  <2> QED BY Zenon, <1>7, <2>2, <2>3, <2>4 DEF Save
<1>8. CASE Insert(q)
  <2> DEFINE id == u.new[1]
             key == CHOOSE k \in 1..(Cardinality(docs[id]) + 1) : \A d \in docs[id] : d.key # k
             doc == [key |-> key, owner |-> u.new[2].owner, ver |-> u.new[2].ver]
  <2>0. /\ u.pc = "insert"
        /\ UNCHANGED <<now, prov, keys, changes, overlaps, edit, events, solid, row, disk>>
    BY Zenon, <1>8 DEF Insert, bounds
  <2>1. u.new \in Ids \X [owner : Repos, key : Nat, ver : Nat]
    BY <1>0, <2>0 DEF Update
  <2>2. CASE /\ docs' = [docs EXCEPT ![id] = @ \cup {doc}]
             /\ Goes(q, [u EXCEPT !.pc = "save", !.i = @ + 1, !.new = <<>>])
             /\ UNCHANGED imp
    <3> DEFINE v == [u EXCEPT !.pc = "save", !.i = @ + 1, !.new = <<>>]
    <3>1. v \in Update /\ v.pc = "save" /\ v.i \in Nat \ {0} /\ v.rep = u.rep /\ Goes(q, v)
      <4>1. u.i + 1 \in Nat \ {0}
        BY <1>0
      <4> DEFINE w == [u EXCEPT !.pc = "save", !.i = u.i + 1, !.new = <<>>]
      <4>2. w \in Update /\ w.pc = "save" /\ w.i = u.i + 1 /\ w.rep = u.rep
        <5> HIDE DEF u
        <5>1. <<>> \in {<<>>} \cup (Ids \X [owner : Repos, key : Nat, ver : Nat])
          OBVIOUS
        <5> QED BY <1>0, <4>1, <5>1 DEF Update, Steps
      <4>3. v = w
        OBVIOUS
      <4> QED BY <2>2, <4>1, <4>2, <4>3
    <3> HIDE DEF v
    <3>2. id \in Ids /\ key \in Nat
      BY <2>1, FreeKey
    <3> HIDE DEF key
    <3>3. doc \in Doc
      BY <2>1, <3>2 DEF Doc
    <3> HIDE DEF doc, id
    <3>4. docs' \in [Ids -> SUBSET Doc]
      BY <1>0, <2>2, <3>2, <3>3
    <3>5. \A i \in Ids : IsFiniteSet(docs'[i])
      BY <1>0, <2>2, <3>2, FS_AddElement
    <3> QED BY <1>0, <1>e, <2>0, <2>2, <3>1, <3>4, <3>5
  <2>3. CASE /\ Goes(q, Idle)
             /\ imp' = Released(q)
             /\ UNCHANGED docs
    BY <1>0, <1>d, <2>0, <2>3
  <2> QED BY Zenon, <1>8, <2>2, <2>3 DEF Insert
<1>9. CASE SetDataXmlTemp(q)
  <2> DEFINE Moved(p) ==
        LET v == IF p = imp.rep.req THEN [req[p] EXCEPT !.temp = imp.oai.date] ELSE req[p]
        IN  IF p = q THEN [v EXCEPT !.pc = "end"] ELSE v
  <2>1. req' = [p \in Requests |-> Moved(p)] /\ u.pc = "save"
    BY <1>9 DEF SetDataXmlTemp
  <2>2. imp.oai.date \in Nat
    BY <1>0 DEF ImpType, File
  <2>3. ASSUME NEW p \in Requests
        PROVE  /\ Moved(p) \in Update /\ Moved(p).i = req[p].i /\ Moved(p).rep = req[p].rep
               /\ Moved(p).new = req[p].new /\ Moved(p).pc = IF p = q THEN "end" ELSE req[p].pc
    <3>1. req[p] \in Update
      BY <1>0
    <3>2. [req[p] EXCEPT !.temp = imp.oai.date] \in Update
      BY <2>2, <3>1 DEF Update
    <3> QED BY <2>2, <3>1, <3>2 DEF Update, Steps
  <2> HIDE DEF Moved
  <2>4. /\ req' \in [Requests -> Update]
        /\ \A p \in Requests :
             /\ req'[p].i = req[p].i /\ req'[p].rep = req[p].rep /\ req'[p].new = req[p].new
             /\ req'[p].pc = IF p = q THEN "end" ELSE req[p].pc
    BY <2>1, <2>3
  <2>5. UNCHANGED <<bounds, store, edit, solid>>
    BY <1>9 DEF SetDataXmlTemp
  <2>6. \A p \in Requests : Equipped(p)'
    BY <2>1, <2>4, <2>5 DEF TInv, Equipped, store
  <2> QED BY <2>4, <2>5, <2>6 DEF TInv, TypeOK, bounds, store
<1>10. CASE End(q)
  <2>0. /\ u.pc = "end" /\ Goes(q, Idle) /\ imp' = Released(q)
        /\ UNCHANGED <<now, prov, keys, changes, overlaps, edit, events, docs, disk>>
    BY <1>10 DEF End, bounds
  <2>1. [u.ent EXCEPT !.ultima = TRUE, !.dataXml = IF u.temp # NoDate THEN u.temp ELSE @] \in Row
    BY <1>0 DEF Update, Row
  <2>2. row' \in [Repos -> Row]
    BY <1>0, <1>10, <2>0, <2>1 DEF End
  <2>3. solid' \in SUBSET Repos
    BY <1>0, <1>10, <2>0 DEF End
  <2> QED BY <1>0, <1>d, <2>0, <2>2, <2>3
<1>11. CASE EndGone(q)
  BY <1>0, <1>d, <1>11 DEF EndGone, bounds
<1>12. CASE UpdateFails(q)
  BY <1>0, <1>d, <1>12 DEF UpdateFails
<1> QED BY <1>1, <1>2, <1>3, <1>4, <1>5, <1>6, <1>7, <1>8, <1>9, <1>10, <1>11, <1>12

LEMMA TInvStep == TInv /\ [Next]_vars => TInv'
<1> SUFFICES ASSUME TInv, [Next]_vars PROVE TInv'
  OBVIOUS
<1>1. CASE \E q \in Requests : \E r \in Repos, apagar \in BOOLEAN : Begin(q, r, apagar)
  BY <1>1, TInvBegin
<1>2. CASE UNCHANGED vars
  BY <1>2 DEF TInv, TypeOK, Equipped, vars
<1> QED BY <1>1, <1>2, TInvEnvironment, TInvUpdate DEF Next

\* Overlap's type invariant: the tables, the files, the importer and the requests
\* keep their types, however requests overlap (Repositorios.atualizaRepositorio).
THEOREM OverlapTypeCorrect == Spec => []TypeOK
<1>1. Spec => []TInv
  BY TInvInit, TInvStep, PTL DEF Spec
<1>2. TInv => TypeOK
  BY DEF TInv
<1> QED BY <1>1, <1>2, PTL

\* What the proofs of the other parts need of the types.
LEMMA Typed ==
  ASSUME TInv
  PROVE  /\ req \in [Requests -> Update] /\ row \in [Repos -> Row] /\ docs \in [Ids -> SUBSET Doc]
         /\ keys \in [Repos -> Nat] /\ disk \in [Repos -> File] /\ prov \in [Ids -> Rec] /\ now \in Nat
         /\ imp \in ImpType /\ imp.oai \in File /\ imp.rep.key \in Nat
         /\ edit.old \in Row /\ edit \in [rep : Repos \cup {NoRepo}, old : Row]
         /\ edit # NoEdit => edit.rep \in Repos
         /\ solid \subseteq Repos
BY DEF TInv, TypeOK, ImpType

LEMMA TypedRequest ==
  ASSUME TInv, NEW q \in Requests
  PROVE  /\ req[q] \in Update /\ req[q].ent \in Row /\ req[q].got \in File
         /\ req[q].temp \in Nat /\ req[q].i \in Nat \ {0} /\ req[q].alone \in BOOLEAN
         /\ req[q].dirty \in BOOLEAN /\ req[q].full \in BOOLEAN
         /\ req[q].pc # "idle" => req[q].rep \in Repos
         /\ req[q].pc = "insert" => req[q].new \in Ids \X [owner : Repos, key : Nat, ver : Nat]
BY DEF TInv, TypeOK, Equipped, Update

-----------------------------------------------------------------------------
(* What the steps of a request change *)

\* The entity and the flags of an update that begins.
LEMMA BeginEffect ==
  ASSUME TInv, NEW q \in Requests, NEW r \in Repos, NEW apagar \in BOOLEAN, Begin(q, r, apagar)
  PROVE  LET v == req'[q]
         IN  /\ v.pc = "wipe" /\ v.rep = r /\ v.full = FALSE /\ v.temp = NoDate /\ v.got = NoFile
             /\ v.i = 1 /\ v.alone = (Running = {} /\ edit = NoEdit)
             /\ v.ent.key = row[r].key /\ v.ent.form = row[r].form
             /\ \/ v.ent = row[r] /\ v.dirty = FALSE
                \/ v.ent.ultima = FALSE /\ v.ent.dataXml = NoDate /\ v.dirty = TRUE
<1> DEFINE alone == Running = {} /\ edit = NoEdit
           ent == IF apagar THEN [row[r] EXCEPT !.ultima = FALSE, !.dataXml = NoDate] ELSE row[r]
           new == [Idle EXCEPT !.pc = "wipe", !.rep = r, !.ent = ent, !.dirty = (ent # row[r]),
                               !.alone = alone]
<1>1. req'[q] = new
  BY DEF Begin
<1>2. /\ ent.key = row[r].key /\ ent.form = row[r].form
      /\ ent = row[r] \/ (ent.ultima = FALSE /\ ent.dataXml = NoDate)
  BY Typed DEF Row
<1> HIDE DEF ent, alone
<1>3. /\ new.pc = "wipe" /\ new.rep = r /\ new.full = FALSE /\ new.temp = NoDate
      /\ new.got = NoFile /\ new.ent = ent /\ new.i = 1
  BY DEF Idle
<1>4. new.dirty = (ent # row[r])
  BY DEF Idle
<1>5. new.alone = alone
  BY DEF Idle
<1> HIDE DEF new
<1>6. \/ ent = row[r] /\ new.dirty = FALSE
      \/ ent.ultima = FALSE /\ ent.dataXml = NoDate /\ new.dirty = TRUE
  BY <1>2, <1>4
<1> QED BY <1>1, <1>2, <1>3, <1>5, <1>6 DEF alone

\* What all the steps of an update but its wipe and its end leave alone.
Kin(v, u) ==
  /\ v.rep = u.rep /\ v.ent = u.ent /\ v.alone = u.alone
  /\ v.dirty = u.dirty /\ v.full = u.full
Others(q) == \A p \in Requests : p # q => req'[p] = req[p]

\* An update that only goes on to another step.
LEMMA OnlyMoves ==
  ASSUME TInv, NEW q \in Requests, NEW pc, Goes(q, [req[q] EXCEPT !.pc = pc])
  PROVE  LET u == req[q]
             v == req'[q]
         IN  /\ v.pc = pc /\ Others(q) /\ Kin(v, u)
             /\ v.got = u.got /\ v.temp = u.temp /\ v.i = u.i
<1> DEFINE u == req[q]
           v == [u EXCEPT !.pc = pc]
<1>0. u \in Update /\ req \in [Requests -> Update]
  BY Typed
<1>1. v.pc = pc /\ Kin(v, u) /\ v.got = u.got /\ v.temp = u.temp /\ v.i = u.i
  BY <1>0 DEF Update, Kin
<1> HIDE DEF v
<1>2. req'[q] = v /\ Others(q)
  BY <1>0, GoesTo DEF Others, v
<1> QED BY <1>1, <1>2

LEMMA WipeEffect ==
  ASSUME TInv, NEW q \in Requests, Wipe(q)
  PROVE  LET u == req[q]
             v == req'[q]
         IN  /\ u.pc = "wipe" /\ v.pc = "empty" /\ Others(q)
             /\ v.rep = u.rep /\ v.ent = u.ent /\ v.alone = u.alone /\ v.got = u.got
             /\ v.temp = u.temp /\ v.i = u.i
             /\ \/ /\ ~u.ent.ultima /\ u.ent.dataXml = NoDate /\ ~Gone(u)
                   /\ docs' = [id \in Ids |-> {d \in docs[id] : d.owner # u.rep}]
                   /\ row' = IF u.dirty THEN [row EXCEPT ![u.rep] = u.ent] ELSE row
                   /\ v.dirty = FALSE
                \/ /\ ~(~u.ent.ultima /\ u.ent.dataXml = NoDate /\ ~Gone(u))
                   /\ docs' = docs /\ row' = row /\ v.dirty = u.dirty /\ v.full = u.full
             /\ UNCHANGED <<bounds, disk, imp, edit, solid>>
<1> DEFINE u == req[q]
           wipes == ~u.ent.ultima /\ u.ent.dataXml = NoDate /\ ~Gone(u)
<1>0. u \in Update /\ req \in [Requests -> Update]
  BY Typed
<1>1. u.pc = "wipe" /\ UNCHANGED <<bounds, disk, imp, edit, solid>>
  BY DEF Wipe
<1>2. CASE wipes
  <2> DEFINE v == [u EXCEPT !.pc = "empty", !.dirty = FALSE, !.full = TRUE]
  <2>1. /\ Goes(q, v)
        /\ docs' = [id \in Ids |-> {d \in docs[id] : d.owner # u.rep}]
        /\ row' = IF u.dirty THEN [row EXCEPT ![u.rep] = u.ent] ELSE row
    BY <1>2 DEF Wipe
  <2>2. /\ v.pc = "empty" /\ v.rep = u.rep /\ v.ent = u.ent /\ v.alone = u.alone /\ v.got = u.got
        /\ v.temp = u.temp /\ v.i = u.i /\ v.dirty = FALSE
    BY <1>0 DEF Update
  <2> HIDE DEF v, u
  <2>3. req'[q] = v /\ Others(q)
    BY <1>0, <2>1, GoesTo DEF Others
  <2> QED BY <1>1, <1>2, <2>1, <2>2, <2>3 DEF u
<1>3. CASE ~wipes
  <2> DEFINE v == [u EXCEPT !.pc = "empty"]
  <2>1. Goes(q, v) /\ docs' = docs /\ row' = row
    BY <1>3 DEF Wipe
  <2>2. v.pc = "empty" /\ Kin(v, u) /\ v.got = u.got /\ v.temp = u.temp /\ v.i = u.i
    BY <1>0 DEF Update, Kin
  <2> HIDE DEF v, u
  <2>3. req'[q] = v /\ Others(q)
    BY <1>0, <2>1, GoesTo DEF Others
  <2> QED BY <1>1, <1>3, <2>1, <2>2, <2>3 DEF u, Kin
<1> QED BY <1>2, <1>3

LEMMA EmptyEffect ==
  ASSUME TInv, NEW q \in Requests, Empty(q)
  PROVE  LET u == req[q]
             v == req'[q]
         IN  /\ u.pc = "empty" /\ v.pc = "fetch" /\ Others(q) /\ Kin(v, u)
             /\ v.got = u.got /\ v.temp = u.temp /\ v.i = u.i
             /\ disk' = [r \in Repos |-> NoFile]
             /\ UNCHANGED <<bounds, docs, row, imp, edit, solid>>
<1> DEFINE u == req[q]
           v == [u EXCEPT !.pc = "fetch"]
<1>0. u \in Update /\ req \in [Requests -> Update]
  BY Typed
<1>1. Goes(q, v)
  BY DEF Empty
<1>2. v.pc = "fetch" /\ Kin(v, u) /\ v.got = u.got /\ v.temp = u.temp /\ v.i = u.i
  BY <1>0 DEF Update, Kin
<1> HIDE DEF v
<1>3. req'[q] = v /\ Others(q)
  BY <1>0, <1>1, GoesTo DEF Others
<1> QED BY <1>2, <1>3 DEF Empty

LEMMA FetchEffect ==
  ASSUME TInv, NEW q \in Requests, Fetch(q)
  PROVE  LET u == req[q]
             v == req'[q]
             answer == Response(u.rep, u.ent.dataXml)
         IN  /\ u.pc = "fetch" /\ v.pc = "open" /\ Others(q) /\ Kin(v, u)
             /\ v.got = answer /\ v.temp = u.temp /\ v.i = u.i
             /\ disk' = [disk EXCEPT ![u.rep] = answer]
             /\ UNCHANGED <<bounds, docs, row, imp, edit, solid>>
<1> DEFINE u == req[q]
           answer == Response(u.rep, u.ent.dataXml)
           v == [u EXCEPT !.pc = "open", !.got = answer]
<1>0. u \in Update /\ req \in [Requests -> Update]
  BY Typed
<1>1. Goes(q, v)
  BY DEF Fetch
<1>2. v.pc = "open" /\ Kin(v, u) /\ v.got = answer /\ v.temp = u.temp /\ v.i = u.i
  <2> HIDE DEF u, answer
  <2> QED BY <1>0 DEF Update, Kin
<1> HIDE DEF v
<1>3. req'[q] = v /\ Others(q)
  BY <1>0, <1>1, GoesTo DEF Others
<1> QED BY <1>2, <1>3 DEF Fetch

LEMMA OpenEffect ==
  ASSUME TInv, NEW q \in Requests, Open(q)
  PROVE  LET u == req[q]
             v == req'[q]
         IN  /\ u.pc = "open" /\ Others(q) /\ Kin(v, u)
             /\ v.got = u.got /\ v.temp = u.temp /\ v.i = u.i
             /\ imp'.rep = imp.rep /\ imp'.oai = imp.oai
             /\ \/ v.pc = "end" /\ disk[u.rep] = NoFile /\ imp'.file = imp.file
                \/ v.pc = "rep" /\ disk[u.rep] # NoFile /\ imp'.file = u.rep
             /\ UNCHANGED <<bounds, docs, row, disk, edit, solid>>
<1>0. req[q] \in Update /\ req \in [Requests -> Update] /\ imp \in ImpType
  BY Typed
<1>1. req[q].pc = "open" /\ UNCHANGED <<bounds, docs, row, disk, edit, solid>>
  BY DEF Open
<1>2. CASE disk[req[q].rep] = NoFile
  <2>1. Goes(q, [req[q] EXCEPT !.pc = "end"]) /\ imp' = imp
    BY <1>2 DEF Open
  <2> QED BY <1>1, <1>2, <2>1, OnlyMoves
<1>3. CASE disk[req[q].rep] # NoFile
  <2>1. Goes(q, [req[q] EXCEPT !.pc = "rep"]) /\ imp' = [imp EXCEPT !.file = req[q].rep]
    BY <1>3 DEF Open
  <2>2. imp'.rep = imp.rep /\ imp'.oai = imp.oai /\ imp'.file = req[q].rep
    BY <1>0, <2>1 DEF ImpType
  <2> QED BY <1>1, <1>3, <2>1, <2>2, OnlyMoves
<1> QED BY <1>2, <1>3

LEMMA SetRepositorioEffect ==
  ASSUME TInv, NEW q \in Requests, SetRepositorio(q)
  PROVE  LET u == req[q]
             v == req'[q]
         IN  /\ u.pc = "rep" /\ v.pc = "parse" /\ Others(q) /\ Kin(v, u)
             /\ v.got = u.got /\ v.temp = u.temp /\ v.i = u.i
             /\ imp'.file = imp.file /\ imp'.oai = imp.oai
             /\ imp'.rep = [req |-> q, rep |-> u.rep, key |-> u.ent.key]
             /\ UNCHANGED <<bounds, docs, row, disk, edit, solid>>
<1>0. req[q] \in Update /\ req \in [Requests -> Update] /\ imp \in ImpType
  BY Typed
<1>1. /\ imp'.file = imp.file /\ imp'.oai = imp.oai
      /\ imp'.rep = [req |-> q, rep |-> req[q].rep, key |-> req[q].ent.key]
  BY <1>0 DEF SetRepositorio, ImpType
<1>2. Goes(q, [req[q] EXCEPT !.pc = "parse"]) /\ req[q].pc = "rep"
  BY DEF SetRepositorio
<1> QED BY <1>1, <1>2, OnlyMoves DEF SetRepositorio

\* The update is over, or has failed.
Over(q) == req'[q] = Idle /\ Others(q) /\ imp' = Released(q)

LEMMA ParseEffect ==
  ASSUME TInv, NEW q \in Requests, Parse(q)
  PROVE  LET u == req[q]
             v == req'[q]
         IN  /\ u.pc = "parse"
             /\ \/ disk[imp.file] = NoFile /\ Over(q)
                \/ /\ v.pc = "save" /\ Others(q) /\ Kin(v, u)
                   /\ v.got = u.got /\ v.temp = u.temp /\ v.i = u.i
                   /\ imp'.file = imp.file /\ imp'.rep = imp.rep /\ imp'.oai = disk[imp.file]
             /\ UNCHANGED <<bounds, docs, row, disk, edit, solid>>
<1>0. req[q] \in Update /\ req \in [Requests -> Update] /\ imp \in ImpType
  BY Typed
<1>1. req[q].pc = "parse" /\ UNCHANGED <<bounds, docs, row, disk, edit, solid>>
  BY DEF Parse
<1>2. CASE disk[imp.file] = NoFile
  BY <1>0, <1>1, <1>2, GoesTo DEF Parse, Others, Over
<1>3. CASE disk[imp.file] # NoFile
  <2>1. Goes(q, [req[q] EXCEPT !.pc = "save"]) /\ imp' = [imp EXCEPT !.oai = disk[imp.file]]
    BY <1>3 DEF Parse
  <2>2. imp'.rep = imp.rep /\ imp'.file = imp.file /\ imp'.oai = disk[imp.file]
    BY <1>0, <2>1 DEF ImpType
  <2> QED BY <1>1, <1>3, <2>1, <2>2, OnlyMoves
<1> QED BY <1>2, <1>3

LEMMA SaveEffect ==
  ASSUME TInv, NEW q \in Requests, Save(q)
  PROVE  LET u == req[q]
             v == req'[q]
             x == imp.oai.recs[u.i]
             found == docs[x.id]
         IN  /\ u.pc = "save" /\ u.i <= Len(imp.oai.recs) /\ x \in [id : Ids, ver : Nat]
             /\ \/ /\ found = {}
                   /\ v.pc = "insert" /\ Others(q) /\ Kin(v, u)
                   /\ v.got = u.got /\ v.temp = u.temp /\ v.i = u.i
                   /\ v.new = <<x.id, [owner |-> imp.rep.rep, key |-> imp.rep.key, ver |-> x.ver]>>
                   /\ docs' = docs /\ imp' = imp
                \/ /\ \E d \in Doc : found = {d} /\
                        docs' = [docs EXCEPT ![x.id] = {[d EXCEPT !.ver = x.ver]}]
                   /\ ~(u.dirty /\ Gone(u))
                   /\ v.pc = "save" /\ Others(q) /\ Kin(v, u)
                   /\ v.got = u.got /\ v.temp = u.temp /\ v.i = u.i + 1
                   /\ imp' = imp
                \/ Over(q) /\ docs' = docs
             /\ UNCHANGED <<bounds, row, disk, edit, solid>>
<1> DEFINE u == req[q]
           x == imp.oai.recs[u.i]
           found == docs[x.id]
<1>0. u \in Update /\ req \in [Requests -> Update] /\ imp.oai \in File /\ u.i \in Nat \ {0}
  BY Typed, TypedRequest
<1>1. u.pc = "save" /\ u.i <= Len(imp.oai.recs) /\ UNCHANGED <<bounds, row, disk, edit, solid>>
  BY Zenon DEF Save
<1>2. x \in [id : Ids, ver : Nat]
  <2>1. imp.oai.recs \in Seq([id : Ids, ver : Nat])
    BY <1>0 DEF File
  <2>2. u.i \in 1..Len(imp.oai.recs)
    BY <1>0, <1>1, <2>1, LenProperties
  <2> QED BY <2>1, <2>2, ElementOfSeq
<1>3. CASE /\ found = {}
           /\ Goes(q, [u EXCEPT !.pc = "insert",
                    !.new = <<x.id, [owner |-> imp.rep.rep, key |-> imp.rep.key, ver |-> x.ver]>>])
           /\ UNCHANGED <<docs, imp>>
  <2> DEFINE n == <<x.id, [owner |-> imp.rep.rep, key |-> imp.rep.key, ver |-> x.ver]>>
             v == [u EXCEPT !.pc = "insert", !.new = n]
  <2>1. Goes(q, v) /\ found = {} /\ docs' = docs /\ imp' = imp
    BY <1>3
  <2> HIDE DEF n
  <2>2. /\ v.pc = "insert" /\ Kin(v, u) /\ v.temp = u.temp /\ v.i = u.i /\ v.new = n
        /\ v.got = u.got
    <3> HIDE DEF u
    <3> QED BY <1>0 DEF Update, Kin
  <2> HIDE DEF v
  <2>3. req'[q] = v /\ Others(q)
    BY <1>0, <2>1, GoesTo DEF Others
  <2> QED BY <1>1, <1>2, <2>1, <2>2, <2>3 DEF n
<1>4. CASE /\ Cardinality(found) = 1 /\ ~(u.dirty /\ Gone(u))
           /\ docs' = [docs EXCEPT ![x.id] = {[d EXCEPT !.ver = x.ver] : d \in found}]
           /\ Goes(q, [u EXCEPT !.i = @ + 1])
           /\ UNCHANGED imp
  <2> DEFINE v == [u EXCEPT !.i = u.i + 1]
  <2>1. Goes(q, v)
    BY Zenon, <1>4
  <2>2. v.pc = u.pc /\ Kin(v, u) /\ v.temp = u.temp /\ v.i = u.i + 1 /\ v.got = u.got
    <3> HIDE DEF u
    <3> QED BY <1>0 DEF Update, Kin
  <2> HIDE DEF v
  <2>3. req'[q] = v /\ Others(q)
    BY <1>0, <2>1, GoesTo DEF Others
  <2>4. PICK d : found = {d}
    <3>1. IsFiniteSet(found)
      BY <1>2 DEF TInv
    <3> QED BY Zenon, <1>4, <3>1, FS_Singleton
  <2>5. d \in Doc
    BY <1>2, <2>4, Typed
  <2>6. docs' = [docs EXCEPT ![x.id] = {[d EXCEPT !.ver = x.ver]}]
    BY Zenon, <1>4, <2>4
  <2> QED BY ZenonT(40), <1>1, <1>2, <1>4, <2>2, <2>3, <2>4, <2>5, <2>6
<1>5. CASE Goes(q, Idle) /\ imp' = Released(q) /\ UNCHANGED docs
  <2>1. Over(q)
    BY <1>0, <1>5, GoesTo DEF Over, Others
  <2> QED BY <1>1, <1>2, <1>5, <2>1
<1> HIDE DEF x
<1> QED BY Zenon, <1>3, <1>4, <1>5 DEF Save, x

LEMMA InsertEffect ==
  ASSUME TInv, NEW q \in Requests, Insert(q)
  PROVE  LET u == req[q]
             v == req'[q]
             id == u.new[1]
             new == u.new[2]
         IN  /\ u.pc = "insert" /\ id \in Ids /\ new \in [owner : Repos, key : Nat, ver : Nat]
             /\ \/ /\ row[new.owner].key = new.key /\ ~(u.dirty /\ Gone(u))
                   /\ \E d \in Doc : /\ d.owner = new.owner /\ d.ver = new.ver
                                     /\ docs' = [docs EXCEPT ![id] = @ \cup {d}]
                   /\ v.pc = "save" /\ Others(q) /\ Kin(v, u)
                   /\ v.got = u.got /\ v.temp = u.temp /\ v.i = u.i + 1
                   /\ imp' = imp
                \/ Over(q) /\ docs' = docs
             /\ UNCHANGED <<bounds, row, disk, edit, solid>>
<1> DEFINE u == req[q]
           id == u.new[1]
           new == u.new[2]
           key == CHOOSE k \in 1..(Cardinality(docs[id]) + 1) : \A d \in docs[id] : d.key # k
           doc == [key |-> key, owner |-> new.owner, ver |-> new.ver]
<1>0. u \in Update /\ req \in [Requests -> Update]
  BY Typed
<1>1. u.pc = "insert" /\ UNCHANGED <<bounds, row, disk, edit, solid>>
  BY DEF Insert
<1>2. id \in Ids /\ new \in [owner : Repos, key : Nat, ver : Nat]
  BY <1>1, TypedRequest
<1>3. CASE /\ row[new.owner].key = new.key /\ ~(u.dirty /\ Gone(u))
           /\ docs' = [docs EXCEPT ![id] = @ \cup {doc}]
           /\ Goes(q, [u EXCEPT !.pc = "save", !.i = @ + 1, !.new = <<>>])
           /\ UNCHANGED imp
  <2> DEFINE v == [u EXCEPT !.pc = "save", !.i = u.i + 1, !.new = <<>>]
  <2>1. Goes(q, v)
    BY <1>3
  <2>2. v.pc = "save" /\ Kin(v, u) /\ v.temp = u.temp /\ v.i = u.i + 1 /\ v.got = u.got
    <3> HIDE DEF u
    <3> QED BY <1>0 DEF Update, Kin
  <2> HIDE DEF v
  <2>3. req'[q] = v /\ Others(q)
    BY <1>0, <2>1, GoesTo DEF Others
  <2>4. key \in Nat
    BY <1>2, FreeKey
  <2> HIDE DEF key
  <2>5. doc \in Doc /\ doc.owner = new.owner /\ doc.ver = new.ver
    BY <1>2, <2>4 DEF Doc
  <2> HIDE DEF doc
  <2> QED BY <1>1, <1>2, <1>3, <2>2, <2>3, <2>5
<1>4. CASE Goes(q, Idle) /\ imp' = Released(q) /\ UNCHANGED docs
  <2>1. Over(q)
    BY <1>0, <1>4, GoesTo DEF Over, Others
  <2> QED BY <1>1, <1>2, <1>4, <2>1
<1> QED BY <1>3, <1>4 DEF Insert

LEMMA SetDataXmlTempEffect ==
  ASSUME TInv, NEW q \in Requests, SetDataXmlTemp(q)
  PROVE  /\ req[q].pc = "save" /\ req[q].i > Len(imp.oai.recs)
         /\ \A p \in Requests :
              LET u == req[p]
                  v == req'[p]
              IN  /\ Kin(v, u) /\ v.got = u.got /\ v.i = u.i /\ v.new = u.new
                  /\ v.pc = IF p = q THEN "end" ELSE u.pc
                  /\ v.temp = IF p = imp.rep.req THEN imp.oai.date ELSE u.temp
         /\ UNCHANGED <<bounds, store, edit, solid>>
<1>1. ASSUME NEW p \in Requests
      PROVE  LET u == req[p]
                 v == req'[p]
             IN  /\ Kin(v, u) /\ v.got = u.got /\ v.i = u.i /\ v.new = u.new
                 /\ v.pc = IF p = q THEN "end" ELSE u.pc
                 /\ v.temp = IF p = imp.rep.req THEN imp.oai.date ELSE u.temp
  <2>1. req[p] \in Update
    BY Typed
  <2> QED BY <2>1 DEF SetDataXmlTemp, Update, Kin
<1> QED BY <1>1 DEF SetDataXmlTemp

LEMMA EndEffect ==
  ASSUME TInv, NEW q \in Requests, End(q)
  PROVE  LET u == req[q]
             date == IF u.temp # NoDate THEN u.temp ELSE u.ent.dataXml
         IN  /\ u.pc = "end" /\ ~Gone(u) /\ Over(q) /\ u.rep \in Repos
             /\ row'[u.rep].key = u.ent.key /\ row'[u.rep].form = u.ent.form
             /\ row'[u.rep].dataXml = date
             /\ \A r \in Repos : r # u.rep => row'[r] = row[r]
             /\ \/ solid' = solid
                \/ /\ u.alone /\ u.full /\ solid' = solid \cup {u.rep}
                   /\ \A id \in Owned(u.rep) : \A d \in docs[id] : d.owner = u.rep
             /\ UNCHANGED <<bounds, docs, disk, edit>>
<1> DEFINE u == req[q]
           date == IF u.temp # NoDate THEN u.temp ELSE u.ent.dataXml
<1>0. u \in Update /\ req \in [Requests -> Update] /\ u.ent \in Row /\ row \in [Repos -> Row]
  BY Typed, TypedRequest
<1>1. u.pc = "end" /\ ~Gone(u) /\ UNCHANGED <<bounds, docs, disk, edit>>
  BY DEF End
<1>2. Over(q)
  BY <1>0, GoesTo DEF End, Over, Others
<1>3. row' = [row EXCEPT ![u.rep] = [u.ent EXCEPT !.ultima = TRUE, !.dataXml = date]]
  BY <1>0 DEF End, Row
<1>4. u.rep \in Repos
  BY <1>1, TypedRequest
<1> HIDE DEF date
<1>5. /\ row'[u.rep].key = u.ent.key /\ row'[u.rep].form = u.ent.form
      /\ row'[u.rep].dataXml = date
      /\ \A r \in Repos : r # u.rep => row'[r] = row[r]
  BY <1>0, <1>3, <1>4 DEF Row
<1>6. \/ solid' = solid
      \/ /\ u.alone /\ u.full /\ solid' = solid \cup {u.rep}
         /\ \A id \in Owned(u.rep) : \A d \in docs[id] : d.owner = u.rep
  BY DEF End
<1> QED BY <1>1, <1>2, <1>4, <1>5, <1>6 DEF date

LEMMA FailEffect ==
  ASSUME TInv, NEW q \in Requests, EndGone(q) \/ UpdateFails(q)
  PROVE  /\ req[q].pc # "idle" /\ Over(q)
         /\ (req[q].pc = "end" /\ Gone(req[q])) \/ events' # events
         /\ UNCHANGED <<now, prov, keys, docs, row, disk, edit, solid>>
BY Typed, GoesTo, IdleType DEF EndGone, UpdateFails, Over, Others, bounds, TInv, TypeOK

LEMMA OverImport ==
  ASSUME TInv, NEW q \in Requests, Over(q)
  PROVE  /\ imp'.file = imp.file /\ imp'.oai = imp.oai
         /\ imp'.rep.rep = imp.rep.rep /\ imp'.rep.key = imp.rep.key
         /\ imp'.rep.req = IF imp.rep.req = q THEN NoRequest ELSE imp.rep.req
BY Typed DEF Over, Released, ImpType

-----------------------------------------------------------------------------
(* Keys *)

LEMMA KInvInit == Init => KInv
BY DEF Init, KInv, Keyed, Idle, NewRow

\* Most steps leave the keys of the rows as they are, and the owners there are.
LEMMA KInvFrame ==
  ASSUME KInv, TInv, TInv', NEW q \in Requests,
         keys' = keys,
         \A r \in Repos : row'[r].key = row[r].key,
         \A id \in Ids : \A d \in docs'[id] : row[d.owner].key # NoKey,
         edit' = edit,
         imp.rep.key # NoKey => imp'.rep.key # NoKey,
         \A p \in Requests : p # q => /\ req'[p].pc = req[p].pc
                                      /\ req'[p].ent = req[p].ent /\ req'[p].new = req[p].new,
         Keyed(q)'
  PROVE  KInv'
<1>1. \A r \in Repos : row'[r].key <= keys'[r]
  BY DEF KInv
<1>2. \A id \in Ids : \A d \in docs'[id] : row'[d.owner].key # NoKey
  <2>1. \A id \in Ids : \A d \in docs'[id] : d.owner \in Repos
    BY DEF TInv, TypeOK, Doc
  <2> QED BY <2>1
<1>3. \A p \in Requests : Keyed(p)'
  <2> SUFFICES ASSUME NEW p \in Requests, p # q PROVE Keyed(p)'
    OBVIOUS
  <2> QED BY DEF KInv, Keyed
<1>4. edit' # NoEdit => edit'.old.key # NoKey /\ edit'.old.key <= keys'[edit'.rep]
  BY DEF KInv
<1> QED BY <1>1, <1>2, <1>3, <1>4 DEF KInv

LEMMA KInvEnvironment ==
  ASSUME KInv, TInv, TInv',
         \/ Tick \/ EditSave \/ Crash
         \/ \E id \in Ids : Change(id)
         \/ \E r \in Repos : EditRead(r) \/ Delete(r) \/ Register(r)
         \/ \E q \in Requests, r \in Repos, apagar \in BOOLEAN : Begin(q, r, apagar)
  PROVE  KInv'
<1>1. CASE Tick
  BY <1>1 DEF Tick, KInv, Keyed, store
<1>2. CASE EditSave
  <2>1. \A r \in Repos : row'[r].key = row[r].key
    BY <1>2, Typed DEF EditSave, Row
  <2>2. \A id \in Ids : \A d \in docs[id] : d.owner \in Repos
    BY Typed DEF Doc
  <2>3. edit' = NoEdit /\ UNCHANGED <<keys, docs, req, imp>>
    BY <1>2 DEF EditSave, bounds
  <2>4. \A p \in Requests : Keyed(p)'
    BY <2>3 DEF KInv, Keyed
  <2> QED BY <2>1, <2>2, <2>3, <2>4 DEF KInv
<1>3. CASE Crash
  BY <1>3 DEF Crash, KInv, Keyed, Idle
<1>4. ASSUME NEW id \in Ids, Change(id) PROVE KInv'
  BY <1>4 DEF Change, KInv, Keyed, store
<1>5. ASSUME NEW r \in Repos, EditRead(r) PROVE KInv'
  <2>1. \A p \in Requests : Keyed(p)'
    <3> SUFFICES ASSUME NEW p \in Requests PROVE Keyed(p)'
      OBVIOUS
    <3>1. req'[p] = [req[p] EXCEPT !.alone = FALSE] /\ imp' = imp
      BY <1>5 DEF EditRead, store
    <3>2. req'[p].pc = req[p].pc /\ req'[p].ent = req[p].ent /\ req'[p].new = req[p].new
      BY <3>1, TypedRequest DEF Update
    <3> QED BY <3>1, <3>2 DEF KInv, Keyed
  <2>2. edit'.old.key # NoKey /\ edit'.old.key <= keys'[edit'.rep]
    BY <1>5 DEF EditRead, KInv, store
  <2> QED BY <1>5, <2>1, <2>2 DEF EditRead, KInv, store
<1>6. ASSUME NEW r \in Repos, Delete(r) PROVE KInv'
  <2>1. \A p \in Requests : Keyed(p)'
    <3> SUFFICES ASSUME NEW p \in Requests PROVE Keyed(p)'
      OBVIOUS
    <3>1. req'[p] = [req[p] EXCEPT !.alone = FALSE] /\ imp' = imp
      BY <1>6 DEF Delete
    <3>2. req'[p].pc = req[p].pc /\ req'[p].ent = req[p].ent /\ req'[p].new = req[p].new
      BY <3>1, TypedRequest DEF Update
    <3> QED BY <3>1, <3>2 DEF KInv, Keyed
  <2>2. row' = [row EXCEPT ![r] = NoRow] /\ keys' = keys /\ edit' = edit
    BY <1>6 DEF Delete
  <2>3. NoRow.key = NoKey
    BY DEF NoRow, NewRow
  <2>4. \A s \in Repos : row'[s].key <= keys'[s]
    BY <2>2, <2>3, Typed DEF KInv
  <2>5. \A id \in Ids : \A d \in docs'[id] : d \in docs[id] /\ d.owner # r /\ d.owner \in Repos
    BY <1>6, Typed DEF Delete, Doc
  <2>6. \A id \in Ids : \A d \in docs'[id] : row'[d.owner].key # NoKey
    BY <2>2, <2>5, Typed DEF KInv
  <2> QED BY <2>1, <2>2, <2>4, <2>6 DEF KInv
<1>7. ASSUME NEW r \in Repos, Register(r) PROVE KInv'
  <2>1. /\ keys' = [keys EXCEPT ![r] = @ + 1] /\ row' = [row EXCEPT ![r] = NewRow(keys'[r])]
        /\ UNCHANGED <<docs, edit, req, imp>>
    BY <1>7 DEF Register
  <2>2. /\ keys'[r] = keys[r] + 1 /\ row'[r].key = keys[r] + 1
        /\ \A s \in Repos : s # r => keys'[s] = keys[s] /\ row'[s] = row[s]
    BY <2>1, Typed DEF NewRow
  <2>3. \A s \in Repos : row'[s].key <= keys'[s]
    BY <2>2, Typed DEF KInv
  <2>4. \A id \in Ids : \A d \in docs'[id] : row'[d.owner].key # NoKey
    BY <2>1, <2>2, Typed DEF KInv, Doc
  <2>5. edit' # NoEdit => edit'.old.key # NoKey /\ edit'.old.key <= keys'[edit'.rep]
    BY <2>1, <2>2, Typed DEF KInv, Row
  <2>6. \A p \in Requests : Keyed(p)'
    BY <2>1 DEF KInv, Keyed
  <2> QED BY <2>3, <2>4, <2>5, <2>6 DEF KInv
<1>8. ASSUME NEW q \in Requests, NEW r \in Repos, NEW apagar \in BOOLEAN, Begin(q, r, apagar)
      PROVE  KInv'
  <2>1. UNCHANGED <<docs, row, keys, imp, edit>> /\ row[r].key # NoKey
    BY ZenonT(40), <1>8 DEF Begin, store
  <2>2. \A p \in Requests : p # q => req'[p] = [req[p] EXCEPT !.alone = FALSE]
    BY Zenon, <1>8 DEF Begin
  <2>3. \A p \in Requests : p # q =>
          /\ req'[p].pc = req[p].pc /\ req'[p].ent = req[p].ent /\ req'[p].new = req[p].new
    BY <2>2, TypedRequest DEF Update
  <2>4. req'[q].pc = "wipe" /\ req'[q].ent.key = row[r].key
    BY <1>8, BeginEffect
  <2>5. Keyed(q)'
    BY <2>1, <2>4 DEF Keyed
  <2>6. \A id \in Ids : \A d \in docs'[id] : row[d.owner].key # NoKey
    BY <2>1 DEF KInv
  <2> QED BY <2>1, <2>3, <2>5, <2>6, KInvFrame
<1> QED BY <1>1, <1>2, <1>3, <1>4, <1>5, <1>6, <1>7, <1>8

LEMMA KInvUpdate ==
  ASSUME KInv, TInv, TInv', NEW q \in Requests,
         \/ Wipe(q) \/ Empty(q) \/ Fetch(q) \/ Open(q) \/ SetRepositorio(q) \/ Parse(q)
         \/ Save(q) \/ Insert(q) \/ SetDataXmlTemp(q) \/ End(q) \/ EndGone(q) \/ UpdateFails(q)
  PROVE  KInv'
<1> DEFINE u == req[q]
           v == req'[q]
<1>0. /\ row \in [Repos -> Row] /\ docs \in [Ids -> SUBSET Doc]
      /\ u.pc # "idle" => u.rep \in Repos /\ u.ent.key # NoKey
      /\ u.pc \in {"parse", "save", "insert"} => imp.rep.key # NoKey
      /\ u.pc = "insert" => u.new[2].key # NoKey
      /\ \A id \in Ids : \A d \in docs[id] : row[d.owner].key # NoKey
  BY Typed, TypedRequest DEF KInv, Keyed
\* A step that moves on with the same entity and touches no key.
<1>b. ASSUME u.pc # "idle", v.ent = u.ent, Others(q),
             UNCHANGED <<keys, edit>>,
             \A r \in Repos : row'[r].key = row[r].key,
             \A id \in Ids : \A d \in docs'[id] : row[d.owner].key # NoKey,
             imp.rep.key # NoKey => imp'.rep.key # NoKey,
             v.pc \in {"parse", "save", "insert"} => imp'.rep.key # NoKey,
             v.pc = "insert" => v.new[2].key # NoKey
      PROVE  KInv'
  <2>1. Keyed(q)'
    BY <1>0, <1>b DEF Keyed
  <2> QED BY <1>b, <2>1, KInvFrame DEF Others
\* A step with which the update ends.
<1>c. ASSUME Over(q), UNCHANGED <<keys, edit, docs>>,
             \A r \in Repos : row'[r].key = row[r].key
      PROVE  KInv'
  <2>1. Keyed(q)'
    BY <1>c DEF Keyed, Over, Idle
  <2> QED BY <1>0, <1>c, <2>1, OverImport, KInvFrame DEF Over, Others
<1>1. CASE Wipe(q)
  <2>1. \A r \in Repos : row'[r].key = row[r].key
    BY <1>0, <1>1, WipeEffect DEF Gone
  <2>2. \A id \in Ids : \A d \in docs'[id] : row[d.owner].key # NoKey
    <3>1. \/ docs' = docs
          \/ docs' = [id \in Ids |-> {d \in docs[id] : d.owner # u.rep}]
      BY <1>1, WipeEffect
    <3>2. \A id \in Ids : docs'[id] \subseteq docs[id]
      BY <3>1
    <3> QED BY <1>0, <3>2
  <2>3. /\ u.pc # "idle" /\ v.ent = u.ent /\ Others(q) /\ UNCHANGED <<keys, edit, imp>>
        /\ v.pc = "empty"
    BY <1>1, WipeEffect DEF bounds
  <2> QED BY <1>b, <2>1, <2>2, <2>3
<1>2. CASE Empty(q)
  BY <1>0, <1>2, <1>b, EmptyEffect DEF bounds, Kin
<1>3. CASE Fetch(q)
  <2>1. /\ u.pc = "fetch" /\ v.pc = "open" /\ Others(q) /\ v.ent = u.ent
        /\ UNCHANGED <<keys, edit, docs, row, imp>>
    BY <1>3, FetchEffect DEF bounds, Kin
  <2> QED BY <1>0, <1>b, <2>1
<1>4. CASE Open(q)
  BY <1>0, <1>4, <1>b, OpenEffect DEF bounds, Kin
<1>5. CASE SetRepositorio(q)
  <2>1. /\ u.pc = "rep" /\ v.pc = "parse" /\ Others(q) /\ v.ent = u.ent
        /\ imp'.rep = [req |-> q, rep |-> u.rep, key |-> u.ent.key]
        /\ UNCHANGED <<keys, edit, docs, row>>
    BY <1>5, SetRepositorioEffect DEF bounds, Kin
  <2>2. imp'.rep.key = u.ent.key
    BY <2>1
  <2> QED BY <1>0, <1>b, <2>1, <2>2
<1>6. CASE Parse(q)
  BY <1>0, <1>6, <1>b, <1>c, ParseEffect DEF bounds, Kin
<1>7. CASE Save(q)
  <2> DEFINE x == imp.oai.recs[u.i]
  <2>0. u.pc = "save" /\ x \in [id : Ids, ver : Nat] /\ UNCHANGED <<keys, edit, row>>
    BY <1>7, SaveEffect DEF bounds
  <2>1. CASE docs' = docs /\ imp' = imp /\ Others(q) /\ Kin(v, u) /\ v.pc = "insert" /\
             v.new = <<x.id, [owner |-> imp.rep.rep, key |-> imp.rep.key, ver |-> x.ver]>>
    BY <1>0, <1>b, <2>0, <2>1 DEF Kin
  <2>2. CASE imp' = imp /\ Others(q) /\ Kin(v, u) /\ v.pc = "save" /\
             \E d \in Doc : docs[x.id] = {d} /\
               docs' = [docs EXCEPT ![x.id] = {[d EXCEPT !.ver = x.ver]}]
    <3>1. PICK d \in Doc : docs[x.id] = {d} /\
                 docs' = [docs EXCEPT ![x.id] = {[d EXCEPT !.ver = x.ver]}]
      BY <2>2
    <3> DEFINE e == [d EXCEPT !.ver = x.ver]
    <3>2. e.owner = d.owner /\ row[d.owner].key # NoKey
      BY <1>0, <2>0, <3>1 DEF Doc
    <3> HIDE DEF e
    <3>3. docs' = [docs EXCEPT ![x.id] = {e}]
      BY <3>1 DEF e
    <3> HIDE DEF x
    <3>4. \A id \in Ids : \A f \in docs'[id] : row[f.owner].key # NoKey
      BY <1>0, <3>2, <3>3
    <3> QED BY <1>0, <1>b, <2>0, <2>2, <3>4 DEF Kin
  <2>3. CASE Over(q) /\ docs' = docs
    BY <1>c, <2>0, <2>3
  <2> QED BY <1>7, <2>1, <2>2, <2>3, SaveEffect
<1>8. CASE Insert(q)
  <2> DEFINE id == u.new[1]
             new == u.new[2]
  <2>0. u.pc = "insert" /\ id \in Ids /\ UNCHANGED <<keys, edit, row>>
    BY <1>8, InsertEffect DEF bounds
  <2>1. CASE /\ row[new.owner].key = new.key
             /\ \E d \in Doc : d.owner = new.owner /\ docs' = [docs EXCEPT ![id] = @ \cup {d}]
             /\ imp' = imp /\ Others(q) /\ Kin(v, u) /\ v.pc = "save"
    <3>1. PICK d \in Doc : d.owner = new.owner /\ docs' = [docs EXCEPT ![id] = @ \cup {d}]
      BY <2>1
    <3>2. row[d.owner].key # NoKey
      BY <1>0, <2>0, <2>1, <3>1
    <3> HIDE DEF id, new
    <3>3. \A i \in Ids : \A f \in docs'[i] : row[f.owner].key # NoKey
      BY <1>0, <3>1, <3>2
    <3> QED BY <1>0, <1>b, <2>0, <2>1, <3>3 DEF Kin
  <2>2. CASE Over(q) /\ docs' = docs
    BY <1>c, <2>0, <2>2
  <2> QED BY <1>8, <2>1, <2>2, InsertEffect
<1>9. CASE SetDataXmlTemp(q)
  <2>1. Keyed(q)'
    BY <1>0, <1>9, SetDataXmlTempEffect DEF Keyed, Kin, store
  <2> QED BY <1>0, <1>9, <2>1, SetDataXmlTempEffect, KInvFrame DEF Kin, bounds, store
<1>10. CASE End(q)
  <2>1. \A r \in Repos : row'[r].key = row[r].key
    BY <1>10, EndEffect DEF Gone
  <2> QED BY <1>10, <1>c, <2>1, EndEffect DEF bounds
<1>11. CASE EndGone(q) \/ UpdateFails(q)
  BY <1>11, <1>c, FailEffect
<1> QED BY <1>1, <1>2, <1>3, <1>4, <1>5, <1>6, <1>7, <1>8, <1>9, <1>10, <1>11

LEMMA KInvStep == KInv /\ TInv /\ [Next]_vars => KInv'
<1> SUFFICES ASSUME KInv, TInv, [Next]_vars PROVE KInv'
  OBVIOUS
<1>1. TInv'
  BY TInvStep
<1>2. CASE UNCHANGED vars
  BY <1>2 DEF KInv, Keyed, vars
<1> QED BY <1>1, <1>2, KInvEnvironment, KInvUpdate DEF Next

\* A repository that is deleted under an update or an edit of it does not come
\* back with their saves, nor any document of it (RepositoriesController.delete,
\* Repositorios.atualizaRepositorio).
THEOREM OverlapDeletedIsGone == Spec => DeletedIsGone
<1> DEFINE Gives == /\ \A r \in Repos : row'[r].key \in {row[r].key, NoKey, keys[r] + 1}
                    /\ \A id \in Ids : \A d \in docs'[id] : row'[d.owner].key # NoKey
<1>1. TInv /\ KInv /\ KInv' /\ [Next]_vars => [Gives]_vars
  <2> SUFFICES ASSUME TInv, KInv, KInv', Next PROVE Gives
    OBVIOUS
  <2>1. \A r \in Repos : row'[r].key \in {row[r].key, NoKey, keys[r] + 1}
    <3>0. /\ row \in [Repos -> Row] /\ keys \in [Repos -> Nat]
          /\ \A q \in Requests : req[q].ent \in Row /\ (req[q].pc # "idle" => req[q].rep \in Repos)
          /\ edit # NoEdit => edit.rep \in Repos /\ edit.old \in Row
      BY Typed, TypedRequest
    <3>1. CASE Tick \/ Crash \/ \E id \in Ids : Change(id)
      BY <3>1 DEF Tick, Crash, Change, store
    <3>2. CASE EditSave
      BY <3>0, <3>2 DEF EditSave, Row
    <3>3. ASSUME NEW r \in Repos, EditRead(r) \/ Delete(r) \/ Register(r)
          PROVE  \A s \in Repos : row'[s].key \in {row[s].key, NoKey, keys[s] + 1}
      BY <3>0, <3>3 DEF EditRead, Delete, Register, store, NoRow, NewRow
    <3>4. ASSUME NEW q \in Requests, NEW r \in Repos, NEW apagar \in BOOLEAN, Begin(q, r, apagar)
          PROVE  \A s \in Repos : row'[s].key = row[s].key
      BY Zenon, <3>4 DEF Begin, store
    <3>5. ASSUME NEW q \in Requests,
                 \/ Empty(q) \/ Fetch(q) \/ Open(q) \/ SetRepositorio(q) \/ Parse(q) \/ Save(q)
                 \/ Insert(q) \/ SetDataXmlTemp(q) \/ EndGone(q) \/ UpdateFails(q)
          PROVE  row' = row
      BY Zenon, <3>5 DEF Empty, Fetch, Open, SetRepositorio, Parse, Save, Insert, SetDataXmlTemp,
                         EndGone, UpdateFails, store
    <3>6. ASSUME NEW q \in Requests, Wipe(q) PROVE \A s \in Repos : row'[s].key = row[s].key
      BY <3>0, <3>6 DEF Wipe, Gone
    <3>7. ASSUME NEW q \in Requests, End(q) PROVE \A s \in Repos : row'[s].key = row[s].key
      BY <3>0, <3>7 DEF End, Gone, Row
    <3> QED BY <3>1, <3>2, <3>3, <3>4, <3>5, <3>6, <3>7 DEF Next
  <2> QED BY <2>1 DEF KInv
<1>2. Spec => [](TInv /\ KInv)
  BY TInvInit, TInvStep, KInvInit, KInvStep, PTL DEF Spec
<1>3. Spec => [][Gives]_vars
  BY <1>1, <1>2, PTL DEF Spec
<1> QED BY <1>3 DEF DeletedIsGone

-----------------------------------------------------------------------------
(* Dates *)

LEMMA DInvInit == Init => DInv
BY DEF Init, DInv, Dated, Idle, NewRow, NoRow, NoFile, NoEdit

LEMMA DInvEnvironment ==
  ASSUME DInv, TInv,
         \/ Tick \/ EditSave \/ Crash
         \/ \E id \in Ids : Change(id)
         \/ \E r \in Repos : EditRead(r) \/ Delete(r) \/ Register(r)
         \/ \E q \in Requests, r \in Repos, apagar \in BOOLEAN : Begin(q, r, apagar)
  PROVE  DInv'
<1>0. /\ row \in [Repos -> Row] /\ disk \in [Repos -> File] /\ now \in Nat /\ imp.oai \in File
      /\ edit.old \in Row /\ (edit # NoEdit => edit.rep \in Repos)
      /\ \A q \in Requests : req[q] \in Update /\ req[q].ent \in Row /\ req[q].got \in File
                             /\ req[q].temp \in Nat
  BY Typed, TypedRequest
<1>1. CASE Tick
  <2>1. now' = now + 1 /\ UNCHANGED <<imp, edit, row, disk, req>>
    BY <1>1 DEF Tick, store
  <2>2. /\ \A r \in Repos : row[r].dataXml \in Nat /\ disk[r].date \in Nat
        /\ imp.oai.date \in Nat /\ edit.old.dataXml \in Nat
        /\ \A q \in Requests : req[q].ent.dataXml \in Nat /\ req[q].got.date \in Nat
    BY <1>0 DEF Row, File
  <2>3. \A q \in Requests : Dated(q)'
    BY <1>0, <2>1, <2>2 DEF DInv, Dated
  <2> QED BY <1>0, <2>1, <2>2, <2>3 DEF DInv
<1>2. CASE EditSave
  <2>1. \A r \in Repos : row'[r].dataXml = row[r].dataXml \/ row'[r].dataXml = edit.old.dataXml
    BY <1>0, <1>2 DEF EditSave, Row
  <2>2. \A r \in Repos : row'[r].dataXml <= now
    BY <2>1 DEF DInv
  <2>3. edit'.old.dataXml = 0 /\ UNCHANGED <<now, disk, imp, req>>
    BY <1>2 DEF EditSave, bounds, NoEdit, NoRow, NewRow
  <2>4. \A q \in Requests : Dated(q)'
    BY <2>3 DEF DInv, Dated
  <2> QED BY <1>0, <2>2, <2>3, <2>4 DEF DInv
<1>3. CASE Crash
  BY <1>0, <1>3 DEF Crash, DInv, Dated, Idle, NoRow, NewRow, NoFile, NoEdit
<1>4. ASSUME NEW id \in Ids, Change(id) PROVE DInv'
  BY <1>4 DEF Change, DInv, Dated, store
<1>5. ASSUME NEW r \in Repos, EditRead(r) \/ Delete(r) PROVE DInv'
  <2>1. \A q \in Requests : req'[q] = [req[q] EXCEPT !.alone = FALSE]
    BY <1>5 DEF EditRead, Delete
  <2>2. now' = now /\ \A q \in Requests : Dated(q)'
    <3>1. now' = now
      BY <1>5 DEF EditRead, Delete
    <3>2. ASSUME NEW q \in Requests
          PROVE  /\ req'[q].ent = req[q].ent /\ req'[q].temp = req[q].temp
                 /\ req'[q].got = req[q].got
      BY <1>0, <2>1 DEF Update
    <3> QED BY <3>1, <3>2 DEF DInv, Dated
  <2>3. imp' = imp /\ disk' = disk
    BY <1>5 DEF EditRead, Delete, store
  <2>4. edit' = edit \/ edit'.old = row[r]
    BY <1>5 DEF EditRead, Delete
  <2>5. \A s \in Repos : row'[s] = row[s] \/ row'[s] = NoRow
    BY <1>0, <1>5 DEF EditRead, Delete, store
  <2>6. \A s \in Repos : row'[s].dataXml <= now
    <3>1. NoRow.dataXml = 0
      BY DEF NoRow, NewRow
    <3> QED BY <1>0, <2>5, <3>1 DEF DInv
  <2> QED BY <2>2, <2>3, <2>4, <2>6 DEF DInv
<1>6. ASSUME NEW r \in Repos, Register(r) PROVE DInv'
  <2>1. \A s \in Repos : row'[s] = row[s] \/ row'[s].dataXml = NoDate
    BY <1>0, <1>6 DEF Register, NewRow
  <2> QED BY <1>0, <1>6, <2>1 DEF Register, DInv, Dated
<1>7. ASSUME NEW q \in Requests, NEW r \in Repos, NEW apagar \in BOOLEAN, Begin(q, r, apagar)
      PROVE  DInv'
  <2>1. UNCHANGED <<now, row, disk, imp, edit>>
    BY ZenonT(40), <1>7 DEF Begin, store
  <2>2. \A p \in Requests : p # q => req'[p] = [req[p] EXCEPT !.alone = FALSE]
    BY Zenon, <1>7 DEF Begin
  <2>3. ASSUME NEW p \in Requests, p # q PROVE Dated(p)'
    BY <1>0, <2>1, <2>2, <2>3 DEF DInv, Dated, Update
  <2>4. Dated(q)'
    <3>1. /\ req'[q].temp = 0 /\ req'[q].got = NoFile
          /\ req'[q].ent = row[r] \/ req'[q].ent.dataXml = 0
      BY <1>7, BeginEffect
    <3>2. req'[q].ent.dataXml <= now /\ NoFile.date = 0
      BY <1>0, <3>1 DEF DInv, NoFile
    <3> QED BY <1>0, <2>1, <3>1, <3>2 DEF Dated
  <2> QED BY <2>1, <2>3, <2>4 DEF DInv
<1> QED BY <1>1, <1>2, <1>3, <1>4, <1>5, <1>6, <1>7

LEMMA DInvUpdate ==
  ASSUME DInv, TInv, NEW q \in Requests,
         \/ Wipe(q) \/ Empty(q) \/ Fetch(q) \/ Open(q) \/ SetRepositorio(q) \/ Parse(q)
         \/ Save(q) \/ Insert(q) \/ SetDataXmlTemp(q) \/ End(q) \/ EndGone(q) \/ UpdateFails(q)
  PROVE  DInv'
<1> DEFINE u == req[q]
           v == req'[q]
<1>0. /\ row \in [Repos -> Row] /\ disk \in [Repos -> File] /\ now \in Nat /\ imp.oai \in File
      /\ u.ent \in Row /\ (u.pc # "idle" => u.rep \in Repos)
      /\ u.pc \in {"rep", "parse"} => imp.file \in Repos
      /\ now >= 1 /\ imp.oai.date <= now
      /\ \A r \in Repos : row[r].dataXml <= now /\ disk[r].date <= now
      /\ u.ent.dataXml <= now /\ u.temp <= now /\ u.got.date <= now
  BY Typed, TypedRequest DEF TInv, Equipped, DInv, Dated
<1>a. ASSUME UNCHANGED <<now, edit>>, imp'.oai.date <= now, Others(q),
             \A r \in Repos : row'[r].dataXml <= now, \A r \in Repos : disk'[r].date <= now,
             v.ent.dataXml <= now, v.temp <= now, v.got.date <= now
      PROVE  DInv'
  <2>1. \A p \in Requests : Dated(p)'
    BY <1>a DEF DInv, Dated, Others
  <2> QED BY <1>0, <1>a, <2>1 DEF DInv
<1>b. ASSUME UNCHANGED <<now, edit, disk>>, Over(q), \A r \in Repos : row'[r].dataXml <= now
      PROVE  DInv'
  <2>1. v.ent.dataXml = 0 /\ v.temp = 0 /\ v.got.date = 0
    BY <1>b DEF Over, Idle, NoRow, NewRow, NoFile
  <2>2. Others(q) /\ imp'.oai = imp.oai
    BY <1>b, OverImport DEF Over
  <2> QED BY <1>0, <1>a, <1>b, <2>1, <2>2
<1>1. CASE Wipe(q)
  <2>1. /\ Others(q) /\ v.ent = u.ent /\ v.temp = u.temp /\ v.got = u.got
        /\ UNCHANGED <<now, edit, disk, imp>>
        /\ row' = row \/ row' = [row EXCEPT ![u.rep] = u.ent]
    BY <1>1, WipeEffect DEF bounds
  <2>2. \A r \in Repos : row'[r].dataXml <= now
    BY <1>0, <2>1
  <2> QED BY <1>0, <1>a, <2>1, <2>2
<1>2. CASE Empty(q)
  <2>1. /\ Others(q) /\ v.ent = u.ent /\ v.temp = u.temp /\ v.got = u.got
        /\ UNCHANGED <<now, edit, row, imp>> /\ disk' = [r \in Repos |-> NoFile]
    BY <1>2, EmptyEffect DEF bounds, Kin
  <2>2. \A r \in Repos : disk'[r].date <= now
    BY <1>0, <2>1 DEF NoFile
  <2> QED BY <1>0, <1>a, <2>1, <2>2
<1>3. CASE Fetch(q)
  <2> DEFINE answer == Response(u.rep, u.ent.dataXml)
  <2>1. /\ Others(q) /\ v.ent = u.ent /\ v.temp = u.temp /\ v.got = answer /\ u.pc = "fetch"
        /\ UNCHANGED <<now, edit, row, imp>> /\ disk' = [disk EXCEPT ![u.rep] = answer]
    BY <1>3, FetchEffect DEF bounds, Kin
  <2>2. answer.date = now
    BY <1>0, <2>1, Typed, ResponseIs DEF Row
  <2> HIDE DEF answer
  <2>3. \A r \in Repos : disk'[r].date <= now
    BY <1>0, <2>1, <2>2
  <2> QED BY <1>0, <1>a, <2>1, <2>2, <2>3
<1>4. CASE Open(q)
  <2>1. /\ Others(q) /\ v.ent = u.ent /\ v.temp = u.temp /\ v.got = u.got
        /\ UNCHANGED <<now, edit, row, disk>> /\ imp'.oai = imp.oai
    BY <1>4, OpenEffect DEF bounds, Kin
  <2> QED BY <1>0, <1>a, <2>1
<1>5. CASE SetRepositorio(q)
  <2>1. /\ Others(q) /\ v.ent = u.ent /\ v.temp = u.temp /\ v.got = u.got
        /\ UNCHANGED <<now, edit, row, disk>> /\ imp'.oai = imp.oai
    BY <1>5, SetRepositorioEffect DEF bounds, Kin
  <2> QED BY <1>0, <1>a, <2>1
<1>6. CASE Parse(q)
  <2>1. u.pc = "parse" /\ UNCHANGED <<now, edit, row, disk>>
    BY <1>6, ParseEffect DEF bounds
  <2>2. CASE Over(q)
    BY <1>0, <1>b, <2>1, <2>2
  <2>3. CASE /\ Others(q) /\ v.ent = u.ent /\ v.temp = u.temp /\ v.got = u.got
             /\ imp'.oai = disk[imp.file]
    BY <1>0, <1>a, <2>1, <2>3
  <2> QED BY <1>6, <2>2, <2>3, ParseEffect DEF Kin
<1>7. CASE Save(q)
  <2>1. UNCHANGED <<now, edit, row, disk>>
    BY <1>7, SaveEffect DEF bounds
  <2>2. CASE Over(q)
    BY <1>0, <1>b, <2>1, <2>2
  <2>3. CASE /\ Others(q) /\ v.ent = u.ent /\ v.temp = u.temp /\ v.got = u.got /\ imp' = imp
    BY <1>0, <1>a, <2>1, <2>3
  <2> QED BY <1>7, <2>2, <2>3, SaveEffect DEF Kin
<1>8. CASE Insert(q)
  <2>1. UNCHANGED <<now, edit, row, disk>>
    BY <1>8, InsertEffect DEF bounds
  <2>2. CASE Over(q)
    BY <1>0, <1>b, <2>1, <2>2
  <2>3. CASE /\ Others(q) /\ v.ent = u.ent /\ v.temp = u.temp /\ v.got = u.got /\ imp' = imp
    BY <1>0, <1>a, <2>1, <2>3
  <2> QED BY <1>8, <2>2, <2>3, InsertEffect DEF Kin
<1>9. CASE SetDataXmlTemp(q)
  <2>1. \A p \in Requests : Dated(p)'
    BY <1>0, <1>9, SetDataXmlTempEffect DEF DInv, Dated, Kin, bounds
  <2> QED BY <1>9, <2>1, SetDataXmlTempEffect DEF DInv, bounds, store
<1>10. CASE End(q)
  <2>1. Over(q) /\ UNCHANGED <<now, edit, disk>>
    BY <1>10, EndEffect DEF bounds
  <2>2. \A r \in Repos : row'[r].dataXml <= now
    BY <1>0, <1>10, EndEffect
  <2> QED BY <1>b, <2>1, <2>2
<1>11. CASE EndGone(q) \/ UpdateFails(q)
  BY <1>0, <1>11, <1>b, FailEffect
<1> QED BY <1>1, <1>2, <1>3, <1>4, <1>5, <1>6, <1>7, <1>8, <1>9, <1>10, <1>11

LEMMA DInvStep == DInv /\ TInv /\ [Next]_vars => DInv'
<1> SUFFICES ASSUME DInv, TInv, [Next]_vars PROVE DInv'
  OBVIOUS
<1>1. CASE UNCHANGED vars
  BY <1>1 DEF DInv, Dated, vars
<1> QED BY <1>1, DInvEnvironment, DInvUpdate DEF Next
-----------------------------------------------------------------------------
(* What was harvested *)

LEMMA GInvInit == Init => GInv
BY DEF Init, GInv, Faithful, Past, Idle

\* What was harvested is as it was while the provider changes nothing.
LEMMA HarvestedStays ==
  ASSUME NEW q \in Requests, prov' = prov, Harvested(req[q]),
         req'[q].got = req[q].got, req'[q].rep = req[q].rep, req'[q].ent = req[q].ent
  PROVE  Harvested(req[q])'
BY DEF Harvested

\* An update that moves on with what it harvested.
LEMMA FaithfulStays ==
  ASSUME NEW q \in Requests, prov' = prov, Faithful(q),
         req'[q].got = req[q].got, req'[q].rep = req[q].rep, req'[q].ent = req[q].ent,
         req'[q].full = req[q].full,
         Past(q, {"wipe", "empty", "fetch"})' => Past(q, {"wipe", "empty", "fetch"}),
         req'[q].pc \notin {"save", "insert", "end"} => req'[q].i = 1
  PROVE  Faithful(q)'
<1>1. CASE Past(q, {"wipe", "empty", "fetch"})'
  BY <1>1, HarvestedStays DEF Faithful
<1>2. CASE ~Past(q, {"wipe", "empty", "fetch"})'
  BY <1>2 DEF Faithful
<1> QED BY <1>1, <1>2

\* A provider changes a record that was harvested, or that was not.
LEMMA HarvestedChange ==
  ASSUME TInv, DInv, NEW c \in Ids, Change(c),
         NEW q \in Requests, req[q].pc # "idle", Harvested(req[q])
  PROVE  Harvested(req[q])'
<1> DEFINE u == req[q]
<1>0. /\ req' = req /\ prov' = [prov EXCEPT ![c] = [ver |-> @.ver + 1, stamp |-> now]]
      /\ prov \in [Ids -> Rec] /\ now \in Nat
      /\ u.ent.dataXml <= now /\ u.got.date <= now
  BY Typed DEF Change, store, DInv, Dated
<1>1. \A id \in Ids : prov'[id] = prov[id] \/ prov'[id].stamp = now
  BY <1>0
<1>2. \A id \in Ids : prov[id].stamp \in Nat
  BY <1>0 DEF Rec
<1>3. \A id \in Owned(u.rep) : id \in Ids
  BY OwnedIds, TypedRequest
<1> QED BY <1>0, <1>1, <1>2, <1>3 DEF Harvested
LEMMA GInvEnvironment ==
  ASSUME GInv, TInv, DInv,
         \/ Tick \/ EditSave \/ Crash
         \/ \E id \in Ids : Change(id)
         \/ \E r \in Repos : EditRead(r) \/ Delete(r) \/ Register(r)
         \/ \E q \in Requests, r \in Repos, apagar \in BOOLEAN : Begin(q, r, apagar)
  PROVE  GInv'
<1>a. ASSUME UNCHANGED <<prov, req>> PROVE GInv'
  BY <1>a DEF GInv, Faithful, Past, Harvested
<1>b. ASSUME NEW q \in Requests, prov' = prov, req'[q] = [req[q] EXCEPT !.alone = FALSE]
      PROVE  Faithful(q)'
  <2>1. /\ req'[q].got = req[q].got /\ req'[q].rep = req[q].rep /\ req'[q].ent = req[q].ent
        /\ req'[q].full = req[q].full /\ req'[q].pc = req[q].pc /\ req'[q].i = req[q].i
    BY <1>b, TypedRequest DEF Update
  <2> QED BY <1>b, <2>1, FaithfulStays DEF GInv, Faithful, Past
<1>1. CASE Tick \/ EditSave \/ \E r \in Repos : Register(r)
  BY <1>1, <1>a DEF Tick, EditSave, Register, bounds
<1>2. CASE Crash
  BY <1>2 DEF Crash, GInv, Faithful, Past, Idle
<1>3. ASSUME NEW c \in Ids, Change(c) PROVE GInv'
  <2>1. req' = req
    BY <1>3 DEF Change
  <2>2. ASSUME NEW q \in Requests PROVE Faithful(q)'
    BY <1>3, <2>1, HarvestedChange DEF GInv, Faithful, Past
  <2> QED BY <2>2 DEF GInv
<1>4. ASSUME NEW r \in Repos, EditRead(r) \/ Delete(r) PROVE GInv'
  BY <1>4, <1>b DEF EditRead, Delete, GInv
<1>5. ASSUME NEW q \in Requests, NEW r \in Repos, NEW apagar \in BOOLEAN, Begin(q, r, apagar)
      PROVE  GInv'
  <2>1. prov' = prov /\ \A p \in Requests : p # q => req'[p] = [req[p] EXCEPT !.alone = FALSE]
    BY Zenon, <1>5 DEF Begin
  <2>2. req'[q].pc = "wipe" /\ req'[q].i = 1 /\ req'[q].full = FALSE
    BY ZenonT(40), <1>5, BeginEffect
  <2>3. Faithful(q)'
    BY <2>2 DEF Faithful, Past
  <2> QED BY Zenon, <1>b, <2>1, <2>3 DEF GInv
<1> QED BY <1>1, <1>2, <1>3, <1>4, <1>5

LEMMA GInvUpdate ==
  ASSUME GInv, TInv, DInv, NEW q \in Requests,
         \/ Wipe(q) \/ Empty(q) \/ Fetch(q) \/ Open(q) \/ SetRepositorio(q) \/ Parse(q)
         \/ Save(q) \/ Insert(q) \/ SetDataXmlTemp(q) \/ End(q) \/ EndGone(q) \/ UpdateFails(q)
  PROVE  GInv'
<1> DEFINE u == req[q]
           v == req'[q]
<1>a. ASSUME prov' = prov, Others(q), Faithful(q)' PROVE GInv'
  <2>1. ASSUME NEW p \in Requests, p # q PROVE Faithful(p)'
    <3>1. req'[p] = req[p]
      BY <1>a, <2>1 DEF Others
    <3> QED BY <1>a, <3>1, FaithfulStays DEF GInv, Faithful, Past
  <2> QED BY <1>a, <2>1 DEF GInv
<1>b. ASSUME prov' = prov, Over(q) PROVE GInv'
  <2>1. Faithful(q)'
    BY <1>b DEF Over, Faithful, Past, Idle
  <2> QED BY <1>a, <1>b, <2>1 DEF Over
\* A step of an update that has harvested.
<1>c. ASSUME prov' = prov, Others(q), Kin(v, u), v.got = u.got,
             Past(q, {"wipe", "empty", "fetch"}),
             v.pc \in {"save", "insert", "end"} \/ (v.i = u.i /\ u.i = 1)
      PROVE  GInv'
  <2>1. Faithful(q)'
    BY <1>c, FaithfulStays DEF GInv, Kin
  <2> QED BY <1>a, <1>c, <2>1
<1>0. /\ Faithful(q)
      /\ u.pc \in {"open", "rep", "parse", "save", "insert", "end"} => Past(q, {"wipe", "empty", "fetch"})
  BY DEF GInv, Past, Steps
<1>1. CASE Wipe(q)
  <2>1. /\ u.pc = "wipe" /\ v.pc = "empty" /\ Others(q) /\ v.ent = u.ent /\ v.i = u.i
        /\ u.ent.dataXml = NoDate \/ v.full = u.full
        /\ prov' = prov
    BY <1>1, WipeEffect DEF bounds
  <2>2. Faithful(q)'
    BY <1>0, <2>1 DEF Faithful, Past
  <2> QED BY <1>a, <2>1, <2>2
<1>2. CASE Empty(q)
  <2>1. u.pc = "empty" /\ v.pc = "fetch" /\ Others(q) /\ Kin(v, u) /\ v.i = u.i /\ prov' = prov
    BY <1>2, EmptyEffect DEF bounds
  <2>2. Faithful(q)'
    BY <1>0, <2>1 DEF Faithful, Past, Kin
  <2> QED BY <1>a, <2>1, <2>2
<1>3. CASE Fetch(q)
  <2> DEFINE answer == Response(u.rep, u.ent.dataXml)
  <2>1. /\ u.pc = "fetch" /\ v.pc = "open" /\ Others(q) /\ Kin(v, u) /\ v.i = u.i /\ prov' = prov
        /\ v.got = answer
    BY <1>3, FetchEffect DEF bounds
  <2>2. /\ u.rep \in Repos /\ u.ent.dataXml \in Nat /\ now \in Nat /\ prov \in [Ids -> Rec]
        /\ 1 <= now /\ u.ent.dataXml <= now
    BY <2>1, Typed, TypedRequest DEF Row, DInv, Dated
  <2>3. /\ answer.date = now
        /\ \A i \in 1..Len(answer.recs) :
             LET x == answer.recs[i]
             IN  /\ x.id \in Owned(u.rep) /\ prov[x.id].stamp >= u.ent.dataXml
                 /\ x.ver = prov[x.id].ver
        /\ \A i, j \in 1..Len(answer.recs) : answer.recs[i].id = answer.recs[j].id => i = j
        /\ \A id \in Owned(u.rep) : prov[id].stamp >= u.ent.dataXml =>
             \E i \in 1..Len(answer.recs) : answer.recs[i].id = id
    BY <2>2, ResponseIs
  <2> HIDE DEF answer
  <2>4. \A id \in Owned(u.rep) : prov[id].stamp \in Nat
    BY <2>2, OwnedIds DEF Rec
  <2>5. v.rep = u.rep /\ v.ent = u.ent /\ v.full = u.full
    BY <2>1 DEF Kin
  <2>6. Harvested(req[q])'
    <3>1. /\ 1 <= answer.date /\ u.ent.dataXml <= answer.date
          /\ \A i \in 1..Len(answer.recs) :
               LET x == answer.recs[i]
               IN  /\ x.id \in Owned(u.rep)
                   /\ prov[x.id].stamp >= u.ent.dataXml
                   /\ x.ver = prov[x.id].ver \/ prov[x.id].stamp >= answer.date
          /\ \A id \in Owned(u.rep) :
               \/ prov[id].stamp < u.ent.dataXml
               \/ prov[id].stamp >= answer.date
               \/ \E i \in 1..Len(answer.recs) : answer.recs[i].id = id
      BY <2>2, <2>3, <2>4
    <3> QED BY <2>1, <2>3, <2>5, <3>1 DEF Harvested
  <2>7. Faithful(q)'
    BY <1>0, <2>1, <2>5, <2>6 DEF Faithful
  <2> QED BY <1>a, <2>1, <2>7
<1>4. CASE Open(q) \/ SetRepositorio(q)
  <2>1. /\ u.pc \in {"open", "rep"} /\ Others(q) /\ Kin(v, u) /\ v.got = u.got /\ v.i = u.i
        /\ prov' = prov
    BY <1>4, OpenEffect, SetRepositorioEffect DEF bounds
  <2> QED BY <1>0, <1>c, <2>1 DEF Faithful
<1>5. CASE Parse(q)
  <2>1. u.pc = "parse" /\ prov' = prov
    BY <1>5, ParseEffect DEF bounds
  <2>2. Over(q) \/ (Others(q) /\ Kin(v, u) /\ v.got = u.got /\ v.i = u.i)
    BY <1>5, ParseEffect
  <2> QED BY <1>0, <1>b, <1>c, <2>1, <2>2 DEF Faithful
<1>6. CASE Save(q)
  <2>1. u.pc = "save" /\ prov' = prov
    BY <1>6, SaveEffect DEF bounds
  <2>2. Over(q) \/ (Others(q) /\ Kin(v, u) /\ v.got = u.got /\ v.pc \in {"save", "insert"})
    BY <1>6, SaveEffect
  <2> QED BY <1>0, <1>b, <1>c, <2>1, <2>2
<1>7. CASE Insert(q)
  <2>1. u.pc = "insert" /\ prov' = prov
    BY <1>7, InsertEffect DEF bounds
  <2>2. Over(q) \/ (Others(q) /\ Kin(v, u) /\ v.got = u.got /\ v.pc = "save")
    BY <1>7, InsertEffect
  <2> QED BY <1>0, <1>b, <1>c, <2>1, <2>2
<1>8. CASE SetDataXmlTemp(q)
  <2>1. u.pc = "save" /\ prov' = prov
    BY <1>8, SetDataXmlTempEffect DEF bounds
  <2>2. ASSUME NEW p \in Requests PROVE Faithful(p)'
    <3>1. /\ Kin(req'[p], req[p]) /\ req'[p].got = req[p].got /\ req'[p].i = req[p].i
          /\ req'[p].pc = IF p = q THEN "end" ELSE req[p].pc
      BY <1>8, SetDataXmlTempEffect
    <3> QED BY <1>0, <2>1, <3>1, FaithfulStays DEF GInv, Faithful, Past, Kin
  <2> QED BY <2>2 DEF GInv
<1>9. CASE End(q)
  BY <1>9, <1>b, EndEffect DEF bounds
<1>10. CASE EndGone(q) \/ UpdateFails(q)
  BY <1>10, <1>b, FailEffect
<1> QED BY <1>1, <1>2, <1>3, <1>4, <1>5, <1>6, <1>7, <1>8, <1>9, <1>10

LEMMA GInvStep == GInv /\ TInv /\ DInv /\ [Next]_vars => GInv'
<1> SUFFICES ASSUME GInv, TInv, DInv, [Next]_vars PROVE GInv'
  OBVIOUS
<1>1. CASE UNCHANGED vars
  BY <1>1 DEF GInv, Faithful, Past, Harvested, vars
<1> QED BY <1>1, GInvEnvironment, GInvUpdate DEF Next
-----------------------------------------------------------------------------
(* Requests that nothing disturbs *)

LEMMA QInvInit == Init => QInv
BY DEF Init, QInv, Quiet, Sound, Idle

LEMMA QInvSame ==
  ASSUME QInv, UNCHANGED <<docs, row, disk, imp, req, edit, solid>>
  PROVE  QInv'
BY DEF QInv, Quiet, Sound, Undisturbed, OwnThings, OwnRow, StoredUpTo, Running

\* What is stored of a harvest stays while nobody touches it.
LEMMA StoredStays ==
  ASSUME NEW q \in Requests, NEW n \in Nat, StoredUpTo(req[q], n), req'[q].got = req[q].got,
         \A i \in 1..n : docs'[req[q].got.recs[i].id] = docs[req[q].got.recs[i].id]
  PROVE  \A i \in 1..n : \E d \in docs'[req'[q].got.recs[i].id] :
           docs'[req'[q].got.recs[i].id] = {d} /\ d.ver = req'[q].got.recs[i].ver
<1> SUFFICES ASSUME NEW i \in 1..n
             PROVE  \E d \in docs'[req[q].got.recs[i].id] :
                      /\ docs'[req[q].got.recs[i].id] = {d}
                      /\ d.ver = req[q].got.recs[i].ver
  BY DEF StoredUpTo
<1>1. PICK d \in docs[req[q].got.recs[i].id] :
        docs[req[q].got.recs[i].id] = {d} /\ d.ver = req[q].got.recs[i].ver
  BY DEF StoredUpTo
<1> QED BY <1>1

\* With no request that is quiet nothing is left to show of the requests.
LEMMA NobodyQuiet ==
  ASSUME \A q \in Requests : ~Quiet(q)' /\ (req'[q].alone => req'[q].pc # "idle"),
         (solid # {} /\ edit # NoEdit =>
            /\ Running = {}
            /\ row[edit.rep].key = edit.old.key => row[edit.rep] = edit.old)'
  PROVE  QInv'
BY DEF QInv, Sound

LEMMA QInvEnvironment ==
  ASSUME QInv, SInv, GInv, KInv, TInv, TInv',
         \/ Tick \/ EditSave \/ Crash
         \/ \E id \in Ids : Change(id)
         \/ \E r \in Repos : EditRead(r) \/ Delete(r) \/ Register(r)
         \/ \E q \in Requests, r \in Repos, apagar \in BOOLEAN : Begin(q, r, apagar)
  PROVE  QInv'
<1>0. /\ row \in [Repos -> Row] /\ docs \in [Ids -> SUBSET Doc] /\ keys \in [Repos -> Nat]
      /\ solid \subseteq Repos /\ edit.old \in Row /\ (edit # NoEdit => edit.rep \in Repos)
  BY Typed
\* Neither edits nor deletions change the step of a request.
<1>a. ASSUME NEW q \in Requests, req'[q] = [req[q] EXCEPT !.alone = FALSE]
      PROVE  /\ req'[q].pc = req[q].pc /\ req'[q].rep = req[q].rep /\ req'[q].ent = req[q].ent
             /\ req'[q].got = req[q].got /\ req'[q].i = req[q].i /\ req'[q].new = req[q].new
             /\ req'[q].dirty = req[q].dirty /\ req'[q].temp = req[q].temp
             /\ req'[q].alone = FALSE
  BY <1>a, TypedRequest DEF Update
<1>1. CASE Tick \/ \E id \in Ids : Change(id)
  BY <1>1, QInvSame DEF Tick, Change, store
<1>2. CASE EditSave
  <2>1. edit # NoEdit /\ edit' = NoEdit /\ UNCHANGED <<req, solid>>
    BY <1>2 DEF EditSave
  <2>2. \A q \in Requests : ~Quiet(q)
    BY <2>1 DEF QInv, Undisturbed, Quiet, Running
  <2> QED BY <2>1, <2>2, NobodyQuiet DEF QInv, Quiet
<1>3. CASE Crash
  BY <1>3, NobodyQuiet DEF Crash, Quiet, Idle
<1>4. ASSUME NEW r \in Repos, EditRead(r) PROVE QInv'
  <2>1. /\ \A q \in Requests : req'[q].pc = req[q].pc /\ req'[q].alone = FALSE
        /\ Running = {} \/ solid' = {}
        /\ edit' = [rep |-> r, old |-> row[r]] /\ row' = row
    BY <1>4, <1>a DEF EditRead, store
  <2>2. Running' = Running
    BY <2>1 DEF Running
  <2> QED BY <2>1, <2>2, NobodyQuiet DEF Quiet, Running
<1>5. ASSUME NEW r \in Repos, Delete(r) PROVE QInv'
  <2>1. /\ row' = [row EXCEPT ![r] = NoRow] /\ solid' = solid \ {r}
        /\ docs' = [id \in Ids |-> {d \in docs[id] : d.owner # r}]
        /\ UNCHANGED <<disk, imp, edit>>
        /\ \A q \in Requests : req'[q] = [req[q] EXCEPT !.alone = FALSE]
    BY <1>5 DEF Delete
  <2>2. Running' = Running
    BY <2>1, <1>a DEF Running
  <2>3. ASSUME solid' # {}, edit' # NoEdit
        PROVE  /\ Running' = {}
               /\ row'[edit'.rep].key = edit'.old.key => row'[edit'.rep] = edit'.old
    <3>1. edit.old.key # NoKey /\ NoRow.key = NoKey
      BY <2>1, <2>3 DEF KInv, NoRow, NewRow
    <3> QED BY <1>0, <2>1, <2>2, <2>3, <3>1 DEF QInv
  <2>4. ASSUME NEW q \in Requests, Quiet(q)'
        PROVE  Undisturbed(q)' /\ OwnThings(q)' /\ (Sound(q)' => OwnRow(q)')
    <3>1. Quiet(q)
      BY <1>a, <2>1, <2>4 DEF Quiet
    <3>2. Undisturbed(q)'
      BY ZenonT(40), <1>a, <2>1, <3>1 DEF QInv, Undisturbed
    <3>3. OwnThings(q)'
      <4>1. OwnThings(q)
        BY <3>1 DEF QInv
      <4>2. req[q].pc = "insert" => docs'[req[q].new[1]] = {}
        BY <2>1, <4>1, TypedRequest DEF OwnThings
      <4> QED BY <1>a, <2>1, <4>1, <4>2 DEF OwnThings
    <3>4. ASSUME Sound(q)' PROVE OwnRow(q)'
      <4>1. Sound(q) /\ req[q].rep \in solid /\ req[q].rep # r /\ req[q].pc # "idle"
        BY <1>a, <2>1, <3>1, <3>4 DEF Sound, Quiet
      <4>2. OwnRow(q)
        BY <4>1 DEF QInv
      <4>3. row'[req[q].rep] = row[req[q].rep]
        BY <1>0, <2>1, <4>1
      <4>4. \A id \in Owned(req[q].rep) : docs'[id] = docs[id]
        <5>1. \A id \in Owned(req[q].rep) : \A d \in docs[id] : d.owner # r
          BY <4>1 DEF SInv
        <5> QED BY <1>0, <2>1, <4>1, <5>1, OwnedIds
      <4> DEFINE recs == req[q].got.recs
      <4>5. req[q].got \in File /\ req[q].i \in Nat \ {0}
        BY TypedRequest
      <4>6. Len(recs) \in Nat
        BY <4>5, LenProperties DEF File
      <4>7. CASE req[q].pc \in {"save", "insert", "end"}
        <5>1. \A i \in 1..Len(recs) : recs[i].id \in Owned(req[q].rep)
          BY <4>7 DEF GInv, Faithful, Past, Harvested, Steps
        <5>2. \A i \in 1..Len(recs) : docs'[recs[i].id] = docs[recs[i].id]
          BY <4>4, <5>1
        <5>3. \A i \in 1..(req[q].i - 1) :
                req[q].i <= Len(recs) + 1 => docs'[recs[i].id] = docs[recs[i].id]
          BY <4>5, <4>6, <5>2
        <5>4. /\ req'[q].pc = req[q].pc /\ req'[q].rep = req[q].rep /\ req'[q].ent = req[q].ent
              /\ req'[q].got = req[q].got /\ req'[q].i = req[q].i /\ req'[q].dirty = req[q].dirty
          BY <1>a, <2>1
        <5>5. CASE req[q].pc \in {"save", "insert"}
          <6>1. /\ req[q].i <= Len(recs) + 1 /\ StoredUpTo(req[q], req[q].i - 1)
                /\ req[q].i - 1 \in Nat
            BY <4>2, <4>5, <5>5 DEF OwnRow
          <6>2. \A i \in 1..(req[q].i - 1) : \E d \in docs'[req'[q].got.recs[i].id] :
                  docs'[req'[q].got.recs[i].id] = {d} /\ d.ver = req'[q].got.recs[i].ver
            BY <5>3, <5>4, <6>1, StoredStays
          <6>3. StoredUpTo(req[q], req[q].i - 1)'
            BY <5>4, <6>2 DEF StoredUpTo
          <6> QED BY <4>2, <4>3, <5>4, <5>5, <6>1, <6>3 DEF OwnRow
        <5>6. CASE req[q].pc = "end"
          <6>1. StoredUpTo(req[q], Len(recs))
            BY <4>2, <5>6 DEF OwnRow
          <6>2. \A i \in 1..Len(recs) : \E d \in docs'[req'[q].got.recs[i].id] :
                  docs'[req'[q].got.recs[i].id] = {d} /\ d.ver = req'[q].got.recs[i].ver
            BY <4>6, <5>2, <5>4, <6>1, StoredStays
          <6>3. StoredUpTo(req[q], Len(req[q].got.recs))'
            BY <5>4, <6>2 DEF StoredUpTo
          <6> QED BY <4>2, <4>3, <5>4, <5>6, <6>3 DEF OwnRow
        <5> QED BY <4>7, <5>5, <5>6
      <4>8. CASE req[q].pc \notin {"save", "insert", "end"}
        BY <1>a, <2>1, <4>2, <4>3, <4>8 DEF OwnRow
      <4> QED BY <4>7, <4>8
    <3> QED BY <3>2, <3>3, <3>4
  <2>5. \A q \in Requests : ~req'[q].alone
    BY <1>a, <2>1
  <2> QED BY <2>3, <2>4, <2>5 DEF QInv, Sound
<1>6. ASSUME NEW r \in Repos, Register(r) PROVE QInv'
  <2>1. /\ row[r].key = NoKey /\ \A s \in Repos : s # r => row'[s] = row[s]
        /\ row'[r].key = keys[r] + 1
        /\ UNCHANGED <<docs, disk, imp, req, edit, solid>>
    BY <1>0, <1>6 DEF Register, NewRow
  <2>2. ASSUME NEW q \in Requests, Sound(q) PROVE OwnRow(q)'
    <3>1. OwnRow(q) /\ req[q].pc # "idle" /\ req[q].ent.key # NoKey /\ req[q].rep \in Repos
      BY <2>2, TypedRequest DEF QInv, Sound, Quiet, KInv, Keyed
    <3>2. row'[req[q].rep] = row[req[q].rep]
      BY <2>1, <3>1 DEF OwnRow
    <3> QED BY ZenonT(40), <2>1, <3>1, <3>2 DEF OwnRow, StoredUpTo
  <2>3. ASSUME solid # {}, edit # NoEdit, row'[edit.rep].key = edit.old.key
        PROVE  row'[edit.rep] = edit.old
    <3>1. edit.old.key <= keys[edit.rep] /\ edit.old.key \in Nat
      BY <1>0, <2>3 DEF KInv, Row
    <3> QED BY <1>0, <2>1, <2>3, <3>1 DEF QInv
  <2> QED BY <2>1, <2>2, <2>3 DEF QInv, Quiet, Sound, Undisturbed, OwnThings, Running
<1>7. ASSUME NEW q \in Requests, NEW r \in Repos, NEW apagar \in BOOLEAN, Begin(q, r, apagar)
      PROVE  QInv'
  <2> DEFINE alone == Running = {} /\ edit = NoEdit
  <2>1. /\ \A p \in Requests : p # q => req'[p] = [req[p] EXCEPT !.alone = FALSE]
        /\ solid' = IF alone THEN solid ELSE {}
        /\ UNCHANGED <<docs, row, disk, imp, edit>>
    BY Zenon, <1>7 DEF Begin, store
  <2>2. /\ req'[q].pc = "wipe" /\ req'[q].rep = r /\ req'[q].alone = alone
        /\ req'[q].ent.key = row[r].key /\ req'[q].ent.form = row[r].form
        /\ \/ req'[q].ent = row[r] /\ req'[q].dirty = FALSE
           \/ /\ req'[q].ent.ultima = FALSE /\ req'[q].ent.dataXml = NoDate
              /\ req'[q].dirty = TRUE
    BY ZenonT(40), <1>7, BeginEffect
  <2>3. \A p \in Requests : p # q => ~req'[p].alone /\ req'[p].pc = req[p].pc
    BY <1>a, <2>1
  <2>4. CASE alone
    <3>1. Undisturbed(q)' /\ OwnThings(q)' /\ OwnRow(q)'
      <4>1. Undisturbed(q)'
        BY <2>1, <2>3, <2>4 DEF Undisturbed, Running
      <4>2. OwnThings(q)'
        BY <2>2 DEF OwnThings
      <4>3. OwnRow(q)'
        BY <2>1, <2>2 DEF OwnRow
      <4> QED BY <4>1, <4>2, <4>3
    <3>2. \A p \in Requests : p # q => ~Quiet(p)'
      BY <2>3, <2>4 DEF Quiet, Running
    <3> QED BY <2>1, <2>2, <2>3, <2>4, <3>1, <3>2 DEF QInv, Sound
  <2>5. CASE ~alone
    <3>1. solid' = {} /\ \A p \in Requests : ~req'[p].alone
      BY <2>1, <2>2, <2>3, <2>5
    <3> QED BY <3>1, NobodyQuiet DEF Quiet
  <2> QED BY <2>4, <2>5
<1> QED BY <1>1, <1>2, <1>3, <1>4, <1>5, <1>6, <1>7
\* What is left to show of a step of a request: what it does to its own things.
LEMMA QInvFrame ==
  ASSUME QInv, NEW q \in Requests, req[q].pc # "idle", edit' = edit,
         ~Quiet(q) => solid' = solid,
         \A p \in Requests : p # q => req'[p].pc = req[p].pc /\ req'[p].alone = req[p].alone,
         req'[q].pc = "idle" => ~req'[q].alone,
         req'[q].pc # "idle" => req'[q].alone = req[q].alone,
         Quiet(q) /\ req'[q].pc # "idle" => OwnThings(q)' /\ (Sound(q)' => OwnRow(q)')
  PROVE  QInv'
<1>1. CASE Quiet(q)
  <2>1. Undisturbed(q)
    BY <1>1 DEF QInv
  <2>2. Undisturbed(q)' /\ edit' = NoEdit
    BY <2>1 DEF Undisturbed
  <2>3. \A p \in Requests : p # q => req'[p].pc = "idle" /\ ~req'[p].alone
    BY <2>1 DEF Undisturbed, QInv
  <2>4. \A p \in Requests : req'[p].alone => req'[p].pc # "idle"
    BY <2>3
  <2>5. ASSUME NEW p \in Requests, Quiet(p)' PROVE p = q /\ req'[q].pc # "idle"
    BY <2>3, <2>5 DEF Quiet
  <2> QED BY <1>1, <2>2, <2>4, <2>5 DEF QInv, Sound
<1>2. CASE ~Quiet(q)
  <2>1. solid' = {} /\ ~req[q].alone
    BY <1>2 DEF Quiet
  <2>2. \A p \in Requests : p # q => ~req[p].alone
    BY DEF QInv, Quiet, Undisturbed
  <2>3. \A p \in Requests : ~req'[p].alone
    BY <2>1, <2>2
  <2> QED BY <2>1, <2>3, NobodyQuiet DEF Quiet
<1> QED BY <1>1, <1>2

\* A record that is saved is stored, and those saved before it stay.
LEMMA OneMoreStored ==
  ASSUME TInv, GInv, NEW q \in Requests,
         req[q].pc \in {"save", "insert"}, req[q].i \in 1..Len(req[q].got.recs),
         StoredUpTo(req[q], req[q].i - 1),
         \E e \in docs'[req[q].got.recs[req[q].i].id] :
           docs'[req[q].got.recs[req[q].i].id] = {e} /\ e.ver = req[q].got.recs[req[q].i].ver,
         \A id \in Ids : id # req[q].got.recs[req[q].i].id => docs'[id] = docs[id]
  PROVE  \A i \in 1..req[q].i : \E d \in docs'[req[q].got.recs[i].id] :
           docs'[req[q].got.recs[i].id] = {d} /\ d.ver = req[q].got.recs[i].ver
<1> DEFINE recs == req[q].got.recs
           n == req[q].i
<1>1. recs \in Seq([id : Ids, ver : Nat]) /\ Len(recs) \in Nat /\ n \in Nat
  BY ZenonT(40), TypedRequest, LenProperties DEF File
<1>2. \A i, j \in 1..Len(recs) : recs[i].id = recs[j].id => i = j
  BY Zenon DEF GInv, Faithful, Past, Harvested, Steps
<1>3. \A i \in 1..Len(recs) : recs[i].id \in Ids
  <2>1. \A i \in 1..Len(recs) : recs[i] \in [id : Ids, ver : Nat]
    BY <1>1, ElementOfSeq
  <2> QED BY <2>1
<1>4. ASSUME NEW i \in 1..n
      PROVE  \E d \in docs'[recs[i].id] : docs'[recs[i].id] = {d} /\ d.ver = recs[i].ver
  <2>1. CASE i = n
    BY <2>1
  <2>2. CASE i # n
    <3>1. i \in 1..(n - 1) /\ i \in 1..Len(recs)
      BY <1>1, <2>2
    <3>2. docs'[recs[i].id] = docs[recs[i].id]
      BY <1>2, <1>3, <2>2, <3>1
    <3> QED BY ZenonT(40), <3>1, <3>2 DEF StoredUpTo
  <2> QED BY <2>1, <2>2
<1> QED BY <1>4

LEMMA QInvUpdate ==
  ASSUME QInv, GInv, KInv, TInv, TInv', NEW q \in Requests,
         \/ Wipe(q) \/ Empty(q) \/ Fetch(q) \/ Open(q) \/ SetRepositorio(q) \/ Parse(q)
         \/ Save(q) \/ Insert(q) \/ SetDataXmlTemp(q) \/ End(q) \/ EndGone(q) \/ UpdateFails(q)
  PROVE  QInv'
<1> DEFINE u == req[q]
           v == req'[q]
<1>0. /\ u.got \in File /\ u.i \in Nat \ {0} /\ Len(u.got.recs) \in Nat
      /\ u.pc # "idle" => u.rep \in Repos
      /\ imp.oai \in File /\ docs \in [Ids -> SUBSET Doc] /\ row \in [Repos -> Row]
      /\ disk \in [Repos -> File]
  BY Typed, TypedRequest, LenProperties DEF File
<1>o. Quiet(q) => OwnThings(q)
  BY DEF QInv
<1>r. Sound(q) => OwnRow(q)
  BY DEF QInv
\* A step that leaves the tables alone and saves nothing.
<1>a. ASSUME u.pc # "idle", u.pc # "wipe", Others(q), Kin(v, u), v.got = u.got \/ v.pc = "open",
             UNCHANGED <<edit, solid, docs, row>>,
             v.pc \in {"empty", "fetch", "open", "rep", "parse"},
             Quiet(q) => OwnThings(q)'
      PROVE  QInv'
  <2>1. /\ v.rep = u.rep /\ v.ent = u.ent /\ v.alone = u.alone /\ v.dirty = u.dirty
      BY <1>a DEF Kin
  <2>2. ASSUME Sound(q)' PROVE OwnRow(q)'
    <3>1. Sound(q)
      BY <1>a, <2>1, <2>2 DEF Sound, Quiet
    <3> QED BY <1>a, <1>r, <2>1, <3>1 DEF OwnRow
  <2> QED BY <1>a, <2>1, <2>2, QInvFrame DEF Others
\* A step with which the update ends.
<1>b. ASSUME u.pc # "idle", Over(q), edit' = edit, ~Quiet(q) => solid' = solid PROVE QInv'
  <2>1. v.pc = "idle" /\ ~v.alone
    BY <1>b DEF Over, Idle
  <2> QED BY <1>b, <2>1, QInvFrame DEF Over, Others
<1>1. CASE Wipe(q)
  <2>1. /\ u.pc = "wipe" /\ v.pc = "empty" /\ Others(q)
        /\ v.rep = u.rep /\ v.ent = u.ent /\ v.alone = u.alone /\ UNCHANGED <<edit, solid>>
    BY <1>1, WipeEffect DEF bounds
  <2>2. OwnThings(q)'
    BY <2>1 DEF OwnThings
  <2>3. ASSUME Sound(q)' PROVE OwnRow(q)'
    <3>1. OwnRow(q) /\ ~Gone(u) /\ u.rep \in Repos
      BY <1>0, <1>r, <2>1, <2>3 DEF Sound, Quiet, OwnRow, Gone
    <3>2. CASE /\ ~u.ent.ultima /\ u.ent.dataXml = NoDate /\ ~v.dirty
               /\ row' = IF u.dirty THEN [row EXCEPT ![u.rep] = u.ent] ELSE row
      <4>1. row'[u.rep] = u.ent
        BY <1>0, <2>1, <3>1, <3>2 DEF OwnRow
      <4> QED BY <2>1, <3>2, <4>1 DEF OwnRow
    <3>3. CASE ~(~u.ent.ultima /\ u.ent.dataXml = NoDate) /\ row' = row /\ v.dirty = u.dirty
      BY <2>1, <3>1, <3>3 DEF OwnRow
    <3> QED BY <1>1, <3>1, <3>2, <3>3, WipeEffect
  <2> QED BY <2>1, <2>2, <2>3, QInvFrame DEF Others
<1>2. CASE Empty(q)
  <2>1. /\ u.pc = "empty" /\ v.pc = "fetch" /\ Others(q) /\ Kin(v, u) /\ v.got = u.got
        /\ UNCHANGED <<edit, solid, docs, row>>
    BY <1>2, EmptyEffect DEF bounds
  <2>2. OwnThings(q)'
    BY <2>1 DEF OwnThings
  <2> QED BY <1>a, <2>1, <2>2
<1>3. CASE Fetch(q)
  <2> DEFINE answer == Response(u.rep, u.ent.dataXml)
  <2>1. /\ u.pc = "fetch" /\ v.pc = "open" /\ Others(q) /\ Kin(v, u) /\ v.got = answer
        /\ disk' = [disk EXCEPT ![u.rep] = answer] /\ UNCHANGED <<edit, solid, docs, row>>
    BY <1>3, FetchEffect DEF bounds
  <2> HIDE DEF answer
  <2>2. disk'[v.rep] = v.got
    BY <1>0, <2>1 DEF Kin
  <2>3. OwnThings(q)'
    BY <2>1, <2>2 DEF OwnThings
  <2> QED BY <1>a, <2>1, <2>3
<1>4. CASE Open(q)
  <2>1. /\ u.pc = "open" /\ Others(q) /\ Kin(v, u) /\ v.got = u.got
        /\ UNCHANGED <<edit, solid, docs, row, disk>>
        /\ \/ v.pc = "end" /\ disk[u.rep] = NoFile
           \/ v.pc = "rep" /\ imp'.file = u.rep
    BY <1>4, OpenEffect DEF bounds
  <2>2. CASE v.pc = "rep" /\ imp'.file = u.rep
    <3>1. Quiet(q) => OwnThings(q)'
      BY <1>o, <2>1, <2>2 DEF OwnThings, Kin
    <3> QED BY <1>a, <2>1, <2>2, <3>1
  <2>3. CASE v.pc = "end" /\ disk[u.rep] = NoFile
    <3>1. ~Quiet(q)
      <4>1. Harvested(u)
        BY <2>1 DEF GInv, Faithful, Past, Steps
      <4>2. u.got # NoFile
        BY <4>1 DEF Harvested, NoFile
      <4> QED BY <1>o, <2>1, <2>3, <4>2 DEF OwnThings
    <3> QED BY <2>1, <2>3, <3>1, QInvFrame DEF Others, Kin
  <2> QED BY <2>1, <2>2, <2>3
<1>5. CASE SetRepositorio(q)
  <2>1. /\ u.pc = "rep" /\ v.pc = "parse" /\ Others(q) /\ Kin(v, u) /\ v.got = u.got
        /\ UNCHANGED <<edit, solid, docs, row, disk>> /\ imp'.file = imp.file
        /\ imp'.rep = [req |-> q, rep |-> u.rep, key |-> u.ent.key]
    BY <1>5, SetRepositorioEffect DEF bounds
  <2>2. Quiet(q) => OwnThings(q)'
    BY <1>o, <2>1 DEF OwnThings, Kin
  <2> QED BY <1>a, <2>1, <2>2
<1>6. CASE Parse(q)
  <2>0. u.pc = "parse" /\ UNCHANGED <<edit, solid, docs, row, disk>>
    BY <1>6, ParseEffect DEF bounds
  <2>1. CASE Over(q)
    BY <1>b, <2>0, <2>1
  <2>2. CASE /\ v.pc = "save" /\ Others(q) /\ Kin(v, u) /\ v.got = u.got /\ v.i = u.i
             /\ imp'.file = imp.file /\ imp'.rep = imp.rep /\ imp'.oai = disk[imp.file]
    <3>1. ASSUME Quiet(q) PROVE OwnThings(q)'
      BY <1>o, <2>0, <2>2, <3>1 DEF OwnThings, Kin
    <3>2. ASSUME Sound(q)' PROVE OwnRow(q)'
      <4>1. OwnRow(q) /\ u.i = 1
        BY <1>r, <2>0, <2>2, <3>2 DEF Sound, Quiet, Kin, GInv, Faithful
      <4>2. v.i <= Len(v.got.recs) + 1 /\ StoredUpTo(req[q], req[q].i - 1)'
        BY <1>0, <2>2, <4>1 DEF StoredUpTo
      <4> QED BY <2>0, <2>2, <4>1, <4>2 DEF OwnRow, Kin
    <3> QED BY <2>0, <2>2, <3>1, <3>2, QInvFrame DEF Others, Kin
  <2> QED BY <1>6, <2>1, <2>2, ParseEffect
<1>7. CASE Save(q)
  <2> DEFINE x == imp.oai.recs[u.i]
  <2>0. /\ u.pc = "save" /\ u.i <= Len(imp.oai.recs) /\ x \in [id : Ids, ver : Nat]
        /\ UNCHANGED <<edit, solid, row, disk>>
    BY <1>7, SaveEffect DEF bounds
  <2>q. Quiet(q) => /\ imp.oai = u.got /\ x = u.got.recs[u.i] /\ u.i \in 1..Len(u.got.recs)
                    /\ imp.rep = [req |-> q, rep |-> u.rep, key |-> u.ent.key]
    BY <1>0, <1>o, <2>0 DEF OwnThings
  <2>1. CASE Over(q)
    BY <1>b, <2>0, <2>1
  <2>2. CASE /\ docs[x.id] = {} /\ docs' = docs /\ imp' = imp
             /\ v.pc = "insert" /\ Others(q) /\ Kin(v, u) /\ v.got = u.got /\ v.i = u.i
             /\ v.new = <<x.id, [owner |-> imp.rep.rep, key |-> imp.rep.key, ver |-> x.ver]>>
    <3>1. ASSUME Quiet(q) PROVE OwnThings(q)'
      <4>1. /\ v.i <= Len(v.got.recs) /\ v.rep = u.rep /\ v.ent = u.ent
            /\ v.new = <<v.got.recs[v.i].id,
                         [owner |-> v.rep, key |-> v.ent.key, ver |-> v.got.recs[v.i].ver]>>
            /\ docs'[v.new[1]] = {}
        <5> HIDE DEF x
        <5> QED BY <1>0, <2>2, <2>q, <3>1 DEF Kin
      <4>2. /\ imp'.rep = [req |-> q, rep |-> v.rep, key |-> v.ent.key] /\ imp'.oai = v.got
            /\ v.pc = "insert"
        BY <2>2, <2>q, <3>1, <4>1
      <4> HIDE DEF x
      <4> QED BY <4>1, <4>2 DEF OwnThings
    <3>2. ASSUME Sound(q)' PROVE OwnRow(q)'
      <4>1. OwnRow(q)
        BY <1>r, <2>0, <2>2, <3>2 DEF Sound, Quiet, Kin
      <4>2. StoredUpTo(u, u.i - 1)
        BY <2>0, <4>1 DEF OwnRow
      <4>3. StoredUpTo(req[q], req[q].i - 1)'
        BY <2>2, <4>2 DEF StoredUpTo
      <4> QED BY <2>0, <2>2, <4>1, <4>3 DEF OwnRow, Kin
    <3> QED BY <2>0, <2>2, <3>1, <3>2, QInvFrame DEF Others, Kin
  <2>3. CASE /\ \E d \in Doc : docs[x.id] = {d} /\
                  docs' = [docs EXCEPT ![x.id] = {[d EXCEPT !.ver = x.ver]}]
             /\ v.pc = "save" /\ Others(q) /\ Kin(v, u) /\ v.got = u.got /\ v.i = u.i + 1
             /\ imp' = imp
    <3>1. ASSUME Quiet(q) PROVE OwnThings(q)'
      BY <1>o, <2>0, <2>3, <3>1 DEF OwnThings, Kin
    <3>2. ASSUME Quiet(q), Sound(q)' PROVE OwnRow(q)'
      <4>1. OwnRow(q)
        BY <1>r, <2>0, <2>3, <3>2 DEF Sound, Quiet, Kin
      <4>2. PICK e : docs' = [docs EXCEPT ![x.id] = {e}] /\ e.ver = x.ver
        <5>1. PICK d \in Doc : docs' = [docs EXCEPT ![x.id] = {[d EXCEPT !.ver = x.ver]}]
          BY Zenon, <2>3
        <5>2. [d EXCEPT !.ver = x.ver].ver = x.ver
          BY DEF Doc
        <5> QED BY Zenon, <5>1, <5>2
      <4>3. StoredUpTo(u, u.i - 1)
        BY <2>0, <4>1 DEF OwnRow
      <4>5. \A i \in 1..u.i : \E d \in docs'[u.got.recs[i].id] :
              docs'[u.got.recs[i].id] = {d} /\ d.ver = u.got.recs[i].ver
        <5>1. x.id \in Ids /\ x = u.got.recs[u.i]
          BY <1>0, <2>0, <2>q, <3>2
        <5>2. e \in docs'[x.id] /\ docs'[x.id] = {e}
          BY <1>0, <4>2, <5>1
        <5>3. \A id \in Ids : id # x.id => docs'[id] = docs[id]
          BY <1>0, <4>2
        <5>4. /\ u.pc \in {"save", "insert"} /\ u.i \in 1..Len(u.got.recs)
              /\ \E d \in docs'[u.got.recs[u.i].id] :
                   docs'[u.got.recs[u.i].id] = {d} /\ d.ver = u.got.recs[u.i].ver
              /\ \A k \in Ids : k # u.got.recs[u.i].id => docs'[k] = docs[k]
          BY ZenonT(40), <2>0, <2>q, <3>2, <4>2, <5>1, <5>2, <5>3
        <5> QED BY Zenon, <4>3, <5>4, OneMoreStored
      <4>6. v.got = u.got /\ v.i - 1 = u.i /\ v.i <= Len(v.got.recs) + 1
        BY <1>0, <2>3, <2>q, <3>2
      <4>7. StoredUpTo(req[q], req[q].i - 1)'
        BY <4>5, <4>6 DEF StoredUpTo
      <4> QED BY <2>0, <2>3, <4>1, <4>6, <4>7 DEF OwnRow, Kin
    <3> QED BY <2>0, <2>3, <3>1, <3>2, QInvFrame DEF Others, Kin
  <2> QED BY <1>7, <2>1, <2>2, <2>3, SaveEffect
<1>8. CASE Insert(q)
  <2> DEFINE id == u.new[1]
             new == u.new[2]
             x == u.got.recs[u.i]
  <2>0. u.pc = "insert" /\ id \in Ids /\ UNCHANGED <<edit, solid, row, disk>>
    BY <1>8, InsertEffect DEF bounds
  <2>q. Quiet(q) => /\ id = x.id /\ x.id \in Ids /\ new.ver = x.ver /\ docs[id] = {}
                    /\ u.i \in 1..Len(u.got.recs)
    BY <1>0, <1>o, <2>0 DEF OwnThings
  <2>1. CASE Over(q)
    BY <1>b, <2>0, <2>1
  <2>2. CASE /\ \E d \in Doc : d.ver = new.ver /\ docs' = [docs EXCEPT ![id] = @ \cup {d}]
             /\ v.pc = "save" /\ Others(q) /\ Kin(v, u) /\ v.got = u.got /\ v.i = u.i + 1
             /\ imp' = imp
    <3>1. ASSUME Quiet(q) PROVE OwnThings(q)'
      BY <1>o, <2>0, <2>2, <3>1 DEF OwnThings, Kin
    <3>2. ASSUME Quiet(q), Sound(q)' PROVE OwnRow(q)'
      <4>1. OwnRow(q)
        BY <1>r, <2>0, <2>2, <3>2 DEF Sound, Quiet, Kin
      <4>2. PICK e : docs' = [docs EXCEPT ![x.id] = {e}] /\ e.ver = x.ver
        <5>1. PICK d \in Doc : d.ver = new.ver /\ docs' = [docs EXCEPT ![id] = @ \cup {d}]
          BY <2>2
        <5>2. docs' = [docs EXCEPT ![id] = {d}]
          BY <2>q, <3>2, <5>1
        <5> QED BY Zenon, <2>q, <3>2, <5>1, <5>2
      <4>3. StoredUpTo(u, u.i - 1)
        BY <2>0, <4>1 DEF OwnRow
      <4>5. \A i \in 1..u.i : \E d \in docs'[u.got.recs[i].id] :
              docs'[u.got.recs[i].id] = {d} /\ d.ver = u.got.recs[i].ver
        <5>1. x.id \in Ids /\ x = u.got.recs[u.i]
          BY <1>0, <2>0, <2>q, <3>2
        <5>2. e \in docs'[x.id] /\ docs'[x.id] = {e}
          BY <1>0, <4>2, <5>1
        <5>3. \A k \in Ids : k # x.id => docs'[k] = docs[k]
          BY <1>0, <4>2
        <5>4. /\ u.pc \in {"save", "insert"} /\ u.i \in 1..Len(u.got.recs)
              /\ \E d \in docs'[u.got.recs[u.i].id] :
                   docs'[u.got.recs[u.i].id] = {d} /\ d.ver = u.got.recs[u.i].ver
              /\ \A k \in Ids : k # u.got.recs[u.i].id => docs'[k] = docs[k]
          BY Zenon, <2>0, <2>q, <3>2, <4>2, <5>1, <5>2, <5>3
        <5> QED BY <4>3, <5>4, OneMoreStored
      <4>6. v.got = u.got /\ v.i - 1 = u.i /\ v.i <= Len(v.got.recs) + 1
        BY <1>0, <2>2, <2>q, <3>2
      <4>7. StoredUpTo(req[q], req[q].i - 1)'
        BY <4>5, <4>6 DEF StoredUpTo
      <4> QED BY <2>0, <2>2, <4>1, <4>6, <4>7 DEF OwnRow, Kin
    <3> QED BY <2>0, <2>2, <3>1, <3>2, QInvFrame DEF Others, Kin
  <2> QED BY <1>8, <2>1, <2>2, InsertEffect
<1>9. CASE SetDataXmlTemp(q)
  <2>1. /\ u.pc = "save" /\ u.i > Len(imp.oai.recs) /\ UNCHANGED <<edit, solid, docs, row, disk, imp>>
        /\ v.pc = "end" /\ Kin(v, u) /\ v.got = u.got /\ v.i = u.i
        /\ v.temp = IF q = imp.rep.req THEN imp.oai.date ELSE u.temp
        /\ \A p \in Requests : p # q => req'[p].pc = req[p].pc /\ Kin(req'[p], req[p])
    BY <1>9, SetDataXmlTempEffect DEF bounds, store
  <2>2. ASSUME Quiet(q) PROVE OwnThings(q)'
    <3>1. v.temp = v.got.date
      BY <1>o, <2>1, <2>2 DEF OwnThings
    <3> QED BY <2>1, <3>1 DEF OwnThings
  <2>3. ASSUME Quiet(q), Sound(q)' PROVE OwnRow(q)'
    <3>1. OwnRow(q) /\ imp.oai = u.got
      BY <1>o, <1>r, <2>1, <2>3 DEF Sound, Quiet, Kin, OwnThings
    <3>2. StoredUpTo(u, Len(u.got.recs))
      <4>1. u.i <= Len(u.got.recs) + 1 /\ u.i > Len(u.got.recs) /\ StoredUpTo(u, u.i - 1)
        BY <2>1, <3>1 DEF OwnRow
      <4>2. u.i - 1 = Len(u.got.recs)
        BY <1>0, <4>1
      <4> QED BY <4>1, <4>2
    <3>3. StoredUpTo(req[q], Len(req[q].got.recs))'
      BY <2>1, <3>2 DEF StoredUpTo
    <3> QED BY <2>1, <3>1, <3>3 DEF OwnRow, Kin
  <2> QED BY <2>1, <2>2, <2>3, QInvFrame DEF Kin
<1>10. CASE End(q)
  <2>1. u.pc = "end" /\ Over(q) /\ edit' = edit /\ (solid' = solid \/ u.alone)
    BY <1>10, EndEffect
  <2> QED BY <1>b, <2>1 DEF Quiet
<1>11. CASE EndGone(q) \/ UpdateFails(q)
  BY <1>11, <1>b, FailEffect
<1> QED BY <1>1, <1>2, <1>3, <1>4, <1>5, <1>6, <1>7, <1>8, <1>9, <1>10, <1>11

LEMMA QInvStep == QInv /\ SInv /\ GInv /\ KInv /\ TInv /\ [Next]_vars => QInv'
<1> SUFFICES ASSUME QInv, SInv, GInv, KInv, TInv, [Next]_vars PROVE QInv'
  OBVIOUS
<1>1. TInv'
  BY TInvStep
<1>2. CASE UNCHANGED vars
  BY <1>2, QInvSame DEF vars
<1> QED BY <1>1, <1>2, QInvEnvironment, QInvUpdate DEF Next
-----------------------------------------------------------------------------
(* Repositories that were put right *)

LEMMA SInvInit == Init => SInv
BY DEF Init, SInv

LEMMA SInvSame ==
  ASSUME SInv, solid' \subseteq solid, prov' = prov, docs' = docs,
         \A r \in solid' : row'[r].dataXml = row[r].dataXml
  PROVE  SInv'
BY DEF SInv, Stored

LEMMA OneOwner ==
  ASSUME NEW r \in Repos, NEW s \in Repos, NEW id \in Owned(r), id \in Owned(s)
  PROVE  r = s
BY ListsAssumption DEF Owned

LEMMA SInvEnvironment ==
  ASSUME SInv, QInv, DInv, KInv, TInv,
         \/ Tick \/ EditSave \/ Crash
         \/ \E id \in Ids : Change(id)
         \/ \E r \in Repos : EditRead(r) \/ Delete(r) \/ Register(r)
         \/ \E q \in Requests, r \in Repos, apagar \in BOOLEAN : Begin(q, r, apagar)
  PROVE  SInv'
<1>0. /\ row \in [Repos -> Row] /\ docs \in [Ids -> SUBSET Doc] /\ prov \in [Ids -> Rec]
      /\ solid \subseteq Repos /\ edit.old \in Row /\ (edit # NoEdit => edit.rep \in Repos)
      /\ now \in Nat
  BY Typed
<1>1. CASE Tick \/ Crash
  BY <1>1, SInvSame DEF Tick, Crash, store
<1>2. CASE EditSave
  <2>1. UNCHANGED <<prov, docs, solid>>
    BY <1>2 DEF EditSave, bounds
  <2>2. ASSUME NEW r \in solid PROVE row'[r].dataXml = row[r].dataXml
    <3>1. row[edit.rep].key = edit.old.key => row[edit.rep] = edit.old
      BY <1>2, <2>2 DEF QInv, EditSave
    <3>2. row'[r] = row[r] \/ (r = edit.rep /\ row[r] = edit.old /\
                               row'[r] = [edit.old EXCEPT !.form = @ + 1])
      BY <1>0, <1>2, <2>2, <3>1 DEF EditSave
    <3> QED BY <1>0, <3>2 DEF Row
  <2> QED BY <2>1, <2>2, SInvSame
<1>3. ASSUME NEW c \in Ids, Change(c) PROVE SInv'
  <2>1. /\ UNCHANGED <<docs, solid, row>>
        /\ \A id \in Ids : prov'[id] = prov[id] \/ prov'[id].stamp = now
    BY <1>0, <1>3 DEF Change, store
  <2>2. \A r \in solid : row[r].dataXml <= now /\ row[r].dataXml \in Nat
    BY <1>0 DEF DInv, Row
  <2>3. ASSUME NEW r \in solid, NEW id \in Owned(r), prov'[id].stamp < row[r].dataXml
        PROVE  prov'[id] = prov[id]
    BY <1>0, <2>1, <2>2, <2>3, OwnedIds
  <2> QED BY <2>1, <2>3 DEF SInv, Stored
<1>4. ASSUME NEW r \in Repos, EditRead(r) PROVE SInv'
  BY <1>4, SInvSame DEF EditRead, store
<1>5. ASSUME NEW r \in Repos, Delete(r) PROVE SInv'
  <2>1. /\ row' = [row EXCEPT ![r] = NoRow] /\ solid' = solid \ {r} /\ prov' = prov
        /\ docs' = [id \in Ids |-> {d \in docs[id] : d.owner # r}]
    BY <1>5 DEF Delete
  <2>2. ASSUME NEW s \in solid', NEW id \in Owned(s)
        PROVE  docs'[id] = docs[id] /\ row'[s] = row[s] /\ s \in solid
    <3>1. \A d \in docs[id] : d.owner # r
      BY <2>1, <2>2 DEF SInv
    <3> QED BY <1>0, <2>1, <2>2, <3>1, OwnedIds
  <2>3. ASSUME NEW s \in solid', NEW id \in Owned(s)
        PROVE  /\ \A d \in docs'[id] : d.owner = s
               /\ prov'[id].stamp < row'[s].dataXml =>
                    \E d \in docs'[id] : docs'[id] = {d} /\ d.ver = prov'[id].ver
    <3>1. docs'[id] = docs[id] /\ row'[s] = row[s] /\ s \in solid
      BY <2>2, <2>3
    <3>2. /\ \A d \in docs[id] : d.owner = s
          /\ prov[id].stamp < row[s].dataXml =>
               \E d \in docs[id] : docs[id] = {d} /\ d.ver = prov[id].ver
      BY <2>3, <3>1 DEF SInv, Stored
    <3> QED BY <2>1, <3>1, <3>2
  <2> QED BY <2>3 DEF SInv, Stored
<1>6. ASSUME NEW r \in Repos, Register(r) PROVE SInv'
  <2>1. /\ UNCHANGED <<docs, solid, prov>>
        /\ \A s \in Repos : row'[s] = row[s] \/ row'[s].dataXml = NoDate
    BY <1>0, <1>6 DEF Register, NewRow
  <2>2. \A s \in solid : \A id \in Owned(s) : prov[id].stamp \in Nat
    BY <1>0, OwnedIds DEF Rec
  <2>3. ASSUME NEW s \in solid, NEW id \in Owned(s), prov[id].stamp < row'[s].dataXml
        PROVE  row'[s] = row[s]
    BY <1>0, <2>1, <2>2, <2>3
  <2> QED BY <2>1, <2>3 DEF SInv, Stored
<1>7. ASSUME NEW q \in Requests, NEW r \in Repos, NEW apagar \in BOOLEAN, Begin(q, r, apagar)
      PROVE  SInv'
  BY Zenon, <1>7, SInvSame DEF Begin, store
<1> QED BY <1>1, <1>2, <1>3, <1>4, <1>5, <1>6, <1>7

\* A document is saved, of a record its provider has changed since the row.
LEMMA SInvSaves ==
  ASSUME SInv, TInv, UNCHANGED <<solid, prov, row>>, NEW x \in Ids,
         \A id \in Ids : id # x => docs'[id] = docs[id],
         \A r \in solid : x \in Owned(r) =>
           prov[x].stamp >= row[r].dataXml /\ \A d \in docs'[x] : d.owner = r
  PROVE  SInv'
<1>1. \A r \in solid : prov[x].stamp \in Nat /\ row[r].dataXml \in Nat
  BY Typed DEF Rec, Row
<1>2. \A r \in solid : \A id \in Owned(r) : id \in Ids
  BY Typed, OwnedIds
<1>3. ASSUME NEW r \in solid, NEW id \in Owned(r)
      PROVE  /\ \A d \in docs'[id] : d.owner = r
             /\ prov[id].stamp < row[r].dataXml => id # x
  BY <1>1, <1>2, <1>3 DEF SInv
<1> QED BY <1>2, <1>3 DEF SInv, Stored

LEMMA SInvUpdate ==
  ASSUME SInv, QInv, GInv, TInv, NEW q \in Requests,
         \/ Wipe(q) \/ Empty(q) \/ Fetch(q) \/ Open(q) \/ SetRepositorio(q) \/ Parse(q)
         \/ Save(q) \/ Insert(q) \/ SetDataXmlTemp(q) \/ End(q) \/ EndGone(q) \/ UpdateFails(q)
  PROVE  SInv'
<1> DEFINE u == req[q]
           v == req'[q]
<1>0. /\ row \in [Repos -> Row] /\ docs \in [Ids -> SUBSET Doc] /\ prov \in [Ids -> Rec]
      /\ solid \subseteq Repos /\ u.ent \in Row /\ u.i \in Nat \ {0} /\ u.got \in File
      /\ u.pc # "idle" => u.rep \in Repos
  BY Typed, TypedRequest
\* While a repository is right, the running request is quiet; it owns the row if
\* the repository is its own.
<1>q. ASSUME u.pc # "idle", NEW r \in solid
      PROVE  Quiet(q) /\ OwnThings(q) /\ (r = u.rep => OwnRow(q))
  BY <1>q DEF QInv, Quiet, Sound
<1>1. CASE Wipe(q)
  <2>1. u.pc = "wipe" /\ UNCHANGED <<prov, solid>> /\ u.rep \in Repos
    BY <1>0, <1>1, WipeEffect DEF bounds
  <2>2. CASE /\ ~u.ent.ultima /\ u.ent.dataXml = NoDate
             /\ docs' = [id \in Ids |-> {d \in docs[id] : d.owner # u.rep}]
             /\ row' = IF u.dirty THEN [row EXCEPT ![u.rep] = u.ent] ELSE row
    <3>1. ASSUME NEW r \in solid, NEW id \in Owned(r), r # u.rep
          PROVE  docs'[id] = docs[id] /\ row'[r] = row[r]
      <4>1. \A d \in docs[id] : d.owner # u.rep
        BY <3>1 DEF SInv
      <4> QED BY <1>0, <2>1, <2>2, <3>1, <4>1, OwnedIds
    <3>2. ASSUME u.rep \in solid PROVE row'[u.rep].dataXml = NoDate
      BY <1>0, <1>q, <2>1, <2>2, <3>2 DEF OwnRow
    <3>3. \A r \in solid : \A id \in Owned(r) : id \in Ids /\ prov[id].stamp \in Nat
      BY <1>0, OwnedIds DEF Rec
    <3>4. \A id \in Ids : docs'[id] \subseteq docs[id]
      BY <1>0, <2>2
    <3>5. ASSUME NEW r \in solid, NEW id \in Owned(r)
          PROVE  /\ \A d \in docs'[id] : d.owner = r
                 /\ prov[id].stamp < row'[r].dataXml =>
                      docs'[id] = docs[id] /\ row'[r] = row[r]
      BY <3>1, <3>2, <3>3, <3>4, <3>5 DEF SInv
    <3> QED BY <2>1, <3>5 DEF SInv, Stored
  <2>3. CASE docs' = docs /\ row' = row
    BY <2>1, <2>3, SInvSame
  <2> QED BY <1>1, <2>2, <2>3, WipeEffect
<1>2. CASE Empty(q) \/ Fetch(q) \/ Open(q) \/ SetRepositorio(q) \/ Parse(q) \/ SetDataXmlTemp(q)
  <2>1. UNCHANGED <<prov, solid, docs, row>>
    BY <1>2 DEF Empty, Fetch, Open, SetRepositorio, Parse, SetDataXmlTemp, bounds, store
  <2> QED BY <2>1, SInvSame
<1>3. CASE EndGone(q) \/ UpdateFails(q)
  BY <1>3, FailEffect, SInvSame
\* What a quiet request saves it has harvested.
<1>s. ASSUME u.pc \in {"save", "insert"}, NEW r \in solid, u.i \in 1..Len(u.got.recs),
             u.got.recs[u.i].id \in Owned(r)
      PROVE  r = u.rep /\ prov[u.got.recs[u.i].id].stamp >= row[r].dataXml
  <2>1. Harvested(u) /\ u.rep \in Repos
    BY <1>0, <1>s DEF GInv, Faithful, Past, Steps
  <2>2. /\ u.got.recs[u.i].id \in Owned(u.rep)
        /\ prov[u.got.recs[u.i].id].stamp >= u.ent.dataXml
    BY <1>s, <2>1 DEF Harvested
  <2>3. r = u.rep
    BY <1>0, <1>s, <2>1, <2>2, OneOwner
  <2> QED BY <1>q, <1>s, <2>2, <2>3 DEF OwnRow
<1>4. CASE Save(q)
  <2> DEFINE x == imp.oai.recs[u.i]
  <2>0. /\ u.pc = "save" /\ u.i <= Len(imp.oai.recs) /\ x \in [id : Ids, ver : Nat]
        /\ UNCHANGED <<prov, solid, row>>
    BY <1>4, SaveEffect DEF bounds
  <2>1. CASE docs' = docs
    BY <2>0, <2>1, SInvSame
  <2>2. CASE \E d \in Doc : docs[x.id] = {d} /\
               docs' = [docs EXCEPT ![x.id] = {[d EXCEPT !.ver = x.ver]}]
    <3>1. PICK d \in Doc : docs[x.id] = {d} /\
               docs' = [docs EXCEPT ![x.id] = {[d EXCEPT !.ver = x.ver]}]
      BY <2>2
    <3>2. x.id \in Ids /\ [d EXCEPT !.ver = x.ver].owner = d.owner
      BY <2>0 DEF Doc
    <3>3. docs'[x.id] = {[d EXCEPT !.ver = x.ver]}
      BY <1>0, <3>1, <3>2
    <3>4. \A id \in Ids : id # x.id => docs'[id] = docs[id]
      BY <1>0, <3>1
    <3>5. ASSUME NEW r \in solid, x.id \in Owned(r)
          PROVE  prov[x.id].stamp >= row[r].dataXml /\ \A e \in docs'[x.id] : e.owner = r
      <4>1. x = u.got.recs[u.i] /\ u.i \in 1..Len(u.got.recs)
        <5>1. imp.oai = u.got
          BY <1>q, <2>0, <3>5 DEF OwnThings
        <5> QED BY <1>0, <2>0, <5>1, LenProperties DEF File
      <4>2. d.owner = r
        BY <3>1, <3>5 DEF SInv
      <4> QED BY <1>s, <2>0, <3>2, <3>3, <3>5, <4>1, <4>2
    <3> QED BY <2>0, <3>2, <3>4, <3>5, SInvSaves
  <2> QED BY <1>4, <2>1, <2>2, SaveEffect
<1>5. CASE Insert(q)
  <2> DEFINE id == u.new[1]
             new == u.new[2]
  <2>0. u.pc = "insert" /\ id \in Ids /\ UNCHANGED <<prov, solid, row>>
    BY <1>5, InsertEffect DEF bounds
  <2>1. CASE docs' = docs
    BY <2>0, <2>1, SInvSame
  <2>2. CASE \E d \in Doc : d.owner = new.owner /\ docs' = [docs EXCEPT ![id] = @ \cup {d}]
    <3>1. PICK d \in Doc : d.owner = new.owner /\ docs' = [docs EXCEPT ![id] = @ \cup {d}]
      BY Zenon, <2>2
    <3>2. docs'[id] = docs[id] \cup {d} /\ \A k \in Ids : k # id => docs'[k] = docs[k]
      BY <1>0, <2>0, <3>1
    <3>3. ASSUME NEW r \in solid, id \in Owned(r)
          PROVE  prov[id].stamp >= row[r].dataXml /\ \A e \in docs'[id] : e.owner = r
      <4>1. /\ u.i <= Len(u.got.recs) /\ id = u.got.recs[u.i].id /\ new.owner = u.rep
            /\ docs[id] = {}
        BY <1>q, <2>0, <3>3 DEF OwnThings
      <4>2. u.i \in 1..Len(u.got.recs)
        BY <1>0, <4>1, LenProperties DEF File
      <4> QED BY Zenon, <1>s, <2>0, <3>1, <3>2, <3>3, <4>1, <4>2
    <3> HIDE DEF id, new
    <3> QED BY <2>0, <3>2, <3>3, SInvSaves
  <2> QED BY <1>5, <2>1, <2>2, InsertEffect
<1>6. CASE End(q)
  <2> DEFINE date == IF u.temp # NoDate THEN u.temp ELSE u.ent.dataXml
  <2>0. /\ u.pc = "end" /\ u.rep \in Repos /\ row'[u.rep].dataXml = date
        /\ \A r \in Repos : r # u.rep => row'[r] = row[r]
        /\ UNCHANGED <<prov, docs>>
        /\ \/ solid' = solid
           \/ /\ u.alone /\ u.full /\ solid' = solid \cup {u.rep}
              /\ \A id \in Owned(u.rep) : \A d \in docs[id] : d.owner = u.rep
    BY <1>6, EndEffect DEF bounds
  <2>1. ASSUME NEW r \in solid', NEW id \in Owned(r), r # u.rep
        PROVE  r \in solid /\ row'[r] = row[r]
    BY <1>0, <2>0, <2>1
  <2>2. ASSUME u.rep \in solid', NEW id \in Owned(u.rep)
        PROVE  /\ \A d \in docs[id] : d.owner = u.rep
               /\ prov[id].stamp < date => Stored(id)
    <3>1. \A d \in docs[id] : d.owner = u.rep
      BY <2>0, <2>2 DEF SInv
    <3>2. Sound(q) /\ OwnThings(q) /\ OwnRow(q)
      <4>1. Sound(q)
        BY <2>0, <2>2 DEF Sound, Quiet
      <4> QED BY <4>1 DEF QInv, Sound
    <3>3. Harvested(u) /\ (u.full => u.ent.dataXml = NoDate)
      BY <2>0 DEF GInv, Faithful, Past, Steps
    <3>4. date = u.got.date
      BY <2>0, <3>2, <3>3 DEF OwnThings, Harvested
    <3>5. prov[id].stamp \in Nat /\ id \in Ids
      BY <1>0, <2>0, OwnedIds DEF Rec
    <3>6. ASSUME prov[id].stamp < u.got.date PROVE Stored(id)
      <4>1. CASE prov[id].stamp < u.ent.dataXml
        <5>1. u.rep \in solid /\ u.ent = row[u.rep]
          BY <2>0, <2>2, <3>2, <3>3, <3>5, <4>1 DEF OwnRow
        <5> QED BY <4>1, <5>1 DEF SInv
      <4>2. ASSUME NEW i \in 1..Len(u.got.recs), u.got.recs[i].id = id PROVE Stored(id)
        <5>1. \E d \in docs[id] : docs[id] = {d} /\ d.ver = u.got.recs[i].ver
          BY <2>0, <3>2, <4>2 DEF OwnRow, StoredUpTo
        <5>2. u.got.recs[i].ver = prov[id].ver
          <6>1. u.got.date \in Nat
            BY <1>0 DEF File
          <6>2. \/ u.got.recs[i].ver = prov[u.got.recs[i].id].ver
                \/ prov[u.got.recs[i].id].stamp >= u.got.date
            BY <3>3, <4>2 DEF Harvested
          <6> QED BY <3>5, <3>6, <4>2, <6>1, <6>2
        <5> QED BY <5>1, <5>2 DEF Stored
      <4>3. \/ prov[id].stamp < u.ent.dataXml
            \/ prov[id].stamp >= u.got.date
            \/ \E i \in 1..Len(u.got.recs) : u.got.recs[i].id = id
        BY <2>2, <3>3 DEF Harvested
      <4>4. u.got.date \in Nat
        BY <1>0 DEF File
      <4> QED BY <3>5, <3>6, <4>1, <4>2, <4>3, <4>4
    <3> QED BY <3>1, <3>4, <3>6
  <2>3. ASSUME NEW r \in solid', NEW id \in Owned(r)
        PROVE  /\ \A d \in docs[id] : d.owner = r
               /\ prov[id].stamp < row'[r].dataXml => Stored(id)
    BY <2>0, <2>1, <2>2, <2>3 DEF SInv
  <2> QED BY <2>0, <2>3 DEF SInv, Stored
<1> QED BY <1>1, <1>2, <1>3, <1>4, <1>5, <1>6

LEMMA SInvStep == SInv /\ QInv /\ GInv /\ DInv /\ KInv /\ TInv /\ [Next]_vars => SInv'
<1> SUFFICES ASSUME SInv, QInv, GInv, DInv, KInv, TInv, [Next]_vars PROVE SInv'
  OBVIOUS
<1>1. CASE UNCHANGED vars
  BY <1>1 DEF SInv, Stored, vars
<1> QED BY <1>1, SInvEnvironment, SInvUpdate DEF Next

-----------------------------------------------------------------------------
(* The theorems *)

LEMMA Invariance == Spec => []IInv
<1>1. Init => IInv
  BY TInvInit, KInvInit, DInvInit, GInvInit, QInvInit, SInvInit DEF IInv
<1>2. IInv /\ [Next]_vars => IInv'
  BY TInvStep, KInvStep, DInvStep, GInvStep, QInvStep, SInvStep DEF IInv
<1> QED BY <1>1, <1>2, PTL DEF Spec

\* However updates and edits overlapped before, a full update that has FEB to
\* itself puts its repository right, unless another one has got its documents;
\* and it stays right until updates overlap again (Repositorios.atualizaRepositorio).
THEOREM OverlapFullUpdateRepairs == Spec => []FullUpdateRepairs
<1>1. IInv => FullUpdateRepairs
  BY DEF IInv, SInv, FullUpdateRepairs
<1> QED BY <1>1, Invariance, PTL

\* An update that had FEB to itself and ends well has stored what it harvested,
\* whatever earlier ones left in the importer, the directory and the tables.
THEOREM OverlapAloneMeansStored == Spec => AloneMeansStored
<1>1. IInv /\ [Next]_vars => [\A q \in Requests : Ends(q) /\ req[q].alone => Kept(q)]_vars
  <2> SUFFICES ASSUME IInv, NEW q \in Requests, req[q].pc = "end", req[q].alone PROVE Kept(q)
    BY DEF Ends
  <2>1. OwnRow(q)
    BY DEF IInv, QInv, Sound, Quiet
  <2>2. req[q].got.recs \in Seq([id : Ids, ver : Nat])
    BY TypedRequest DEF IInv, File
  <2>5. DOMAIN req[q].got.recs = 1..Len(req[q].got.recs)
    BY <2>2, LenProperties
  <2> SUFFICES ASSUME NEW i \in 1..Len(req[q].got.recs)
               PROVE  \E d \in docs[req[q].got.recs[i].id] : d.ver >= req[q].got.recs[i].ver
    BY <2>5 DEF Kept
  <2>3. \E d \in docs[req[q].got.recs[i].id] : d.ver = req[q].got.recs[i].ver
    BY <2>1 DEF OwnRow, StoredUpTo
  <2>4. req[q].got.recs[i].ver \in Nat
    <3>1. req[q].got.recs[i] \in [id : Ids, ver : Nat]
      BY <2>2, ElementOfSeq
    <3> QED BY <3>1
  <2> QED BY <2>3, <2>4
<1> QED BY <1>1, Invariance, PTL DEF Spec, AloneMeansStored

\* The form and the cursor of a repository go back only when it is deleted, by a
\* wipe, or by someone who read the row before another saved it
\* (RepositoryServiceImpl.updateNotBlank and save).
THEOREM OverlapGoesBackOnlyByOverlap == Spec => GoesBackOnlyByOverlap
<1> DEFINE Back(r) == row'[r].form < row[r].form \/ row'[r].dataXml < row[r].dataXml
           Reason(r) ==
             \/ row'[r].key # row[r].key
             \/ edit.rep = r
             \/ \E q \in Requests :
                  req[q].rep = r /\ (req[q].pc = "wipe" \/ (req[q].pc = "end" /\ ~req[q].alone))
<1>1. IInv /\ [Next]_vars => [\A r \in Repos : Back(r) => Reason(r)]_vars
  <2> SUFFICES ASSUME IInv, Next, NEW r \in Repos, Back(r) PROVE Reason(r)
    OBVIOUS
  <2>0. /\ row \in [Repos -> Row] /\ keys \in [Repos -> Nat] /\ TInv
        /\ row[r].form \in Nat /\ row[r].dataXml \in Nat /\ row[r].key \in Nat
    BY Typed DEF IInv, Row
  <2>1. row'[r] # row[r]
    BY <2>0
  <2>2. CASE EditSave
    BY <2>0, <2>1, <2>2 DEF EditSave
  <2>3. ASSUME NEW s \in Repos, Delete(s) \/ Register(s) PROVE row'[r].key # row[r].key
    <3>1. NoRow.key = NoKey /\ NewRow(keys'[s]).key = keys'[s]
      BY DEF NoRow, NewRow
    <3> QED BY <2>0, <2>1, <2>3, <3>1 DEF Delete, Register
  <2>4. ASSUME NEW q \in Requests, Wipe(q) PROVE Reason(r)
    <3>1. req[q].pc = "wipe" /\ (row' = row \/ row' = [row EXCEPT ![req[q].rep] = req[q].ent])
      BY <2>0, <2>4, WipeEffect
    <3>2. req[q].rep = r
      BY <2>0, <2>1, <3>1
    <3> QED BY <3>1, <3>2
  <2>5. ASSUME NEW q \in Requests, End(q) PROVE Reason(r)
    <3> DEFINE u == req[q]
               date == IF u.temp # NoDate THEN u.temp ELSE u.ent.dataXml
    <3>1. /\ u.pc = "end" /\ row'[u.rep].form = u.ent.form /\ row'[u.rep].dataXml = date
          /\ \A s \in Repos : s # u.rep => row'[s] = row[s]
      BY <2>0, <2>5, EndEffect
    <3>2. u.rep = r
      BY <2>1, <3>1
    <3>3. ~u.alone
      <4> SUFFICES ASSUME u.alone PROVE FALSE
        OBVIOUS
      <4>1. OwnThings(q) /\ OwnRow(q) /\ Harvested(u)
        BY <3>1 DEF IInv, QInv, Sound, Quiet, GInv, Faithful, Past, Steps
      <4>2. u.ent = row[r] /\ date = u.got.date /\ u.ent.dataXml <= u.got.date /\ u.got.date \in Nat
        <5>1. u.temp = u.got.date /\ u.ent = row[r]
          BY <3>1, <3>2, <4>1 DEF OwnThings, OwnRow
        <5>2. u.got.date \in Nat /\ 1 <= u.got.date /\ u.ent.dataXml <= u.got.date
          BY <2>0, <4>1, TypedRequest DEF Harvested, File
        <5> QED BY <5>1, <5>2
      <4> HIDE DEF date
      <4> QED BY <2>0, <3>1, <3>2, <4>2
    <3> QED BY <3>1, <3>2, <3>3
  <2>6. row' = row \/ EditSave \/ (\E s \in Repos : Delete(s) \/ Register(s))
          \/ \E q \in Requests : Wipe(q) \/ End(q)
    BY Zenon DEF Next, Tick, Change, EditRead, Crash, Begin, Empty, Fetch, Open, SetRepositorio, Parse,
           Save, Insert, SetDataXmlTemp, EndGone, UpdateFails, store
  <2> QED BY <2>1, <2>2, <2>3, <2>4, <2>5, <2>6
<1> QED BY <1>1, Invariance, PTL DEF Spec, GoesBackOnlyByOverlap
=============================================================================
