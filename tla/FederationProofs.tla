-------------------------- MODULE FederationProofs --------------------------
(***************************************************************************)
(* Theorems about module Federation, for every set of servers, whoever     *)
(* federates whom: the state is well typed, every federated document is in *)
(* a sub-repository its federation has, and a server misses only what      *)
(* slipped of what its peers committed before its cursors.                 *)
(***************************************************************************)
EXTENDS Federation, TLAPS

USE DEF NoDate

-----------------------------------------------------------------------------
(* The inductive invariant *)

\* A document n harvested itself names its repository by its key, one of a
\* federation by the name of its sub-repository.
Kept(n, d) ==
  /\ d.src = n => d.set \in Reps
  /\ d.src \in Servers \ {n} => d.set \in Names

\* The federated documents D of n are in sub-repositories of the rows F.
Housed(n, D, F) ==
  \A id \in Ids : D[id].src \in Peers[n] => D[id].set \in F[D[id].src].subs

\* The update r of n concerns other servers, and its transaction keeps what the
\* committed tables keep.
Sound(n, r) ==
  /\ r \in Run
  /\ n \notin r.todo /\ r.peer # n
  /\ r.step # "none" => r.peer \in Servers
  /\ \A id \in Ids : Kept(n, r.docs[id])
  /\ r.kind # "idle" => Housed(n, Seen(n, r), r.feds)
  /\ r.kind = "idle" => r.todo = {} /\ r.peer = NoServer /\ r.step = "none"

\* n's tables and its transaction.
Stored(n) == \A id \in Ids : Kept(n, docs[n][id])
Sane == \A n \in Servers : Stored(n) /\ Housed(n, docs[n], feds[n]) /\ Sound(n, run[n])

IInv == TypeOK /\ Sane

-----------------------------------------------------------------------------
(* Data *)

\* The rows of the federations.
LEMMA NewFedIsFed == NewFed \in Fed
BY DEF NewFed, Fed

LEMMA NoDocIsDoc == NoDoc \in Doc
BY ServersAssumption DEF NoDoc, Doc

LEMMA IdleIsRun == Idle \in Run
<1>1. NoDoc \in Doc /\ NewFed \in Fed
  BY NoDocIsDoc, NewFedIsFed
<1>2. NoRec \in Rec
  BY DEF NoRec, Rec
<1> QED
  BY <1>1, <1>2 DEF Idle, Run, Nothing

\* No update is sound.
LEMMA IdleIsSound ==
  ASSUME NEW n \in Servers
  PROVE  Sound(n, Idle)
<1>1. NoServer # n
  BY ServersAssumption
<1>2. \A id \in Ids : Kept(n, Idle.docs[id])
  BY ServersAssumption DEF Idle, NoDoc, Kept
<1>3. Idle.todo = {} /\ Idle.peer = NoServer /\ Idle.step = "none" /\ Idle.kind = "idle"
  BY DEF Idle
<1> QED
  BY <1>1, <1>2, <1>3, IdleIsRun DEF Sound

\* What a transaction reads is a table of documents.
LEMMA SeenIsTable ==
  ASSUME TypeOK, NEW n \in Servers, NEW r \in Run
  PROVE  Seen(n, r) \in [Ids -> Doc]
<1>1. docs[n] \in [Ids -> Doc] /\ r.docs \in [Ids -> Doc]
  BY DEF TypeOK, Run
<1> QED
  BY <1>1 DEF Seen

\* What it writes.
LEMMA WrittenFields ==
  ASSUME NEW r \in Run, NEW ids \in SUBSET Ids, NEW d \in Doc
  PROVE  /\ Written(r, ids, d) \in Run
         /\ Written(r, ids, d).wrote = r.wrote \cup ids
         /\ Written(r, ids, d).docs = [id \in Ids |-> IF id \in ids THEN d ELSE r.docs[id]]
         /\ Written(r, ids, d).feds = r.feds
         /\ Written(r, ids, d).todo = r.todo /\ Written(r, ids, d).peer = r.peer
         /\ Written(r, ids, d).kind = r.kind /\ Written(r, ids, d).step = r.step
<1>1. r.docs \in [Ids -> Doc] /\ r.wrote \in SUBSET Ids
  BY DEF Run
<1> DEFINE e == [id \in Ids |-> IF id \in ids THEN d ELSE r.docs[id]]
<1>2. e \in [Ids -> Doc]
  BY <1>1
<1>3. Written(r, ids, d) = [r EXCEPT !.wrote = r.wrote \cup ids, !.docs = e]
  BY DEF Written
<1> HIDE DEF e
<1>4. [r EXCEPT !.wrote = r.wrote \cup ids, !.docs = e] \in Run
  BY <1>1, <1>2 DEF Run
<1>5. /\ Written(r, ids, d).wrote = r.wrote \cup ids
      /\ Written(r, ids, d).docs = e
      /\ Written(r, ids, d).feds = r.feds
      /\ Written(r, ids, d).todo = r.todo /\ Written(r, ids, d).peer = r.peer
      /\ Written(r, ids, d).kind = r.kind /\ Written(r, ids, d).step = r.step
  BY <1>3 DEF Run
<1>6. Written(r, ids, d) \in Run
  BY <1>3, <1>4
<1>7. Written(r, ids, d).docs = [id \in Ids |-> IF id \in ids THEN d ELSE r.docs[id]]
  BY <1>5, Zenon DEF e
<1> QED
  BY <1>5, <1>6, <1>7

\* ... and the rest of the update stays.
LEMMA WrittenKeeps ==
  ASSUME NEW r \in Run, NEW ids \in SUBSET Ids, NEW d \in Doc
  PROVE  /\ Written(r, ids, d).slipped = r.slipped /\ Written(r, ids, d).got = r.got
         /\ Written(r, ids, d).date = r.date /\ Written(r, ids, d).late = r.late
<1> DEFINE e == [id \in Ids |-> IF id \in ids THEN d ELSE r.docs[id]]
<1>1. Written(r, ids, d) = [r EXCEPT !.wrote = r.wrote \cup ids, !.docs = e]
  BY DEF Written, Run
<1> HIDE DEF e
<1> QED
  BY <1>1 DEF Run

\* ... is what it reads then.
LEMMA SeenWritten ==
  ASSUME NEW n \in Servers, NEW r \in Run, NEW ids \in SUBSET Ids, NEW d \in Doc,
         NEW id \in Ids
  PROVE  Seen(n, Written(r, ids, d))[id] = IF id \in ids THEN d ELSE Seen(n, r)[id]
<1> DEFINE w == Written(r, ids, d)
<1>1. /\ w.wrote = r.wrote \cup ids
      /\ w.docs = [i \in Ids |-> IF i \in ids THEN d ELSE r.docs[i]]
  BY WrittenFields
<1> HIDE DEF w
<1>2. Seen(n, w)[id] = IF id \in ids THEN d ELSE Seen(n, r)[id]
  BY <1>1 DEF Seen
<1> QED
  BY <1>2 DEF w

\* The set of a document is a name.
LEMMA SetOfIsName ==
  ASSUME TypeOK, Sane, NEW p \in Servers, NEW id \in Ids, docs[p][id].src # NoServer
  PROVE  SetOf(p, docs[p][id]) \in Names
<1>1. docs[p][id] \in Doc /\ Kept(p, docs[p][id])
  BY DEF TypeOK, Sane, Stored
<1>2. names \in [Reps -> Names]
  BY DEF TypeOK
<1>3. docs[p][id].src \in Servers
  BY <1>1 DEF Doc
<1> QED
  BY <1>1, <1>2, <1>3 DEF SetOf, Kept

\* A response lists records.
LEMMA RecordsAreRecs ==
  ASSUME TypeOK, Sane, NEW p \in Servers, NEW from \in Nat
  PROVE  Records(p, from) \in [Ids -> Rec]
<1>1. NoRec \in Rec
  BY DEF NoRec, Rec
<1>2. ASSUME NEW id \in Ids, docs[p][id].src # NoServer
      PROVE  [set |-> SetOf(p, docs[p][id]), ver |-> docs[p][id].ver,
              deleted |-> docs[p][id].deleted] \in Rec
  <2>1. SetOf(p, docs[p][id]) \in Names
    BY <1>2, SetOfIsName
  <2>2. docs[p][id] \in Doc
    BY DEF TypeOK
  <2> QED
    BY <2>1, <2>2 DEF Rec, Doc
<1> QED
  BY <1>1, <1>2 DEF Records

\* A saved document is one.
LEMMA SaveIsDoc ==
  ASSUME TypeOK, NEW d \in Doc, NEW p \in Servers, NEW s \in Names \cup Reps \cup {NoSet},
         NEW x, x.ver \in Nat, x.deleted \in BOOLEAN
  PROVE  Save(d, p, s, x) \in Doc
<1>1. now \in Nat
  BY DEF TypeOK
<1> QED
  BY <1>1 DEF Save, Doc

\* A server lists names.
LEMMA ListedAreNames ==
  ASSUME TypeOK, NEW p
  PROVE  Listed(p) \subseteq Names
BY RepsAssumption DEF TypeOK, Listed

-----------------------------------------------------------------------------
(* The steps of an update keep it sound *)

\* A sound transaction on tables that stay is sound in the next state.
LEMMA SoundStays ==
  ASSUME NEW n \in Servers, NEW r, Sound(n, r), run'[n] = r, docs'[n] = docs[n]
  PROVE  Sound(n, run[n])'
<1>1. Seen(n, run[n])' = Seen(n, r)
  BY DEF Seen
<1> QED
  BY <1>1 DEF Sound, Housed, Kept

\* Being over.
LEMMA LeftIsSound ==
  ASSUME NEW n \in Servers, NEW r, Sound(n, r), r.kind # "idle"
  PROVE  Sound(n, Left(r))
<1>1. NoServer # n
  BY ServersAssumption
<1>2. Nothing \in [Ids -> Rec]
  BY DEF Nothing, NoRec, Rec
<1>3. r \in Run
  BY DEF Sound
<1>4. Left(r) \in Run
  BY <1>2, <1>3 DEF Left, Run
<1>5. /\ Left(r).docs = r.docs /\ Left(r).wrote = r.wrote /\ Left(r).feds = r.feds
      /\ Left(r).todo = r.todo /\ Left(r).kind = r.kind
      /\ Left(r).peer = NoServer /\ Left(r).step = "none"
  BY <1>3 DEF Left, Run
<1> QED
  BY <1>1, <1>4, <1>5 DEF Sound, Housed, Seen

\* Writing a document that is kept and housed as it should be.
LEMMA WrittenIsSound ==
  ASSUME NEW n \in Servers, NEW r, Sound(n, r), r.kind # "idle",
         NEW ids \in SUBSET Ids, NEW d \in Doc, Kept(n, d),
         d.src \in Peers[n] => d.set \in r.feds[d.src].subs
  PROVE  Sound(n, Written(r, ids, d))
<1> DEFINE w == Written(r, ids, d)
<1>1. r \in Run
  BY DEF Sound
<1>2. /\ w \in Run /\ w.docs = [id \in Ids |-> IF id \in ids THEN d ELSE r.docs[id]]
      /\ w.feds = r.feds /\ w.todo = r.todo /\ w.peer = r.peer
      /\ w.kind = r.kind /\ w.step = r.step
  BY <1>1, WrittenFields
<1>3. \A id \in Ids : Seen(n, w)[id] = IF id \in ids THEN d ELSE Seen(n, r)[id]
  BY <1>1, SeenWritten
<1> HIDE DEF w
<1>4. Housed(n, Seen(n, w), w.feds)
  BY <1>2, <1>3 DEF Housed, Sound
<1>5. \A id \in Ids : Kept(n, w.docs[id])
  BY <1>2 DEF Sound
<1>6. Sound(n, w)
  BY <1>2, <1>4, <1>5 DEF Sound
<1> QED
  BY <1>6 DEF w

\* Deleting documents.
LEMMA DeletedIsSound ==
  ASSUME NEW n \in Servers, NEW r, Sound(n, r), r.kind # "idle", NEW ids \in SUBSET Ids
  PROVE  Sound(n, Written(r, ids, NoDoc))
<1>1. NoDoc.src = NoServer
  BY DEF NoDoc
<1>2. Kept(n, NoDoc) /\ NoDoc.src \notin Peers[n]
  BY <1>1, ServersAssumption DEF Kept
<1> QED
  BY <1>2, NoDocIsDoc, WrittenIsSound

\* Entering the update of a federation.
LEMMA EnterIsSound ==
  ASSUME NEW n \in Servers, NEW r, Sound(n, r), r.kind # "idle",
         NEW p \in Servers, p # n, NEW apagar \in BOOLEAN
  PROVE  Sound(n, Enter(n, r, p, apagar))
<1> DEFINE f == IF apagar THEN [r.feds[p] EXCEPT !.ultima = FALSE, !.dataXml = NoDate]
                ELSE r.feds[p]
           gone == IF ~f.ultima /\ f.dataXml = NoDate
                   THEN {id \in Ids : Seen(n, r)[id].src = p} ELSE {}
           e == [r EXCEPT !.todo = @ \ {p}, !.peer = p, !.step = "sets", !.feds[p] = f]
<1>1. r \in Run /\ n \notin r.todo
  BY DEF Sound
<1>2. r.feds \in [Servers -> Fed] /\ r.todo \in SUBSET Servers
  BY <1>1 DEF Run
<1>3. f \in Fed /\ f.subs = r.feds[p].subs
  BY <1>2 DEF Fed
<1>4. gone \in SUBSET Ids
  OBVIOUS
<1>5. Enter(n, r, p, apagar) = Written(e, gone, NoDoc)
  BY DEF Enter
<1> HIDE DEF f, gone
<1>6. e \in Run
  BY <1>1, <1>2, <1>3 DEF Run
<1>7. /\ e.docs = r.docs /\ e.wrote = r.wrote /\ e.kind = r.kind /\ e.peer = p
      /\ e.todo = r.todo \ {p} /\ e.step = "sets"
      /\ e.feds = [r.feds EXCEPT ![p] = f]
  BY <1>1 DEF Run
<1> HIDE DEF e
<1>8. \A q \in Servers : e.feds[q].subs = r.feds[q].subs
  BY <1>2, <1>3, <1>7
<1>9. Housed(n, Seen(n, e), e.feds)
  BY <1>7, <1>8, ServersAssumption DEF Sound, Housed, Seen
<1>10. Sound(n, e)
  BY <1>1, <1>6, <1>7, <1>9 DEF Sound
<1> QED
  BY <1>4, <1>5, <1>7, <1>10, DeletedIsSound

\* Opening a transaction on tables that are as they should be.
LEMMA OpenedIsSound ==
  ASSUME IInv, NEW n \in Servers, NEW k \in {"one", "all", "robo"},
         NEW ps \in SUBSET Peers[n], NEW apagar \in BOOLEAN
  PROVE  Sound(n, Opened(n, k, ps, apagar)) /\ Opened(n, k, ps, apagar).kind = k
<1> DEFINE o == Opened(n, k, ps, apagar)
<1>1. feds[n] \in [Servers -> Fed] /\ slipped[n] \in [Servers -> SUBSET Ids]
  BY DEF IInv, TypeOK
<1>2. ps \subseteq Servers /\ n \notin ps
  BY ServersAssumption, NoSelfAssumption
<1>3. o \in Run
  BY <1>1, <1>2, IdleIsRun DEF Opened, Run
<1>4. /\ o.kind = k /\ o.todo = ps /\ o.feds = feds[n]
      /\ o.docs = Idle.docs /\ o.wrote = {} /\ o.peer = NoServer /\ o.step = "none"
  BY DEF Opened, Idle
<1> HIDE DEF o
<1>5. \A id \in Ids : Kept(n, o.docs[id])
  BY <1>4, IdleIsSound DEF Sound
<1>6. Housed(n, Seen(n, o), o.feds)
  BY <1>4 DEF IInv, Sane, Housed, Seen
<1>7. NoServer # n
  BY ServersAssumption
<1>8. Sound(n, o)
  BY <1>2, <1>3, <1>4, <1>5, <1>6, <1>7 DEF Sound
<1> QED
  BY <1>4, <1>8 DEF o

\* Synchronising the sub-repositories.
LEMMA ListSetsIsSound ==
  ASSUME TypeOK, NEW n \in Servers, Sane, ListSets(n)
  PROVE  Sound(n, run[n])'
<1> DEFINE r == run[n]
           p == r.peer
           gone == {id \in Ids : Seen(n, r)[id].src = p /\ Seen(n, r)[id].set \notin Listed(p)}
           out == {id \in gone : docs[p][id].created < r.feds[p].dataXml}
           e == [r EXCEPT !.step = "records", !.feds[p].subs = Listed(p),
                          !.slipped[p] = @ \cup out]
<1>1. r \in Run /\ Sound(n, r) /\ r.step = "sets"
  BY DEF Sane, Sound, ListSets
<1>2. r.kind # "idle"
  BY <1>1 DEF Sound, Idle
<1>3. p \in Servers /\ p # n
  BY <1>1 DEF Sound
<1>4. run' = [run EXCEPT ![n] = Written(e, gone, NoDoc)] /\ docs' = docs
  BY DEF ListSets
<1>5. run'[n] = Written(e, gone, NoDoc)
  BY <1>4 DEF TypeOK
<1>6. Listed(p) \subseteq Names /\ gone \in SUBSET Ids /\ out \in SUBSET Ids
  BY ListedAreNames
<1>7. r.feds \in [Servers -> Fed] /\ r.slipped \in [Servers -> SUBSET Ids]
  BY <1>1 DEF Run
<1> DEFINE g == [r.feds EXCEPT ![p].subs = Listed(p)]
<1>8. g \in [Servers -> Fed]
  BY <1>6, <1>7 DEF Fed
<1>9. \A q \in Servers : g[q].subs = IF q = p THEN Listed(p) ELSE r.feds[q].subs
  BY <1>6, <1>7 DEF Fed
<1> DEFINE z == [r.slipped EXCEPT ![p] = @ \cup out]
<1>10. z \in [Servers -> SUBSET Ids]
  BY <1>6, <1>7
<1> HIDE DEF out, gone
<1>11. e = [r EXCEPT !.step = "records", !.feds = g, !.slipped = z]
  BY <1>1 DEF Run
<1> HIDE DEF g, z
<1>12. e \in Run
  BY <1>1, <1>8, <1>10, <1>11 DEF Run
<1>13. /\ e.docs = r.docs /\ e.wrote = r.wrote /\ e.kind = r.kind /\ e.peer = p
       /\ e.todo = r.todo /\ e.step = "records" /\ e.feds = g
  BY <1>1, <1>11 DEF Run
<1> DEFINE w == Written(e, gone, NoDoc)
<1> HIDE DEF e
<1>14. /\ w \in Run /\ w.docs = [id \in Ids |-> IF id \in gone THEN NoDoc ELSE e.docs[id]]
       /\ w.feds = e.feds /\ w.todo = e.todo /\ w.peer = e.peer
       /\ w.kind = e.kind /\ w.step = e.step
  BY <1>6, <1>12, NoDocIsDoc, WrittenFields
<1>15. \A id \in Ids : Seen(n, w)[id] = IF id \in gone THEN NoDoc ELSE Seen(n, e)[id]
  BY <1>6, <1>12, NoDocIsDoc, SeenWritten
<1> HIDE DEF w
<1>16. Seen(n, e) = Seen(n, r)
  BY <1>13 DEF Seen
<1>17. Housed(n, Seen(n, w), g)
  <2> SUFFICES ASSUME NEW id \in Ids, Seen(n, w)[id].src \in Peers[n]
               PROVE  Seen(n, w)[id].set \in g[Seen(n, w)[id].src].subs
    BY DEF Housed
  <2>1. id \notin gone
    BY <1>15, ServersAssumption DEF NoDoc
  <2>2. Seen(n, w)[id] = Seen(n, r)[id]
    BY <2>1, <1>15, <1>16
  <2>3. Seen(n, r)[id].src \in Servers
    BY <2>2, ServersAssumption
  <2>4. Seen(n, r)[id].set \in r.feds[Seen(n, r)[id].src].subs
    BY <2>2, <1>1, <1>2 DEF Sound, Housed
  <2>5. Seen(n, r)[id].src = p => Seen(n, r)[id].set \in Listed(p)
    BY <2>1 DEF gone
  <2> QED
    BY <2>2, <2>3, <2>4, <2>5, <1>9
<1>18. \A id \in Ids : Kept(n, w.docs[id])
  BY <1>1, <1>13, <1>14, ServersAssumption DEF Sound, Kept, NoDoc
<1>19. Sound(n, w)
  BY <1>1, <1>2, <1>3, <1>13, <1>14, <1>17, <1>18 DEF Sound
<1>20. run'[n] = w
  BY <1>5 DEF w
<1> QED
  BY <1>4, <1>19, <1>20, SoundStays

\* Requesting the records.
LEMMA ListRecordsIsSound ==
  ASSUME TypeOK, Sane, NEW n \in Servers, ListRecords(n)
  PROVE  Sound(n, run[n])'
<1> DEFINE r == run[n]
           p == r.peer
           got == Records(p, r.feds[p].dataXml)
           w == [r EXCEPT !.step = "import", !.date = now, !.got = got]
<1>1. r \in Run /\ Sound(n, r) /\ r.step = "records"
  BY DEF Sane, Sound, ListRecords
<1>2. p \in Servers
  BY <1>1 DEF Sound
<1>3. r.feds[p].dataXml \in Nat
  BY <1>1, <1>2 DEF Run, Fed
<1>4. got \in [Ids -> Rec]
  BY <1>2, <1>3, RecordsAreRecs
<1>5. run'[n] = w /\ docs' = docs
  BY DEF ListRecords, TypeOK
<1> HIDE DEF got
<1>6. now \in Nat
  BY DEF TypeOK
<1>7. w \in Run
  BY <1>1, <1>4, <1>6 DEF Run
<1>8. /\ w.docs = r.docs /\ w.wrote = r.wrote /\ w.feds = r.feds /\ w.todo = r.todo
      /\ w.peer = r.peer /\ w.kind = r.kind
  BY <1>1 DEF Run
<1> HIDE DEF w
<1>9. r.kind # "idle"
  BY <1>1 DEF Sound, Idle
<1>10. Sound(n, w)
  BY <1>1, <1>2, <1>7, <1>8, <1>9 DEF Sound, Housed, Seen
<1> QED
  BY <1>5, <1>10, SoundStays

\* Importing a record.
LEMMA ImportRecordIsSound ==
  ASSUME TypeOK, Sane, NEW n \in Servers, NEW id \in Ids, ImportRecord(n, id)
  PROVE  Sound(n, run[n])'
<1> DEFINE r == run[n]
           x == r.got[id]
           d == Seen(n, r)[id]
           e == [r EXCEPT !.got[id] = NoRec]
           s == Save(d, r.peer, x.set, x)
<1>1. r \in Run /\ Sound(n, r) /\ r.step = "import"
  BY DEF Sane, Sound, ImportRecord
<1>2. r.kind # "idle"
  BY <1>1 DEF Sound, Idle
<1>3. r.peer \in Servers /\ r.peer # n
  BY <1>1 DEF Sound
<1>4. x.set \in r.feds[r.peer].subs
  BY DEF ImportRecord
<1>5. run'[n] = Written(e, {id}, s) /\ docs' = docs
  BY DEF ImportRecord, TypeOK
<1>6. x \in Rec
  BY <1>1 DEF Run
<1>7. x.set \in Names
  BY <1>1, <1>3, <1>4 DEF Run, Fed
<1>8. Seen(n, r) \in [Ids -> Doc]
  BY <1>1, SeenIsTable
<1>9. d \in Doc
  BY <1>8
<1>10. s \in Doc
  <2>1. x.ver \in Nat /\ x.deleted \in BOOLEAN
    BY <1>6 DEF Rec
  <2> QED
    BY <2>1, <1>3, <1>7, <1>9, SaveIsDoc
<1>11. Kept(n, d)
  BY <1>1 DEF Sane, Stored, Sound, Seen
<1>12. /\ s.src = IF d.src = NoServer THEN r.peer ELSE d.src
       /\ s.set = IF d.src = NoServer THEN x.set ELSE d.set
  BY DEF Save
<1>13. d.src \in Peers[n] => d.set \in r.feds[d.src].subs
  BY <1>1, <1>2 DEF Sound, Housed
<1> HIDE DEF s, d, x
<1>14. Kept(n, s)
  BY <1>3, <1>7, <1>11, <1>12 DEF Kept
<1>15. s.src \in Peers[n] => s.set \in r.feds[s.src].subs
  BY <1>4, <1>12, <1>13
<1>16. e \in Run
  <2>1. NoRec \in Rec
    BY DEF NoRec, Rec
  <2>2. [r.got EXCEPT ![id] = NoRec] \in [Ids -> Rec]
    BY <2>1, <1>1 DEF Run
  <2> QED
    BY <2>2, <1>1 DEF Run
<1>17. /\ e.docs = r.docs /\ e.wrote = r.wrote /\ e.feds = r.feds /\ e.todo = r.todo
       /\ e.peer = r.peer /\ e.kind = r.kind /\ e.step = r.step
  BY <1>1 DEF Run
<1> HIDE DEF e
<1>18. Sound(n, e)
  BY <1>1, <1>2, <1>3, <1>16, <1>17 DEF Sound, Housed, Seen
<1>19. Sound(n, Written(e, {id}, s))
  BY <1>2, <1>10, <1>14, <1>15, <1>17, <1>18, WrittenIsSound
<1> QED
  BY <1>5, <1>19, SoundStays

\* Leaving out a record that cannot be read.
LEMMA SkipRecordIsSound ==
  ASSUME TypeOK, Sane, NEW n \in Servers, NEW id \in Ids, SkipRecord(n, id)
  PROVE  Sound(n, run[n])'
<1> DEFINE r == run[n]
           w == [r EXCEPT !.got[id] = NoRec, !.late = r.late \cup {id}]
<1>1. r \in Run /\ Sound(n, r) /\ r.step = "import"
  BY DEF Sane, Sound, SkipRecord
<1>2. run'[n] = w /\ docs' = docs
  BY DEF SkipRecord, TypeOK
<1>3. NoRec \in Rec
  BY DEF NoRec, Rec
<1>4. w \in Run
  BY <1>1, <1>3 DEF Run
<1>5. /\ w.docs = r.docs /\ w.wrote = r.wrote /\ w.feds = r.feds /\ w.todo = r.todo
      /\ w.peer = r.peer /\ w.kind = r.kind
  BY <1>1 DEF Run
<1> HIDE DEF w
<1>6. r.kind # "idle"
  BY <1>1 DEF Sound, Idle
<1>7. Sound(n, w)
  BY <1>1, <1>4, <1>5, <1>6 DEF Sound, Housed, Seen
<1> QED
  BY <1>2, <1>7, SoundStays

\* Giving up, with the transaction marked or not.
LEMMA GivenUpIsSound ==
  ASSUME NEW n \in Servers, NEW r, Sound(n, r), r.kind # "idle", r.peer \in Servers,
         NEW b \in BOOLEAN
  PROVE  Sound(n, Left([r EXCEPT !.poisoned = b, !.erros = @ \cup {r.peer}]))
<1> DEFINE e == [r EXCEPT !.poisoned = b, !.erros = @ \cup {r.peer}]
<1>1. r \in Run
  BY DEF Sound
<1>2. e \in Run
  BY <1>1 DEF Run
<1>3. /\ e.docs = r.docs /\ e.wrote = r.wrote /\ e.feds = r.feds /\ e.todo = r.todo
      /\ e.peer = r.peer /\ e.kind = r.kind /\ e.step = r.step
  BY <1>1 DEF Run
<1> HIDE DEF e
<1>4. Sound(n, e)
  BY <1>1, <1>2, <1>3 DEF Sound, Housed, Seen
<1>5. Sound(n, Left(e))
  BY <1>3, <1>4, LeftIsSound
<1> QED
  BY <1>5 DEF e

LEMMA UnknownSetIsSound ==
  ASSUME TypeOK, Sane, NEW n \in Servers, UnknownSet(n)
  PROVE  Sound(n, run[n])'
<1> DEFINE r == run[n]
           w == Left([r EXCEPT !.poisoned = TRUE, !.erros = @ \cup {r.peer}])
<1>1. Sound(n, r) /\ r.step = "import"
  BY DEF Sane, UnknownSet
<1>2. r.kind # "idle" /\ r.peer \in Servers
  BY <1>1 DEF Sound, Idle
<1>3. run'[n] = w /\ docs' = docs
  BY DEF UnknownSet, TypeOK
<1>4. Sound(n, w)
  BY <1>1, <1>2, GivenUpIsSound
<1> HIDE DEF w
<1> QED
  BY <1>3, <1>4, SoundStays

LEMMA FederationFailsIsSound ==
  ASSUME TypeOK, Sane, NEW n \in Servers, NEW unchecked \in BOOLEAN,
         FederationFails(n, unchecked)
  PROVE  Sound(n, run[n])'
<1> DEFINE r == run[n]
           w == Left([r EXCEPT !.poisoned = r.poisoned \/ unchecked,
                               !.erros = @ \cup {r.peer}])
<1>1. Sound(n, r) /\ r \in Run /\ r.peer # NoServer
  BY DEF Sane, Sound, FederationFails
<1>2. r.kind # "idle" /\ r.peer \in Servers
  BY <1>1 DEF Sound, Idle, Run
<1>3. run'[n] = w /\ docs' = docs
  BY DEF FederationFails, TypeOK
<1>4. (r.poisoned \/ unchecked) \in BOOLEAN
  BY <1>1 DEF Run
<1>5. Sound(n, w)
  BY <1>1, <1>2, <1>4, GivenUpIsSound
<1> HIDE DEF w
<1> QED
  BY <1>3, <1>5, SoundStays

\* Storing the dates.
LEMMA FinishFederationIsSound ==
  ASSUME TypeOK, Sane, NEW n \in Servers, FinishFederation(n)
  PROVE  Sound(n, run[n])'
<1> DEFINE r == run[n]
           p == r.peer
           sl == (IF r.feds[p].dataXml = NoDate THEN {} ELSE r.slipped[p]) \cup r.late
           e == [r EXCEPT !.feds[p].ultima = TRUE, !.feds[p].dataXml = r.date,
                          !.slipped[p] = (IF r.feds[p].dataXml = NoDate THEN {} ELSE @)
                                            \cup r.late]
           g == [r.feds EXCEPT ![p].ultima = TRUE, ![p].dataXml = r.date]
           z == [r.slipped EXCEPT ![p] = sl]
<1>1. r \in Run /\ Sound(n, r) /\ r.step = "import"
  BY DEF Sane, Sound, FinishFederation
<1>2. r.kind # "idle" /\ p \in Servers
  BY <1>1 DEF Sound, Idle
<1>3. run'[n] = Left(e) /\ docs' = docs
  BY DEF FinishFederation, TypeOK
<1>4. /\ r.feds \in [Servers -> Fed] /\ r.slipped \in [Servers -> SUBSET Ids]
      /\ r.late \in SUBSET Ids /\ r.date \in Nat
  BY <1>1 DEF Run
<1>5. g \in [Servers -> Fed]
  BY <1>4 DEF Fed
<1>6. \A q \in Servers : g[q].subs = r.feds[q].subs
  BY <1>4 DEF Fed
<1>7. sl \in SUBSET Ids
  BY <1>2, <1>4
<1>8. e = [r EXCEPT !.feds = g, !.slipped = z]
  BY <1>1, <1>2, <1>4 DEF Run
<1> HIDE DEF sl, g
<1>9. z \in [Servers -> SUBSET Ids]
  BY <1>4, <1>7
<1> HIDE DEF z, e
<1>10. e \in Run
  BY <1>1, <1>5, <1>8, <1>9 DEF Run
<1>11. /\ e.docs = r.docs /\ e.wrote = r.wrote /\ e.feds = g /\ e.todo = r.todo
       /\ e.peer = r.peer /\ e.kind = r.kind /\ e.step = r.step
  BY <1>1, <1>8 DEF Run
<1>12. Housed(n, Seen(n, e), e.feds)
  BY <1>1, <1>2, <1>6, <1>11, ServersAssumption DEF Sound, Housed, Seen
<1>13. Sound(n, e)
  BY <1>1, <1>2, <1>10, <1>11, <1>12 DEF Sound
<1>14. Sound(n, Left(e))
  BY <1>2, <1>11, <1>13, LeftIsSound
<1> QED
  BY <1>3, <1>14, SoundStays

\* Going on to the next federation.
LEMMA NextFederationIsSound ==
  ASSUME TypeOK, Sane, NEW n \in Servers, NEW p \in Servers, NextFederation(n, p)
  PROVE  Sound(n, run[n])'
<1>1. Sound(n, run[n]) /\ p \in run[n].todo
  BY DEF Sane, NextFederation
<1>2. p # n /\ run[n].kind # "idle" /\ run[n].apagar \in BOOLEAN
  BY <1>1 DEF Sound, Idle, Run
<1>3. Sound(n, Enter(n, run[n], p, run[n].apagar))
  BY <1>1, <1>2, EnterIsSound
<1>4. run'[n] = Enter(n, run[n], p, run[n].apagar) /\ docs' = docs
  BY DEF NextFederation, TypeOK
<1> QED
  BY <1>3, <1>4, SoundStays

\* Starting an update.
LEMMA StartsAreSound ==
  ASSUME TypeOK, Sane, NEW n \in Servers,
         \/ \E p \in Servers, apagar \in BOOLEAN : StartOne(n, p, apagar)
         \/ \E apagar \in BOOLEAN : StartAll(n, apagar)
         \/ StartRobo(n)
  PROVE  Sound(n, run[n])'
<1> USE DEF IInv
<1>1. ASSUME NEW p \in Servers, NEW apagar \in BOOLEAN, StartOne(n, p, apagar)
      PROVE  Sound(n, run[n])'
  <2> DEFINE o == Opened(n, "one", {}, FALSE)
  <2>1. Sound(n, o) /\ o.kind # "idle"
    BY OpenedIsSound
  <2>2. p # n
    BY <1>1, NoSelfAssumption DEF StartOne
  <2>3. run'[n] = Enter(n, o, p, apagar) /\ docs' = docs
    BY <1>1 DEF StartOne, TypeOK
  <2> HIDE DEF o
  <2>4. Sound(n, Enter(n, o, p, apagar))
    BY <2>1, <2>2, EnterIsSound
  <2> QED
    BY <2>3, <2>4, SoundStays
<1>2. ASSUME NEW apagar \in BOOLEAN, StartAll(n, apagar)
      PROVE  Sound(n, run[n])'
  <2>1. Sound(n, Opened(n, "all", Peers[n], apagar))
    BY OpenedIsSound
  <2>2. run'[n] = Opened(n, "all", Peers[n], apagar) /\ docs' = docs
    BY <1>2 DEF StartAll, TypeOK
  <2> QED
    BY <2>1, <2>2, SoundStays
<1>3. ASSUME StartRobo(n)
      PROVE  Sound(n, run[n])'
  <2>1. Sound(n, Opened(n, "robo", Peers[n], FALSE))
    BY OpenedIsSound
  <2>2. run'[n] = Opened(n, "robo", Peers[n], FALSE) /\ docs' = docs
    BY <1>3 DEF StartRobo, TypeOK
  <2> QED
    BY <2>1, <2>2, SoundStays
<1> QED
  BY <1>1, <1>2, <1>3

-----------------------------------------------------------------------------
(* The steps of the system *)

\* A step of one server that commits nothing.
LEMMA OneServerStep ==
  ASSUME TypeOK, Sane, NEW n \in Servers, NEW r, run' = [run EXCEPT ![n] = r],
         Sound(n, run[n])', fails' \in Nat,
         UNCHANGED <<now, names, latest, docs, feds, slipped, changes, renames>>
  PROVE  IInv'
<1>1. run'[n] \in Run
  BY DEF Sound
<1>2. \A m \in Servers \ {n} : run'[m] = run[m]
  BY DEF TypeOK
<1>3. run' \in [Servers -> Run]
  BY <1>1, <1>2 DEF TypeOK
<1>4. TypeOK'
  BY <1>3 DEF TypeOK
<1>5. \A m \in Servers : Sound(m, run[m])'
  BY <1>2, SoundStays DEF Sane
<1>6. \A m \in Servers : Stored(m)' /\ Housed(m, docs[m], feds[m])'
  BY DEF Sane, Stored, Housed, Kept
<1> QED
  BY <1>4, <1>5, <1>6 DEF IInv, Sane

\* What others are told of a commit leaves their updates sound.
LEMMA ToldIsSound ==
  ASSUME NEW n \in Servers, NEW m \in Servers, NEW q, Sound(m, q),
         NEW ids \in SUBSET Ids, NEW d
  PROVE  Sound(m, Told(q, n, ids, d))
<1> DEFINE z == [q.slipped EXCEPT ![n] = Behind(@, ids, d, q.feds[n].dataXml)]
           l == IF q.peer = n /\ q.step = "import" THEN Behind(q.late, ids, d, q.date)
                ELSE q.late
           t == [q EXCEPT !.slipped = z, !.late = l]
<1>1. q \in Run
  BY DEF Sound
<1>2. q.slipped \in [Servers -> SUBSET Ids] /\ q.late \in SUBSET Ids
  BY <1>1 DEF Run
<1>3. Told(q, n, ids, d) = t
  BY <1>1 DEF Told, Run
<1>4. z \in [Servers -> SUBSET Ids] /\ l \in SUBSET Ids
  BY <1>2 DEF Behind
<1> HIDE DEF z, l
<1>5. t \in Run
  BY <1>1, <1>4 DEF Run
<1>6. /\ t.docs = q.docs /\ t.wrote = q.wrote /\ t.feds = q.feds /\ t.todo = q.todo
      /\ t.peer = q.peer /\ t.kind = q.kind /\ t.step = q.step
  BY <1>1 DEF Run
<1> HIDE DEF t
<1>7. Sound(m, t)
  BY <1>5, <1>6 DEF Sound, Housed, Seen
<1> QED
  BY <1>3, <1>7

\* A commit of n: its tables, and everyone else as before.
LEMMA PublishStep ==
  ASSUME TypeOK, Sane, NEW n \in Servers, NEW ids \in SUBSET Ids, NEW d \in [Ids -> Doc],
         NEW r \in Run, Publish(n, ids, d, r)
  PROVE  /\ docs' \in [Servers -> [Ids -> Doc]] /\ run' \in [Servers -> Run]
         /\ docs'[n] = [id \in Ids |-> IF id \in ids THEN d[id] ELSE docs[n][id]]
         /\ run'[n] = r
         /\ \A m \in Servers \ {n} : docs'[m] = docs[m] /\ Sound(m, run[m])'
<1> DEFINE t == [id \in Ids |-> IF id \in ids THEN d[id] ELSE docs[n][id]]
<1>1. docs' = [docs EXCEPT ![n] = t]
  BY DEF Publish
<1>2. t \in [Ids -> Doc]
  BY DEF TypeOK
<1>3. docs'[n] = t /\ \A m \in Servers \ {n} : docs'[m] = docs[m]
  BY <1>1 DEF TypeOK
<1>4. docs' \in [Servers -> [Ids -> Doc]]
  BY <1>1, <1>2 DEF TypeOK
<1>5. run' = [m \in Servers |-> IF m = n THEN r ELSE Told(run[m], n, ids, d)]
  BY DEF Publish
<1>6. run'[n] = r
  BY <1>5
<1>7. ASSUME NEW m \in Servers \ {n}
      PROVE  run'[m] \in Run /\ Sound(m, run[m])'
  <2>1. run'[m] = Told(run[m], n, ids, d)
    BY <1>5
  <2>2. Sound(m, Told(run[m], n, ids, d))
    BY ToldIsSound DEF Sane
  <2>3. Sound(m, run[m])'
    BY <1>3, <2>1, <2>2, SoundStays
  <2> QED
    BY <2>1, <2>2, <2>3 DEF Sound
<1>8. run' \in [Servers -> Run]
  BY <1>5, <1>6, <1>7
<1> QED
  BY <1>3, <1>4, <1>6, <1>7, <1>8

\* What slips is identifiers.
LEMMA BehindTypes ==
  ASSUME NEW old \in SUBSET Ids, NEW ids \in SUBSET Ids, NEW d, NEW c
  PROVE  Behind(old, ids, d, c) \in SUBSET Ids
BY DEF Behind

\* What a server makes of a version of a record of its own repository.
LEMMA LocalSave ==
  ASSUME NEW n \in Servers, TypeOK, NEW d \in Doc, Kept(n, d), NEW id \in Ids, At[RepOf[id]] = n,
         NEW del \in BOOLEAN,
         NEW e, e = Save(d, n, RepOf[id], [ver |-> latest[id] + 1, deleted |-> del])
  PROVE  /\ e \in Doc /\ Kept(n, e)
         /\ e.src \in Peers[n] => e.src = d.src /\ e.set = d.set
<1> DEFINE x == [ver |-> latest[id] + 1, deleted |-> del]
<1>1. RepOf[id] \in Reps
  BY RepsAssumption
<1>2. x.ver \in Nat /\ x.deleted \in BOOLEAN
  BY DEF TypeOK
<1>3. /\ e.src = IF d.src = NoServer THEN n ELSE d.src
      /\ e.set = IF d.src = NoServer THEN RepOf[id] ELSE d.set
  BY DEF Save
<1> HIDE DEF x
<1>4. e \in Doc
  <2>1. Save(d, n, RepOf[id], x) \in Doc
    BY <1>1, <1>2, SaveIsDoc
  <2> QED
    BY <2>1 DEF x
<1>5. Kept(n, e)
  BY <1>1, <1>3 DEF Kept
<1> QED
  BY <1>3, <1>4, <1>5, NoSelfAssumption

\* A harvest saves a record of the server's own.
LEMMA SaveLocalStep ==
  ASSUME TypeOK, Sane, NEW id \in Ids, NEW del \in BOOLEAN, SaveLocal(id, del)
  PROVE  IInv'
<1> DEFINE n == At[RepOf[id]]
           d == Seen(n, run[n])[id]
           e == Save(d, n, RepOf[id], [ver |-> latest[id] + 1, deleted |-> del])
<1>1. n \in Servers
  BY RepsAssumption
<1>2. /\ latest' = [latest EXCEPT ![id] = @ + 1] /\ changes' = changes + 1
      /\ UNCHANGED <<now, names, feds, renames, fails>>
  BY DEF SaveLocal
<1>3. latest' \in [Ids -> Nat] /\ changes' \in Nat
  BY <1>2 DEF TypeOK
<1>4. Sound(n, run[n]) /\ run[n] \in Run
  BY <1>1 DEF Sane, Sound
<1>5. Seen(n, run[n]) \in [Ids -> Doc]
  BY <1>1, <1>4, SeenIsTable
<1>6. d \in Doc /\ Kept(n, d)
  <2>1. Kept(n, d)
    BY <1>1, <1>4 DEF Sound, Sane, Stored, Seen
  <2> QED
    BY <2>1, <1>5
<1>7. /\ e \in Doc /\ Kept(n, e)
      /\ e.src \in Peers[n] => e.src = d.src /\ e.set = d.set
  BY <1>1, <1>6, LocalSave
<1>8. CASE /\ id \notin run[n].wrote
           /\ Publish(n, {id}, [i \in Ids |-> e], run[n])
           /\ slipped' = [m \in Servers |->
                [slipped[m] EXCEPT ![n] = Behind(@, {id}, [i \in Ids |-> e], feds[m][n].dataXml)]]
  <2>1. d = docs[n][id]
    BY <1>8 DEF Seen
  <2> DEFINE t == [i \in Ids |-> e]
  <2> HIDE DEF e, d
  <2>2. t \in [Ids -> Doc] /\ {id} \in SUBSET Ids
    BY <1>7
  <2>3. /\ docs' \in [Servers -> [Ids -> Doc]] /\ run' \in [Servers -> Run]
        /\ docs'[n] = [i \in Ids |-> IF i \in {id} THEN t[i] ELSE docs[n][i]]
        /\ run'[n] = run[n]
        /\ \A m \in Servers \ {n} : docs'[m] = docs[m] /\ Sound(m, run[m])'
    <3> HIDE DEF t
    <3>1. Publish(n, {id}, t, run[n])
      BY <1>8 DEF t
    <3> QED
      BY <3>1, <2>2, <1>1, <1>4, PublishStep
  <2>4. slipped' \in [Servers -> [Servers -> SUBSET Ids]]
    <3> HIDE DEF t
    <3>1. slipped' = [m \in Servers |->
            [slipped[m] EXCEPT ![n] = Behind(@, {id}, t, feds[m][n].dataXml)]]
      BY <1>8 DEF t
    <3>2. ASSUME NEW m \in Servers
          PROVE  [slipped[m] EXCEPT ![n] = Behind(@, {id}, t, feds[m][n].dataXml)]
                   \in [Servers -> SUBSET Ids]
      <4>1. slipped[m] \in [Servers -> SUBSET Ids]
        BY DEF TypeOK
      <4>2. Behind(slipped[m][n], {id}, t, feds[m][n].dataXml) \in SUBSET Ids
        BY <1>1, <4>1, BehindTypes
      <4> QED
        BY <4>1, <4>2
    <3> QED
      BY <3>1, <3>2
  <2>5. TypeOK'
    BY <1>2, <1>3, <2>3, <2>4 DEF TypeOK
  <2>6. \A i \in Ids : docs'[n][i] = IF i = id THEN e ELSE docs[n][i]
    BY <2>3
  <2>7. Housed(n, docs[n], feds[n])'
    BY <1>1, <1>2, <1>7, <2>1, <2>6 DEF Housed, Sane
  <2>8. Stored(n)'
    BY <1>1, <1>7, <2>6 DEF Stored, Sane, Kept
  <2>9. Sound(n, run[n])'
    <3>1. \A i \in Ids : Seen(n, run[n])'[i] = IF i = id THEN e ELSE Seen(n, run[n])[i]
      <4>1. id \notin run[n].wrote
        BY <1>8
      <4>2. run'[n] = run[n]
        BY <2>3
      <4>3. ASSUME NEW i \in Ids
            PROVE  Seen(n, run[n])'[i] = IF i = id THEN e ELSE Seen(n, run[n])[i]
        BY <4>1, <4>2, <2>6 DEF Seen
      <4> QED
        BY <4>3
    <3>2. ASSUME run[n].kind # "idle", NEW i \in Ids, Seen(n, run[n])'[i].src \in Peers[n]
          PROVE  Seen(n, run[n])'[i].set \in run[n].feds[Seen(n, run[n])'[i].src].subs
      <4>1. /\ Seen(n, run[n])'[i].src = Seen(n, run[n])[i].src
            /\ Seen(n, run[n])'[i].set = Seen(n, run[n])[i].set
        BY <1>7, <3>1, <3>2 DEF d
      <4>2. Seen(n, run[n])[i].src \in Peers[n]
              => Seen(n, run[n])[i].set \in run[n].feds[Seen(n, run[n])[i].src].subs
        BY <1>4, <3>2 DEF Sound, Housed
      <4> QED
        BY <3>2, <4>1, <4>2
    <3>3. \A i \in Ids : Kept(n, run[n].docs[i])'
      BY <1>4, <2>3 DEF Sound, Kept
    <3> QED
      BY <1>4, <2>3, <3>2, <3>3 DEF Sound, Housed
  <2>10. ASSUME NEW m \in Servers \ {n}
         PROVE  Stored(m)' /\ Housed(m, docs[m], feds[m])' /\ Sound(m, run[m])'
    BY <1>2, <2>3 DEF Sane, Stored, Housed, Kept
  <2> QED
    BY <2>5, <2>7, <2>8, <2>9, <2>10 DEF IInv, Sane
<1>9. CASE /\ run[n].kind = "robo" /\ run[n].todo = {} /\ run[n].peer = NoServer
           /\ run' = [run EXCEPT ![n] = Written(@, {id}, e)]
           /\ UNCHANGED <<docs, slipped>>
  <2> DEFINE w == Written(run[n], {id}, e)
  <2>1. run' = [run EXCEPT ![n] = w] /\ docs' = docs /\ slipped' = slipped
    BY <1>9
  <2>2. e.src \in Peers[n] => e.set \in run[n].feds[e.src].subs
    BY <1>4, <1>7, <1>9 DEF Sound, Housed
  <2> HIDE DEF e
  <2>3. Sound(n, w)
    BY <1>1, <1>4, <1>7, <1>9, <2>2, WrittenIsSound
  <2>4. run'[n] = w /\ \A m \in Servers \ {n} : run'[m] = run[m]
    BY <1>1, <2>1 DEF TypeOK
  <2> HIDE DEF w
  <2>5. \A m \in Servers : Sound(m, run[m])'
    BY <1>1, <2>1, <2>3, <2>4, SoundStays DEF Sane
  <2>6. run' \in [Servers -> Run]
    BY <1>1, <2>1, <2>3 DEF TypeOK, Sound
  <2>7. TypeOK'
    BY <1>2, <1>3, <2>1, <2>6 DEF TypeOK
  <2>8. \A m \in Servers : Stored(m)' /\ Housed(m, docs[m], feds[m])'
    BY <1>2, <2>1 DEF Sane, Stored, Housed, Kept
  <2> QED
    BY <2>5, <2>7, <2>8 DEF IInv, Sane
<1> QED
  BY <1>8, <1>9 DEF SaveLocal

\* A transaction ends, committed or rolled back.
LEMMA EndRunStep ==
  ASSUME TypeOK, Sane, NEW n \in Servers, EndRun(n)
  PROVE  IInv'
<1> DEFINE r == run[n]
<1>1. Sound(n, r) /\ r \in Run /\ r.kind # "idle"
  BY DEF Sane, Sound, EndRun
<1>2. UNCHANGED <<now, names, latest, changes, renames, fails>>
  BY DEF EndRun
<1>3. CASE r.poisoned
  <2>1. run' = [run EXCEPT ![n] = Idle] /\ UNCHANGED <<docs, feds, slipped>>
    BY <1>3 DEF EndRun
  <2>2. run'[n] = Idle
    BY <2>1 DEF TypeOK
  <2>3. Sound(n, run[n])'
    BY <2>1, <2>2, IdleIsSound, SoundStays
  <2>4. fails' \in Nat
    BY <1>2 DEF TypeOK
  <2> QED
    BY <1>2, <2>1, <2>3, <2>4, OneServerStep
<1>4. CASE ~r.poisoned
  <2>1. /\ Publish(n, r.wrote, r.docs, Idle)
        /\ feds' = [feds EXCEPT ![n] = r.feds]
        /\ slipped' = [m \in Servers |->
             IF m = n THEN r.slipped
             ELSE [slipped[m] EXCEPT ![n] = Behind(@, r.wrote, r.docs, feds[m][n].dataXml)]]
    BY <1>4 DEF EndRun
  <2>2. /\ r.wrote \in SUBSET Ids /\ r.docs \in [Ids -> Doc]
        /\ r.feds \in [Servers -> Fed] /\ r.slipped \in [Servers -> SUBSET Ids]
    BY <1>1 DEF Run
  <2> HIDE DEF r
  <2>3. /\ docs' \in [Servers -> [Ids -> Doc]] /\ run' \in [Servers -> Run]
        /\ docs'[n] = [id \in Ids |-> IF id \in r.wrote THEN r.docs[id] ELSE docs[n][id]]
        /\ run'[n] = Idle
        /\ \A m \in Servers \ {n} : docs'[m] = docs[m] /\ Sound(m, run[m])'
    BY <2>1, <2>2, IdleIsRun, PublishStep
  <2>4. ASSUME NEW m \in Servers
        PROVE  [slipped[m] EXCEPT ![n] = Behind(@, r.wrote, r.docs, feds[m][n].dataXml)]
                 \in [Servers -> SUBSET Ids]
    <3>1. slipped[m] \in [Servers -> SUBSET Ids]
      BY DEF TypeOK
    <3>2. Behind(slipped[m][n], r.wrote, r.docs, feds[m][n].dataXml) \in SUBSET Ids
      BY <2>2, <3>1, BehindTypes
    <3> QED
      BY <3>1, <3>2
  <2>5. slipped' \in [Servers -> [Servers -> SUBSET Ids]]
    BY <2>1, <2>2, <2>4
  <2>6. feds' \in [Servers -> [Servers -> Fed]] /\ feds'[n] = r.feds
        /\ \A m \in Servers \ {n} : feds'[m] = feds[m]
    BY <2>1, <2>2 DEF TypeOK
  <2>7. TypeOK'
    BY <1>2, <2>3, <2>5, <2>6 DEF TypeOK
  <2>8. docs'[n] = Seen(n, r)
    BY <2>3 DEF Seen
  <2>9. Housed(n, docs[n], feds[n])'
    <3>1. Housed(n, Seen(n, r), r.feds)
      BY <1>1 DEF Sound
    <3> QED
      BY <3>1, <2>6, <2>8 DEF Housed
  <2>10. Stored(n)'
    <3>1. \A id \in Ids : Kept(n, r.docs[id]) /\ Kept(n, docs[n][id])
      BY <1>1 DEF Sound, Sane, Stored
    <3> QED
      BY <3>1, <2>3 DEF Stored, Kept
  <2>11. Sound(n, run[n])'
    <3>1. Idle.kind = "idle"
      BY DEF Idle
    <3>2. Sound(n, Idle)
      BY IdleIsSound
    <3> QED
      BY <2>3, <3>1, <3>2 DEF Sound, Kept
  <2>12. ASSUME NEW m \in Servers \ {n}
         PROVE  Stored(m)' /\ Housed(m, docs[m], feds[m])' /\ Sound(m, run[m])'
    BY <2>3, <2>6 DEF Sane, Stored, Housed, Kept
  <2> QED
    BY <2>7, <2>9, <2>10, <2>11, <2>12 DEF IInv, Sane
<1> QED
  BY <1>3, <1>4

\* A crash rolls the transaction back.
LEMMA CrashStep ==
  ASSUME TypeOK, Sane, NEW n \in Servers, Crash(n)
  PROVE  IInv'
<1>1. /\ run' = [run EXCEPT ![n] = Idle] /\ fails' = fails + 1
      /\ UNCHANGED <<now, names, latest, docs, feds, slipped, changes, renames>>
  BY DEF Crash
<1>2. run'[n] = Idle
  BY <1>1 DEF TypeOK
<1>3. Sound(n, run[n])'
  BY <1>1, <1>2, IdleIsSound, SoundStays
<1>4. fails' \in Nat
  BY <1>1 DEF TypeOK
<1> QED
  BY <1>1, <1>3, <1>4, OneServerStep

\* The clock and the names.
LEMMA TickRenameStep ==
  ASSUME TypeOK, Sane,
         Tick \/ (\E r \in Reps, nm \in Names : Rename(r, nm)) \/ UNCHANGED vars
  PROVE  IInv'
<1>1. UNCHANGED <<latest, docs, feds, run, slipped, changes, fails>>
  BY DEF Tick, Rename, vars
<1>2. now' \in Nat /\ names' \in [Reps -> Names] /\ renames' \in Nat
  BY DEF Tick, Rename, vars, TypeOK
<1>3. TypeOK'
  BY <1>1, <1>2 DEF TypeOK
<1>4. \A n \in Servers : Stored(n)' /\ Housed(n, docs[n], feds[n])'
  BY <1>1 DEF Sane, Stored, Housed, Kept
<1>5. \A n \in Servers : Sound(n, run[n])'
  BY <1>1, SoundStays DEF Sane
<1> QED
  BY <1>3, <1>4, <1>5 DEF IInv, Sane

\* A step of an update that has begun, or its start.
LEMMA UpdateStep ==
  ASSUME TypeOK, Sane, NEW n \in Servers,
         \/ \E p \in Servers, apagar \in BOOLEAN : StartOne(n, p, apagar)
         \/ \E apagar \in BOOLEAN : StartAll(n, apagar)
         \/ StartRobo(n)
         \/ \E unchecked \in BOOLEAN : FederationFails(n, unchecked)
         \/ \E id \in Ids : SkipRecord(n, id)
         \/ \E p \in Servers : NextFederation(n, p)
         \/ ListSets(n) \/ ListRecords(n) \/ (\E id \in Ids : ImportRecord(n, id))
         \/ UnknownSet(n) \/ FinishFederation(n)
  PROVE  IInv'
<1>1. Sound(n, run[n])'
  BY StartsAreSound, FederationFailsIsSound, NextFederationIsSound, ListSetsIsSound,
     ListRecordsIsSound, ImportRecordIsSound, SkipRecordIsSound, UnknownSetIsSound,
     FinishFederationIsSound
<1>2. UNCHANGED <<now, names, latest, docs, feds, slipped, changes, renames>>
  BY DEF StartOne, StartAll, StartRobo, FederationFails, NextFederation, ListSets,
     ListRecords, ImportRecord, SkipRecord, UnknownSet, FinishFederation
<1>3. fails' \in Nat
  <2>1. fails' = fails \/ fails' = fails + 1
    BY Zenon DEF StartOne, StartAll, StartRobo, FederationFails, NextFederation, ListSets,
       ListRecords, ImportRecord, SkipRecord, UnknownSet, FinishFederation
  <2> QED
    BY <2>1 DEF TypeOK
<1>4. \E r : run' = [run EXCEPT ![n] = r]
  BY DEF StartOne, StartAll, StartRobo, FederationFails, NextFederation, ListSets,
     ListRecords, ImportRecord, SkipRecord, UnknownSet, FinishFederation
<1> QED
  BY <1>1, <1>2, <1>3, <1>4, OneServerStep

-----------------------------------------------------------------------------
(* What an update vouches for *)

\* A document n has is of its own repository, or comes from a server it federates,
\* whose own it is if that one federates nobody.
Legit(n, id, src) ==
  src # NoServer =>
    \/ src = n /\ At[RepOf[id]] = n
    \/ src \in Peers[n] /\ (Peers[src] = {} => At[RepOf[id]] = src)

\* Where the documents of the update r of n come from.
Origin(n, r) ==
  /\ \A id \in Ids : Legit(n, id, r.docs[id].src)
  /\ r.todo \subseteq Peers[n]
  /\ r.peer # NoServer => r.peer \in Peers[n]
  /\ \A id \in Ids : r.got[id] # NoRec => r.step = "import" /\ Legit(n, id, r.peer)

\* With the tables T committed, D mirrors for n what is behind the cursors of its
\* rows F and has not slipped.
Vouched(T, n, D, F, L) ==
  \A p \in Servers, id \in Ids :
    /\ OnlyFrom(n, p, id) /\ id \notin L[p]
    /\ T[p][id].src # NoServer /\ T[p][id].created < F[p].dataXml
    => Mirrors(D[id], T[p][id])

\* What the transaction of the update r reads, where the table is t.
Reads(t, r) == [id \in Ids |-> IF id \in r.wrote THEN r.docs[id] ELSE t[id]]

\* The response in hand: a record of it was asked for, and brings what the peer
\* has unless that changed since; what it does not bring, or brought already, is
\* mirrored up to its date.
InHand(T, n, r) ==
  \A id \in Ids :
    LET p == r.peer
        e == T[p][id]
        x == r.got[id]
    IN  /\ x # NoRec => id \in r.slipped[p] \/ e.created >= r.feds[p].dataXml
        /\ /\ OnlyFrom(n, p, id) /\ id \notin r.late
           /\ e.src # NoServer /\ e.created < r.date
           /\ r.feds[p].dataXml = NoDate \/ id \notin r.slipped[p]
           => IF x = NoRec THEN Mirrors(Reads(T[n], r)[id], e)
              ELSE x.ver = e.ver /\ x.deleted = e.deleted

Held(T, n, r) ==
  /\ Origin(n, r)
  /\ Vouched(T, n, Reads(T[n], r), r.feds, r.slipped)
  /\ r.step = "import" => InHand(T, n, r)

Founded(T, n, F, L) ==
  /\ \A id \in Ids : Legit(n, id, T[n][id].src)
  /\ Vouched(T, n, T[n], F, L)

\* The tables and the transactions vouch for what is behind their cursors.
Mirrored ==
  \A n \in Servers : Founded(docs, n, feds[n], slipped[n]) /\ Held(docs, n, run[n])

Tables == [Servers -> [Ids -> Doc]]

\* Who can have the document.
LEMMA FromIs ==
  ASSUME NEW n \in Servers, NEW p \in Servers, NEW id \in Ids, OnlyFrom(n, p, id)
  PROVE  /\ p \in Peers[n] /\ p # n /\ At[RepOf[id]] = p
         /\ \A src : Legit(n, id, src) /\ src # NoServer => src = p
BY NoSelfAssumption DEF OnlyFrom, Legit

LEMMA ReadsIs ==
  ASSUME NEW T \in Tables, NEW n \in Servers, NEW r \in Run
  PROVE  Reads(T[n], r) \in [Ids -> Doc]
BY DEF Reads, Run, Tables

LEMMA ReadsWritten ==
  ASSUME NEW t, NEW r \in Run, NEW ids \in SUBSET Ids, NEW d \in Doc, NEW id \in Ids
  PROVE  Reads(t, Written(r, ids, d))[id] = IF id \in ids THEN d ELSE Reads(t, r)[id]
<1> DEFINE w == Written(r, ids, d)
<1>1. /\ w.wrote = r.wrote \cup ids
      /\ w.docs = [i \in Ids |-> IF i \in ids THEN d ELSE r.docs[i]]
  BY WrittenFields
<1> HIDE DEF w
<1>2. Reads(t, w)[id] = IF id \in ids THEN d ELSE Reads(t, r)[id]
  BY <1>1 DEF Reads
<1> QED
  BY <1>2 DEF w

LEMMA ReadsLegit ==
  ASSUME NEW T, NEW n \in Servers, NEW r, Origin(n, r),
         \A id \in Ids : Legit(n, id, T[n][id].src)
  PROVE  \A id \in Ids : Legit(n, id, Reads(T[n], r)[id].src)
BY DEF Reads, Origin

\* Vouching for less: what was done to the update leaves its documents, brings no
\* cursor forward, and lets nothing slip unnoticed.
LEMMA HeldFewer ==
  ASSUME NEW T \in Tables, NEW n \in Servers, NEW r \in Run, Held(T, n, r), NEW e \in Run,
         e.docs = r.docs, e.wrote = r.wrote, e.todo \subseteq Peers[n],
         e.peer # NoServer => e.peer \in Peers[n],
         e.step # "import", \A id \in Ids : e.got[id] = NoRec,
         \A q \in Servers : /\ r.slipped[q] \subseteq e.slipped[q]
                            /\ e.feds[q].dataXml \in {NoDate, r.feds[q].dataXml}
  PROVE  Held(T, n, e)
<1>1. Reads(T[n], e) = Reads(T[n], r)
  BY DEF Reads
<1>2. Origin(n, e)
  BY DEF Held, Origin
<1>3. Vouched(T, n, Reads(T[n], e), e.feds, e.slipped)
  <2> SUFFICES ASSUME NEW p \in Servers, NEW id \in Ids,
                      OnlyFrom(n, p, id), id \notin e.slipped[p],
                      T[p][id].src # NoServer, T[p][id].created < e.feds[p].dataXml
               PROVE  Mirrors(Reads(T[n], r)[id], T[p][id])
    BY <1>1 DEF Vouched
  <2>1. T[p][id].created \in Nat
    BY DEF Tables, Doc
  <2>2. e.feds[p].dataXml = r.feds[p].dataXml /\ id \notin r.slipped[p]
    BY <2>1
  <2> QED
    BY <2>2 DEF Held, Vouched
<1> QED
  BY <1>2, <1>3 DEF Held

\* Writing documents that nothing vouches for.
LEMMA WrittenHolds ==
  ASSUME NEW T \in Tables, NEW n \in Servers, NEW r \in Run, Held(T, n, r), r.step # "import",
         NEW ids \in SUBSET Ids, NEW d \in Doc, \A id \in ids : Legit(n, id, d.src),
         \A p \in Servers, id \in ids :
           OnlyFrom(n, p, id) /\ id \notin r.slipped[p] => ~(T[p][id].created < r.feds[p].dataXml)
  PROVE  Held(T, n, Written(r, ids, d))
<1> DEFINE w == Written(r, ids, d)
<1>1. /\ w.docs = [id \in Ids |-> IF id \in ids THEN d ELSE r.docs[id]]
      /\ w.feds = r.feds /\ w.todo = r.todo /\ w.peer = r.peer /\ w.step = r.step
      /\ w.slipped = r.slipped /\ w.got = r.got
  BY WrittenFields, WrittenKeeps
<1>2. \A id \in Ids : Reads(T[n], w)[id] = IF id \in ids THEN d ELSE Reads(T[n], r)[id]
  BY ReadsWritten
<1> HIDE DEF w
<1>3. Origin(n, w)
  BY <1>1 DEF Held, Origin
<1>4. Vouched(T, n, Reads(T[n], w), w.feds, w.slipped)
  <2> SUFFICES ASSUME NEW p \in Servers, NEW id \in Ids,
                      OnlyFrom(n, p, id), id \notin r.slipped[p],
                      T[p][id].src # NoServer, T[p][id].created < r.feds[p].dataXml
               PROVE  Mirrors(Reads(T[n], w)[id], T[p][id])
    BY <1>1 DEF Vouched
  <2>1. Reads(T[n], w)[id] = Reads(T[n], r)[id]
    BY <1>2
  <2> QED
    BY <2>1 DEF Held, Vouched
<1>5. Held(T, n, w)
  BY <1>1, <1>3, <1>4 DEF Held
<1> QED
  BY <1>5 DEF w

\* No update vouches for anything.
LEMMA IdleHolds ==
  ASSUME NEW T \in Tables, NEW n \in Servers
  PROVE  Held(T, n, Idle)
<1>1. /\ Idle.step = "none" /\ Idle.peer = NoServer /\ Idle.todo = {}
      /\ \A id \in Ids : Idle.docs[id].src = NoServer /\ Idle.got[id] = NoRec
      /\ \A p \in Servers : Idle.feds[p].dataXml = 0
  BY DEF Idle, NoDoc, Nothing, NewFed
<1>2. Origin(n, Idle)
  BY <1>1 DEF Origin, Legit
<1>3. \A p \in Servers, id \in Ids : ~(T[p][id].created < 0)
  BY DEF Tables, Doc
<1>4. Vouched(T, n, Reads(T[n], Idle), Idle.feds, Idle.slipped)
  BY <1>1, <1>3 DEF Vouched
<1> QED
  BY <1>1, <1>2, <1>4 DEF Held

-----------------------------------------------------------------------------
(* The steps of an update keep what it vouches for *)

\* Entering the update of a federation: what is deleted of it is behind no cursor.
LEMMA EnterHolds ==
  ASSUME TypeOK, NEW n \in Servers, NEW r \in Run, Held(docs, n, r), r.step = "none",
         \A id \in Ids : Legit(n, id, docs[n][id].src), NEW p \in Peers[n],
         NEW apagar \in BOOLEAN
  PROVE  Held(docs, n, Enter(n, r, p, apagar))
<1> DEFINE f == IF apagar THEN [r.feds[p] EXCEPT !.ultima = FALSE, !.dataXml = NoDate]
                ELSE r.feds[p]
           gone == IF ~f.ultima /\ f.dataXml = NoDate
                   THEN {id \in Ids : Seen(n, r)[id].src = p} ELSE {}
           e == [r EXCEPT !.todo = @ \ {p}, !.peer = p, !.step = "sets", !.feds[p] = f]
<1>1. p \in Servers
  BY ServersAssumption
<1>2. r.feds \in [Servers -> Fed] /\ r.todo \in SUBSET Servers
  BY DEF Run
<1>3. f \in Fed /\ f.dataXml \in {NoDate, r.feds[p].dataXml}
  BY <1>1, <1>2 DEF Fed
<1>4. gone \in SUBSET Ids /\ (gone # {} => f.dataXml = NoDate)
      /\ \A id \in gone : Seen(n, r)[id].src = p
  OBVIOUS
<1>5. Enter(n, r, p, apagar) = Written(e, gone, NoDoc)
  BY DEF Enter
<1> HIDE DEF f, gone
<1>6. e \in Run
  BY <1>1, <1>2, <1>3 DEF Run
<1>7. /\ e.docs = r.docs /\ e.wrote = r.wrote /\ e.peer = p /\ e.got = r.got
      /\ e.todo = r.todo \ {p} /\ e.step = "sets" /\ e.slipped = r.slipped
      /\ e.feds = [r.feds EXCEPT ![p] = f]
  BY DEF Run
<1> HIDE DEF e
<1>8. \A q \in Servers : e.feds[q].dataXml \in {NoDate, r.feds[q].dataXml}
  BY <1>1, <1>2, <1>3, <1>7
<1>9. /\ docs \in Tables
      /\ e.todo \subseteq Peers[n]
      /\ \A id \in Ids : e.got[id] = NoRec
  BY <1>7 DEF Held, Origin, TypeOK, Tables
<1>10. Held(docs, n, e)
  BY <1>6, <1>7, <1>8, <1>9, HeldFewer
<1>11. \A id \in gone : Legit(n, id, NoDoc.src)
  BY DEF Legit, NoDoc
<1>12. ASSUME NEW q \in Servers, NEW id \in gone, OnlyFrom(n, q, id)
       PROVE  ~(docs[q][id].created < e.feds[q].dataXml)
  <2>1. Seen(n, r)[id] = Reads(docs[n], r)[id]
    BY <1>4 DEF Seen, Reads
  <2>2. Legit(n, id, Reads(docs[n], r)[id].src)
    BY <1>4, ReadsLegit DEF Held
  <2>3. p # NoServer /\ id \in Ids
    BY <1>1, <1>4, ServersAssumption
  <2>4. q = p
    BY <1>4, <1>12, <2>1, <2>2, <2>3, FromIs
  <2>5. e.feds[q].dataXml = 0
    BY <1>1, <1>2, <1>4, <1>7, <2>4
  <2>6. docs[q][id].created \in Nat
    BY <2>3 DEF TypeOK, Doc
  <2> QED
    BY <2>5, <2>6
<1>13. Held(docs, n, Written(e, gone, NoDoc))
  BY <1>4, <1>6, <1>7, <1>9, <1>10, <1>11, <1>12, NoDocIsDoc, WrittenHolds
<1> QED
  BY <1>5, <1>13

\* Opening a transaction.
LEMMA OpenedHolds ==
  ASSUME TypeOK, NEW n \in Servers, Founded(docs, n, feds[n], slipped[n]),
         NEW k \in {"one", "all", "robo"}, NEW ps \in SUBSET Peers[n], NEW apagar \in BOOLEAN
  PROVE  /\ Held(docs, n, Opened(n, k, ps, apagar))
         /\ Opened(n, k, ps, apagar) \in Run /\ Opened(n, k, ps, apagar).step = "none"
<1> DEFINE o == Opened(n, k, ps, apagar)
<1>1. /\ feds[n] \in [Servers -> Fed] /\ slipped[n] \in [Servers -> SUBSET Ids]
      /\ docs[n] \in [Ids -> Doc]
  BY DEF TypeOK
<1>2. ps \subseteq Servers
  BY ServersAssumption
<1>3. o \in Run
  BY <1>1, <1>2, IdleIsRun DEF Opened, Run
<1>4. /\ o.todo = ps /\ o.feds = feds[n] /\ o.slipped = slipped[n]
      /\ o.wrote = {} /\ o.peer = NoServer /\ o.step = "none"
      /\ \A id \in Ids : o.docs[id].src = NoServer /\ o.got[id] = NoRec
  BY DEF Opened, Idle, NoDoc, Nothing
<1> HIDE DEF o
<1>5. Origin(n, o)
  BY <1>4 DEF Origin, Legit
<1>6. \A id \in Ids : Reads(docs[n], o)[id] = docs[n][id]
  BY <1>4 DEF Reads
<1>7. Vouched(docs, n, Reads(docs[n], o), o.feds, o.slipped)
  BY <1>4, <1>6 DEF Founded, Vouched
<1>8. Held(docs, n, o)
  BY <1>4, <1>5, <1>7 DEF Held
<1> QED
  BY <1>3, <1>4, <1>8 DEF o

\* Synchronising the sub-repositories: what is behind the cursor and goes, slips.
LEMMA ListSetsHolds ==
  ASSUME TypeOK, Sane, Mirrored, NEW n \in Servers, ListSets(n)
  PROVE  Held(docs, n, run'[n])
<1> DEFINE r == run[n]
           p == r.peer
           gone == {id \in Ids : Seen(n, r)[id].src = p /\ Seen(n, r)[id].set \notin Listed(p)}
           out == {id \in gone : docs[p][id].created < r.feds[p].dataXml}
           e == [r EXCEPT !.step = "records", !.feds[p].subs = Listed(p),
                          !.slipped[p] = @ \cup out]
<1>1. r \in Run /\ Sound(n, r) /\ r.step = "sets" /\ Held(docs, n, r) /\ docs \in Tables
  BY DEF Sane, Sound, ListSets, Mirrored, TypeOK, Tables
<1>2. p \in Servers /\ p # NoServer
  BY <1>1, ServersAssumption DEF Sound
<1>3. run' = [run EXCEPT ![n] = Written(e, gone, NoDoc)]
  BY DEF ListSets
<1>4. run'[n] = Written(e, gone, NoDoc)
  BY <1>3 DEF TypeOK
<1>5. Listed(p) \subseteq Names
  BY ListedAreNames
<1>6. gone \in SUBSET Ids /\ out \in SUBSET Ids
      /\ \A id \in gone : /\ Seen(n, r)[id].src = p
                          /\ docs[p][id].created < r.feds[p].dataXml => id \in out
  OBVIOUS
<1>7. r.feds \in [Servers -> Fed] /\ r.slipped \in [Servers -> SUBSET Ids]
  BY <1>1 DEF Run
<1> DEFINE g == [r.feds EXCEPT ![p].subs = Listed(p)]
<1>8. g \in [Servers -> Fed]
  BY <1>5, <1>7 DEF Fed
<1>9. \A q \in Servers : g[q].dataXml = r.feds[q].dataXml
  BY <1>7 DEF Fed
<1> DEFINE z == [r.slipped EXCEPT ![p] = @ \cup out]
<1>10. z \in [Servers -> SUBSET Ids]
  BY <1>6, <1>7
<1>11. z[p] = r.slipped[p] \cup out /\ \A q \in Servers : r.slipped[q] \subseteq z[q]
  BY <1>2, <1>7
<1> HIDE DEF out, gone
<1>12. e = [r EXCEPT !.step = "records", !.feds = g, !.slipped = z]
  BY <1>1 DEF Run
<1> HIDE DEF g, z
<1>13. e \in Run
  BY <1>1, <1>8, <1>10, <1>12 DEF Run
<1>14. /\ e.docs = r.docs /\ e.wrote = r.wrote /\ e.got = r.got /\ e.peer = p
       /\ e.todo = r.todo /\ e.step = "records" /\ e.feds = g /\ e.slipped = z
  BY <1>1, <1>12 DEF Run
<1> HIDE DEF e
<1>15. /\ e.todo \subseteq Peers[n] /\ p \in Peers[n]
       /\ \A id \in Ids : e.got[id] = NoRec
  BY <1>1, <1>2, <1>14 DEF Held, Origin
<1>16. Held(docs, n, e)
  BY <1>1, <1>9, <1>11, <1>13, <1>14, <1>15, HeldFewer
<1>17. \A id \in gone : Legit(n, id, NoDoc.src)
  BY DEF Legit, NoDoc
<1>18. ASSUME NEW q \in Servers, NEW id \in gone, OnlyFrom(n, q, id), id \notin e.slipped[q]
       PROVE  ~(docs[q][id].created < e.feds[q].dataXml)
  <2>1. id \in Ids /\ Seen(n, r)[id] = Reads(docs[n], r)[id]
    BY <1>6 DEF Seen, Reads
  <2>2. Legit(n, id, Reads(docs[n], r)[id].src)
    BY <1>1, <2>1, ReadsLegit DEF Held, Mirrored, Founded
  <2>3. q = p
    BY <1>2, <1>6, <1>18, <2>1, <2>2, FromIs
  <2> QED
    BY <1>2, <1>6, <1>9, <1>11, <1>14, <1>18, <2>3
<1>19. Held(docs, n, Written(e, gone, NoDoc))
  BY <1>1, <1>6, <1>13, <1>14, <1>16, <1>17, <1>18, NoDocIsDoc, WrittenHolds
<1> QED
  BY <1>4, <1>19

\* Requesting the records: the response brings what is not mirrored.
LEMMA ListRecordsHolds ==
  ASSUME TypeOK, Sane, Mirrored, NEW n \in Servers, ListRecords(n)
  PROVE  Held(docs, n, run'[n])
<1> DEFINE r == run[n]
           p == r.peer
           got == Records(p, r.feds[p].dataXml)
           w == [r EXCEPT !.step = "import", !.date = now, !.got = got]
<1>1. r \in Run /\ Sound(n, r) /\ r.step = "records" /\ Held(docs, n, r)
  BY DEF Sane, Sound, ListRecords, Mirrored
<1>2. p \in Servers /\ p # NoServer
  BY <1>1, ServersAssumption DEF Sound
<1>3. run'[n] = w
  BY DEF ListRecords, TypeOK
<1>4. r.feds[p].dataXml \in Nat
  BY <1>1, <1>2 DEF Run, Fed
<1>5. ASSUME NEW id \in Ids
      PROVE  IF docs[p][id].src # NoServer /\ docs[p][id].created >= r.feds[p].dataXml
             THEN got[id] # NoRec /\ got[id].ver = docs[p][id].ver
                  /\ got[id].deleted = docs[p][id].deleted
             ELSE got[id] = NoRec
  <2>1. CASE docs[p][id].src # NoServer /\ docs[p][id].created >= r.feds[p].dataXml
    <3>1. got[id] = [set |-> SetOf(p, docs[p][id]), ver |-> docs[p][id].ver,
                     deleted |-> docs[p][id].deleted]
      BY <2>1 DEF Records
    <3>2. got[id].set \in Names
      BY <1>2, <2>1, <3>1, SetOfIsName
    <3>3. NoRec.set \notin Names
      BY NamesAssumption DEF NoRec
    <3> QED
      BY <2>1, <3>1, <3>2, <3>3
  <2>2. CASE ~(docs[p][id].src # NoServer /\ docs[p][id].created >= r.feds[p].dataXml)
    BY <2>2 DEF Records
  <2> QED
    BY <2>1, <2>2
<1>6. /\ w.docs = r.docs /\ w.wrote = r.wrote /\ w.feds = r.feds /\ w.todo = r.todo
      /\ w.peer = p /\ w.slipped = r.slipped /\ w.step = "import" /\ w.got = got
      /\ w.date = now
  BY <1>1 DEF Run
<1> HIDE DEF w, got
<1>7. Reads(docs[n], w) = Reads(docs[n], r)
  BY <1>6 DEF Reads
<1>8. Origin(n, w)
  <2>1. ASSUME NEW id \in Ids, got[id] # NoRec
        PROVE  Legit(n, id, p)
    <3>1. docs[p][id].src # NoServer
      BY <1>5, <2>1
    <3>2. Legit(p, id, docs[p][id].src)
      BY <1>2 DEF Mirrored, Founded
    <3>3. p \in Peers[n]
      BY <1>1, <1>2 DEF Held, Origin
    <3> QED
      BY <3>1, <3>2, <3>3 DEF Legit
  <2> QED
    BY <1>1, <1>6, <2>1 DEF Held, Origin
<1>9. Vouched(docs, n, Reads(docs[n], w), w.feds, w.slipped)
  BY <1>1, <1>6, <1>7 DEF Held
<1>10. InHand(docs, n, w)
  <2> SUFFICES ASSUME NEW id \in Ids
               PROVE  /\ got[id] # NoRec => docs[p][id].created >= r.feds[p].dataXml
                      /\ /\ OnlyFrom(n, p, id)
                         /\ docs[p][id].src # NoServer
                         /\ r.feds[p].dataXml = NoDate \/ id \notin r.slipped[p]
                         => IF got[id] = NoRec THEN Mirrors(Reads(docs[n], r)[id], docs[p][id])
                            ELSE /\ got[id].ver = docs[p][id].ver
                                 /\ got[id].deleted = docs[p][id].deleted
    BY <1>6, <1>7 DEF InHand
  <2>1. docs[p][id].created \in Nat
    BY <1>2 DEF TypeOK, Doc
  <2>2. CASE docs[p][id].src # NoServer /\ docs[p][id].created >= r.feds[p].dataXml
    BY <1>5, <2>2
  <2>3. CASE docs[p][id].src = NoServer
    BY <1>5, <2>3
  <2>4. CASE docs[p][id].src # NoServer /\ docs[p][id].created < r.feds[p].dataXml
    <3>1. got[id] = NoRec /\ r.feds[p].dataXml # NoDate
      BY <1>4, <1>5, <2>1, <2>4
    <3>2. OnlyFrom(n, p, id) /\ id \notin r.slipped[p]
            => Mirrors(Reads(docs[n], r)[id], docs[p][id])
      BY <1>1, <1>2, <2>4 DEF Held, Vouched
    <3> QED
      BY <3>1, <3>2
  <2> QED
    BY <1>4, <2>1, <2>2, <2>3, <2>4
<1>11. Held(docs, n, w)
  BY <1>8, <1>9, <1>10 DEF Held
<1> QED
  BY <1>3, <1>11

\* Importing a record: it was asked for, and it is what the peer has.
LEMMA ImportRecordHolds ==
  ASSUME TypeOK, Sane, Mirrored, NEW n \in Servers, NEW id \in Ids, ImportRecord(n, id)
  PROVE  Held(docs, n, run'[n])
<1> DEFINE r == run[n]
           p == r.peer
           x == r.got[id]
           d == Seen(n, r)[id]
           e == [r EXCEPT !.got[id] = NoRec]
           s == Save(d, r.peer, x.set, x)
<1>1. /\ r \in Run /\ Sound(n, r) /\ r.step = "import" /\ Held(docs, n, r)
      /\ docs \in Tables
  BY DEF Sane, Sound, ImportRecord, Mirrored, TypeOK, Tables
<1>2. p \in Servers /\ p # NoServer
  BY <1>1, ServersAssumption DEF Sound
<1>3. x # NoRec /\ x.set \in r.feds[p].subs
  BY DEF ImportRecord
<1>4. run'[n] = Written(e, {id}, s)
  BY DEF ImportRecord, TypeOK
<1>5. x \in Rec /\ x.set \in Names
  BY <1>1, <1>2, <1>3 DEF Run, Fed
<1>6. d \in Doc /\ d = Reads(docs[n], r)[id]
  <2>1. Seen(n, r) \in [Ids -> Doc]
    BY <1>1, SeenIsTable
  <2> QED
    BY <2>1 DEF Seen, Reads
<1>7. s \in Doc
  <2>1. x.ver \in Nat /\ x.deleted \in BOOLEAN
    BY <1>5 DEF Rec
  <2> QED
    BY <2>1, <1>2, <1>5, <1>6, SaveIsDoc
<1>8. /\ s.src = IF d.src = NoServer THEN p ELSE d.src
      /\ s.ver = IF x.deleted THEN 0 ELSE x.ver
      /\ s.deleted = (d.deleted \/ x.deleted)
  BY DEF Save
<1>9. /\ e \in Run
      /\ \A i \in Ids : e.got[i] = IF i = id THEN NoRec ELSE r.got[i]
  <2>1. NoRec \in Rec
    BY DEF NoRec, Rec
  <2>2. r.got \in [Ids -> Rec]
    BY <1>1 DEF Run
  <2>3. [r.got EXCEPT ![id] = NoRec] \in [Ids -> Rec]
    BY <2>1, <2>2
  <2>4. e.got = [r.got EXCEPT ![id] = NoRec]
    BY <1>1 DEF Run
  <2> QED
    BY <2>2, <2>3, <2>4, <1>1 DEF Run
<1>10. /\ e.docs = r.docs /\ e.wrote = r.wrote /\ e.feds = r.feds /\ e.todo = r.todo
       /\ e.peer = r.peer /\ e.step = r.step /\ e.slipped = r.slipped
       /\ e.date = r.date /\ e.late = r.late
  BY <1>1 DEF Run
<1> DEFINE w == Written(e, {id}, s)
<1> HIDE DEF s, d, x, e
<1>11. /\ w.docs = [i \in Ids |-> IF i \in {id} THEN s ELSE e.docs[i]]
       /\ w.feds = e.feds /\ w.todo = e.todo /\ w.peer = e.peer /\ w.step = e.step
  BY <1>7, <1>9, WrittenFields
<1>12. /\ w.slipped = e.slipped /\ w.got = e.got
       /\ w.date = e.date /\ w.late = e.late
  BY <1>7, <1>9, WrittenKeeps
<1>13. \A i \in Ids : Reads(docs[n], w)[i] = IF i \in {id} THEN s ELSE Reads(docs[n], e)[i]
  BY <1>7, <1>9, ReadsWritten
<1>14. Reads(docs[n], e) = Reads(docs[n], r)
  BY <1>10 DEF Reads
<1> HIDE DEF w
<1>15. Legit(n, id, p) /\ Legit(n, id, s.src) /\ s.src # NoServer
  <2>1. Legit(n, id, p)
    BY <1>1, <1>3 DEF Held, Origin, x
  <2>2. Legit(n, id, d.src)
    BY <1>1, <1>6, ReadsLegit DEF Held, Mirrored, Founded
  <2> QED
    BY <1>2, <1>8, <2>1, <2>2
<1>16. Origin(n, w)
  <2>1. \A i \in Ids : Legit(n, i, w.docs[i].src)
    BY <1>1, <1>10, <1>11, <1>15 DEF Held, Origin
  <2> QED
    BY <1>1, <1>9, <1>10, <1>11, <1>12, <2>1 DEF Held, Origin
<1>17. \A q \in Servers : OnlyFrom(n, q, id) => q = p
  BY <1>2, <1>15, FromIs
<1>18. id \in r.slipped[p] \/ docs[p][id].created >= r.feds[p].dataXml
  BY <1>1, <1>3 DEF Held, InHand, x
<1>19. docs[p][id].created \in Nat /\ r.feds[p].dataXml \in Nat
  BY <1>1, <1>2 DEF Tables, Doc, Run, Fed
<1>20. Vouched(docs, n, Reads(docs[n], w), w.feds, w.slipped)
  <2> SUFFICES ASSUME NEW q \in Servers, NEW i \in Ids,
                      OnlyFrom(n, q, i), i \notin r.slipped[q],
                      docs[q][i].src # NoServer, docs[q][i].created < r.feds[q].dataXml
               PROVE  Mirrors(Reads(docs[n], w)[i], docs[q][i])
    BY <1>10, <1>11, <1>12 DEF Vouched
  <2>1. i # id
    BY <1>17, <1>18, <1>19
  <2>2. Reads(docs[n], w)[i] = Reads(docs[n], r)[i]
    BY <1>13, <1>14, <2>1
  <2> QED
    BY <1>1, <2>2 DEF Held, Vouched
<1>21. InHand(docs, n, w)
  <2> SUFFICES ASSUME NEW i \in Ids
               PROVE  /\ w.got[i] # NoRec
                           => i \in r.slipped[p] \/ docs[p][i].created >= r.feds[p].dataXml
                      /\ /\ OnlyFrom(n, p, i) /\ i \notin r.late
                         /\ docs[p][i].src # NoServer /\ docs[p][i].created < r.date
                         /\ r.feds[p].dataXml = NoDate \/ i \notin r.slipped[p]
                         => IF w.got[i] = NoRec
                            THEN Mirrors(Reads(docs[n], w)[i], docs[p][i])
                            ELSE /\ w.got[i].ver = docs[p][i].ver
                                 /\ w.got[i].deleted = docs[p][i].deleted
    BY <1>10, <1>11, <1>12 DEF InHand
  <2>1. InHand(docs, n, r)
    BY <1>1 DEF Held
  <2>2. CASE i # id
    <3>1. w.got[i] = r.got[i] /\ Reads(docs[n], w)[i] = Reads(docs[n], r)[i]
      BY <1>9, <1>12, <1>13, <1>14, <2>2
    <3> QED
      BY <2>1, <3>1 DEF InHand
  <2>3. CASE i = id
    <3>1. w.got[i] = NoRec /\ Reads(docs[n], w)[i] = s
      BY <1>9, <1>12, <1>13, <2>3
    <3>2. ASSUME OnlyFrom(n, p, id), id \notin r.late,
                 docs[p][id].src # NoServer, docs[p][id].created < r.date,
                 r.feds[p].dataXml = NoDate \/ id \notin r.slipped[p]
          PROVE  x.ver = docs[p][id].ver /\ x.deleted = docs[p][id].deleted
      BY <1>3, <2>1, <3>2 DEF InHand, x
    <3>3. ASSUME x.ver = docs[p][id].ver, x.deleted = docs[p][id].deleted
          PROVE  Mirrors(s, docs[p][id])
      BY <1>8, <1>15, <3>3 DEF Mirrors
    <3> QED
      BY <2>3, <3>1, <3>2, <3>3
  <2> QED
    BY <2>2, <2>3
<1>22. Held(docs, n, w)
  BY <1>16, <1>20, <1>21 DEF Held
<1> QED
  BY <1>4, <1>22 DEF w

\* A record that is left out is one the date of the response will not vouch for.
LEMMA SkipRecordHolds ==
  ASSUME TypeOK, Sane, Mirrored, NEW n \in Servers, NEW id \in Ids, SkipRecord(n, id)
  PROVE  Held(docs, n, run'[n])
<1> DEFINE r == run[n]
           w == [r EXCEPT !.got[id] = NoRec, !.late = r.late \cup {id}]
<1>1. r \in Run /\ Held(docs, n, r) /\ r.step = "import"
  BY DEF Sane, Sound, Mirrored, SkipRecord
<1>2. run'[n] = w
  BY DEF SkipRecord, TypeOK
<1>3. /\ w.docs = r.docs /\ w.wrote = r.wrote /\ w.feds = r.feds /\ w.todo = r.todo
      /\ w.peer = r.peer /\ w.step = r.step /\ w.slipped = r.slipped /\ w.date = r.date
      /\ w.late = r.late \cup {id}
      /\ \A i \in Ids : w.got[i] = IF i = id THEN NoRec ELSE r.got[i]
  BY <1>1 DEF Run
<1> HIDE DEF w
<1>4. Reads(docs[n], w) = Reads(docs[n], r)
  BY <1>3 DEF Reads
<1>5. Origin(n, w)
  BY <1>1, <1>3 DEF Held, Origin
<1>6. Vouched(docs, n, Reads(docs[n], w), w.feds, w.slipped)
  BY <1>1, <1>3, <1>4 DEF Held
<1>7. InHand(docs, n, w)
  BY <1>1, <1>3, <1>4 DEF Held, InHand
<1>8. Held(docs, n, w)
  BY <1>5, <1>6, <1>7 DEF Held
<1> QED
  BY <1>2, <1>8

\* Giving up: what is imported stays, and nothing more is vouched for.
LEMMA GivenUpHolds ==
  ASSUME TypeOK, NEW n \in Servers, NEW r \in Run, Held(docs, n, r), NEW b \in BOOLEAN,
         NEW out \in SUBSET Servers
  PROVE  Held(docs, n, Left([r EXCEPT !.poisoned = b, !.erros = out]))
<1> DEFINE e == [r EXCEPT !.poisoned = b, !.erros = out]
           w == Left(e)
<1>1. NoRec \in Rec
  BY DEF NoRec, Rec
<1>2. Nothing \in [Ids -> Rec]
  BY <1>1 DEF Nothing
<1>3. e \in Run
  BY DEF Run
<1>4. w \in Run
  <2> HIDE DEF e
  <2> QED
    BY <1>2, <1>3 DEF Left, Run
<1>5. /\ w.docs = r.docs /\ w.wrote = r.wrote /\ w.feds = r.feds /\ w.todo = r.todo
      /\ w.slipped = r.slipped /\ w.peer = NoServer /\ w.step = "none"
      /\ \A id \in Ids : w.got[id] = NoRec
  BY DEF Left, Run, Nothing
<1> HIDE DEF e, w
<1>6. docs \in Tables /\ w.todo \subseteq Peers[n] /\ w.peer = NoServer /\ w.step # "import"
  BY <1>5 DEF TypeOK, Tables, Held, Origin
<1>7. Held(docs, n, w)
  BY <1>4, <1>5, <1>6, HeldFewer
<1> QED
  BY <1>7 DEF w, e

LEMMA UnknownSetHolds ==
  ASSUME TypeOK, Sane, Mirrored, NEW n \in Servers, UnknownSet(n)
  PROVE  Held(docs, n, run'[n])
<1> DEFINE r == run[n]
<1>1. r \in Run /\ Held(docs, n, r) /\ r.step = "import" /\ Sound(n, r)
  BY DEF Sane, Sound, Mirrored, UnknownSet
<1>2. run'[n] = Left([r EXCEPT !.poisoned = TRUE, !.erros = r.erros \cup {r.peer}])
  BY DEF UnknownSet, TypeOK
<1>3. r.erros \cup {r.peer} \in SUBSET Servers
  BY <1>1 DEF Run, Sound
<1> QED
  BY <1>1, <1>2, <1>3, GivenUpHolds

LEMMA FederationFailsHolds ==
  ASSUME TypeOK, Sane, Mirrored, NEW n \in Servers, NEW unchecked \in BOOLEAN,
         FederationFails(n, unchecked)
  PROVE  Held(docs, n, run'[n])
<1> DEFINE r == run[n]
<1>1. r \in Run /\ Held(docs, n, r) /\ r.peer # NoServer
  BY DEF Sane, Sound, Mirrored, FederationFails
<1>2. run'[n] = Left([r EXCEPT !.poisoned = r.poisoned \/ unchecked,
                               !.erros = r.erros \cup {r.peer}])
  BY DEF FederationFails, TypeOK
<1>3. r.erros \cup {r.peer} \in SUBSET Servers /\ (r.poisoned \/ unchecked) \in BOOLEAN
  BY <1>1 DEF Run
<1> QED
  BY <1>1, <1>2, <1>3, GivenUpHolds

\* Storing the dates: all of the response was imported, so what the peer had at its
\* date is mirrored, but for what was committed since with an earlier one.
LEMMA FinishFederationHolds ==
  ASSUME TypeOK, Sane, Mirrored, NEW n \in Servers, FinishFederation(n)
  PROVE  Held(docs, n, run'[n])
<1> DEFINE r == run[n]
           p == r.peer
           sl == (IF r.feds[p].dataXml = NoDate THEN {} ELSE r.slipped[p]) \cup r.late
           e == [r EXCEPT !.feds[p].ultima = TRUE, !.feds[p].dataXml = r.date,
                          !.slipped[p] = (IF r.feds[p].dataXml = NoDate THEN {} ELSE @)
                                            \cup r.late]
           g == [r.feds EXCEPT ![p].ultima = TRUE, ![p].dataXml = r.date]
           z == [r.slipped EXCEPT ![p] = sl]
           w == Left(e)
<1>1. /\ r \in Run /\ Sound(n, r) /\ r.step = "import" /\ Held(docs, n, r)
      /\ r.got = Nothing
  BY DEF Sane, Sound, FinishFederation, Mirrored
<1>2. p \in Servers
  BY <1>1 DEF Sound
<1>3. run'[n] = w
  BY DEF FinishFederation, TypeOK
<1>4. /\ r.feds \in [Servers -> Fed] /\ r.slipped \in [Servers -> SUBSET Ids]
      /\ r.late \in SUBSET Ids /\ r.date \in Nat
  BY <1>1 DEF Run
<1>5. \A q \in Servers : g[q].dataXml = IF q = p THEN r.date ELSE r.feds[q].dataXml
  BY <1>2, <1>4 DEF Fed
<1>6. \A q \in Servers : z[q] = IF q = p THEN sl ELSE r.slipped[q]
  BY <1>2, <1>4
<1>7. e = [r EXCEPT !.feds = g, !.slipped = z]
  BY <1>1, <1>2, <1>4 DEF Run
<1>8. \A id \in Ids : id \notin sl => /\ id \notin r.late
                                      /\ r.feds[p].dataXml = NoDate \/ id \notin r.slipped[p]
  OBVIOUS
<1> HIDE DEF sl, g, z, e
<1>9. /\ e.docs = r.docs /\ e.wrote = r.wrote /\ e.feds = g /\ e.todo = r.todo
      /\ e.slipped = z
  BY <1>1, <1>7 DEF Run
<1>10. /\ w.docs = e.docs /\ w.wrote = e.wrote /\ w.feds = e.feds /\ w.todo = e.todo
       /\ w.slipped = e.slipped /\ w.peer = NoServer /\ w.step = "none"
       /\ \A id \in Ids : w.got[id] = NoRec
  BY <1>1, <1>7 DEF Left, Run, Nothing
<1> HIDE DEF w
<1>11. Origin(n, w)
  BY <1>1, <1>9, <1>10 DEF Held, Origin
<1>12. Reads(docs[n], w) = Reads(docs[n], r)
  BY <1>9, <1>10 DEF Reads
<1>13. Vouched(docs, n, Reads(docs[n], w), w.feds, w.slipped)
  <2> SUFFICES ASSUME NEW q \in Servers, NEW id \in Ids,
                      OnlyFrom(n, q, id), id \notin z[q],
                      docs[q][id].src # NoServer, docs[q][id].created < g[q].dataXml
               PROVE  Mirrors(Reads(docs[n], r)[id], docs[q][id])
    BY <1>9, <1>10, <1>12 DEF Vouched
  <2>1. CASE q = p
    <3>1. id \notin sl /\ docs[p][id].created < r.date
      BY <1>2, <1>5, <1>6, <2>1
    <3>2. r.got[id] = NoRec
      BY <1>1 DEF Nothing
    <3>3. InHand(docs, n, r)
      BY <1>1 DEF Held
    <3>4. id \notin r.late /\ (r.feds[p].dataXml = NoDate \/ id \notin r.slipped[p])
      BY <1>8, <3>1
    <3> QED
      BY <2>1, <3>1, <3>2, <3>3, <3>4 DEF InHand
  <2>2. CASE q # p
    BY <1>1, <1>5, <1>6, <2>2 DEF Held, Vouched
  <2> QED
    BY <2>1, <2>2
<1>14. Held(docs, n, w)
  BY <1>10, <1>11, <1>13 DEF Held
<1> QED
  BY <1>3, <1>14

\* Going on to the next federation, and starting.
LEMMA NextFederationHolds ==
  ASSUME TypeOK, Sane, Mirrored, NEW n \in Servers, NEW p \in Servers, NextFederation(n, p)
  PROVE  Held(docs, n, run'[n])
<1>1. /\ run[n] \in Run /\ Sound(n, run[n]) /\ Held(docs, n, run[n])
      /\ p \in run[n].todo /\ run[n].peer = NoServer
  BY DEF Sane, Sound, Mirrored, NextFederation
<1>2. run[n].step = "none"
  BY <1>1, ServersAssumption DEF Sound
<1>3. p \in Peers[n] /\ run[n].apagar \in BOOLEAN
  BY <1>1 DEF Held, Origin, Run
<1>4. run'[n] = Enter(n, run[n], p, run[n].apagar)
  BY DEF NextFederation, TypeOK
<1>5. \A id \in Ids : Legit(n, id, docs[n][id].src)
  BY DEF Mirrored, Founded
<1> QED
  BY <1>1, <1>2, <1>3, <1>4, <1>5, EnterHolds

LEMMA StartsHold ==
  ASSUME TypeOK, Sane, Mirrored, NEW n \in Servers,
         \/ \E p \in Servers, apagar \in BOOLEAN : StartOne(n, p, apagar)
         \/ \E apagar \in BOOLEAN : StartAll(n, apagar)
         \/ StartRobo(n)
  PROVE  Held(docs, n, run'[n])
<1>1. Founded(docs, n, feds[n], slipped[n]) /\ \A id \in Ids : Legit(n, id, docs[n][id].src)
  BY DEF Mirrored, Founded
<1>2. ASSUME NEW p \in Servers, NEW apagar \in BOOLEAN, StartOne(n, p, apagar)
      PROVE  Held(docs, n, run'[n])
  <2> DEFINE o == Opened(n, "one", {}, FALSE)
  <2>1. o \in Run /\ o.step = "none" /\ Held(docs, n, o)
    BY <1>1, OpenedHolds
  <2>2. p \in Peers[n]
    BY <1>2 DEF StartOne
  <2>3. run'[n] = Enter(n, o, p, apagar)
    BY <1>2 DEF StartOne, TypeOK
  <2> HIDE DEF o
  <2> QED
    BY <1>1, <2>1, <2>2, <2>3, EnterHolds
<1>3. ASSUME NEW apagar \in BOOLEAN, StartAll(n, apagar)
      PROVE  Held(docs, n, run'[n])
  <2>1. Held(docs, n, Opened(n, "all", Peers[n], apagar))
    BY <1>1, OpenedHolds
  <2>2. run'[n] = Opened(n, "all", Peers[n], apagar)
    BY <1>3 DEF StartAll, TypeOK
  <2> QED
    BY <2>1, <2>2
<1>4. ASSUME StartRobo(n)
      PROVE  Held(docs, n, run'[n])
  <2>1. Held(docs, n, Opened(n, "robo", Peers[n], FALSE))
    BY <1>1, OpenedHolds
  <2>2. run'[n] = Opened(n, "robo", Peers[n], FALSE)
    BY <1>4 DEF StartRobo, TypeOK
  <2> QED
    BY <2>1, <2>2
<1> QED
  BY <1>2, <1>3, <1>4

-----------------------------------------------------------------------------
(* The commits keep what the tables and the transactions vouch for *)

\* n commits the rows ids of d: the tables T become U.
Committed(T, U, n, ids, d) ==
  /\ \A q \in Servers \ {n} : U[q] = T[q]
  /\ \A id \in Ids : U[n][id] = IF id \in ids THEN d[id] ELSE T[n][id]

\* What a server that is past their dates vouched for before it vouches for now, but
\* for what slipped.
LEMMA VouchedPublished ==
  ASSUME NEW T \in Tables, NEW U \in Tables, NEW n \in Servers, NEW m \in Servers,
         NEW ids \in SUBSET Ids, NEW d, Committed(T, U, n, ids, d),
         NEW D, NEW F, NEW L, NEW M, Vouched(T, m, D, F, L),
         \A q \in Servers :
           M[q] = IF q = n THEN Behind(L[n], ids, d, F[n].dataXml) ELSE L[q]
  PROVE  Vouched(U, m, D, F, M)
<1> SUFFICES ASSUME NEW p \in Servers, NEW id \in Ids,
                    OnlyFrom(m, p, id), id \notin M[p],
                    U[p][id].src # NoServer, U[p][id].created < F[p].dataXml
             PROVE  Mirrors(D[id], U[p][id])
  BY DEF Vouched
<1>1. CASE p # n
  BY <1>1 DEF Committed, Vouched
<1>2. CASE p = n
  <2>1. id \notin Behind(L[n], ids, d, F[n].dataXml)
    BY <1>2
  <2>2. id \notin ids
    BY <1>2, <2>1 DEF Committed, Behind
  <2>3. id \notin L[n] /\ U[n][id] = T[n][id]
    BY <2>1, <2>2 DEF Committed, Behind
  <2> QED
    BY <1>2, <2>3 DEF Vouched
<1> QED
  BY <1>1, <1>2

LEMMA FoundedPublished ==
  ASSUME NEW T \in Tables, NEW U \in Tables, NEW n \in Servers, NEW m \in Servers \ {n},
         NEW ids \in SUBSET Ids, NEW d, Committed(T, U, n, ids, d),
         NEW F, NEW L, NEW M, Founded(T, m, F, L),
         \A q \in Servers :
           M[q] = IF q = n THEN Behind(L[n], ids, d, F[n].dataXml) ELSE L[q]
  PROVE  Founded(U, m, F, M)
<1>1. U[m] = T[m]
  BY DEF Committed
<1>2. Vouched(T, m, T[m], F, L)
  BY DEF Founded
<1>3. Vouched(U, m, T[m], F, M)
  BY <1>2, VouchedPublished
<1> QED
  BY <1>1, <1>3 DEF Founded

\* The updates in progress on the other servers: what changed behind the date of
\* the response in hand is late.
LEMMA HeldPublished ==
  ASSUME NEW T \in Tables, NEW U \in Tables, NEW n \in Servers, NEW m \in Servers \ {n},
         NEW ids \in SUBSET Ids, NEW d, Committed(T, U, n, ids, d),
         NEW q \in Run, Held(T, m, q), q.step = "import" => q.peer \in Servers
  PROVE  Held(U, m, Told(q, n, ids, d))
<1> DEFINE z == [q.slipped EXCEPT ![n] = Behind(@, ids, d, q.feds[n].dataXml)]
           l == IF q.peer = n /\ q.step = "import" THEN Behind(q.late, ids, d, q.date)
                ELSE q.late
           t == Told(q, n, ids, d)
<1>1. q.slipped \in [Servers -> SUBSET Ids] /\ q.late \in SUBSET Ids
  BY DEF Run
<1>2. t = [q EXCEPT !.slipped = z, !.late = l]
  BY DEF Told, Run
<1>3. /\ t.docs = q.docs /\ t.wrote = q.wrote /\ t.feds = q.feds /\ t.todo = q.todo
      /\ t.peer = q.peer /\ t.step = q.step /\ t.got = q.got /\ t.date = q.date
      /\ t.slipped = z /\ t.late = l
  <2> HIDE DEF z, l, t
  <2> QED
    BY <1>2 DEF Run
<1>4. \A s \in Servers : z[s] = IF s = n THEN Behind(q.slipped[n], ids, d, q.feds[n].dataXml)
                                ELSE q.slipped[s]
  BY <1>1
<1>5. q.peer = n /\ q.step = "import" => l = Behind(q.late, ids, d, q.date)
  OBVIOUS
<1>6. q.peer # n => l = q.late
  OBVIOUS
<1> HIDE DEF z, l, t
<1>7. U[m] = T[m]
  BY DEF Committed
<1>8. Reads(U[m], t) = Reads(T[m], q)
  BY <1>3, <1>7 DEF Reads
<1>9. Origin(m, t)
  BY <1>3 DEF Held, Origin
<1>10. Vouched(U, m, Reads(U[m], t), t.feds, t.slipped)
  <2>1. Vouched(T, m, Reads(T[m], q), q.feds, q.slipped)
    BY DEF Held
  <2>2. Vouched(U, m, Reads(T[m], q), q.feds, z)
    BY <1>4, <2>1, VouchedPublished
  <2> QED
    BY <1>3, <1>8, <2>2
<1>11. ASSUME q.step = "import"
       PROVE  InHand(U, m, t)
  <2> DEFINE p == q.peer
  <2>1. p \in Servers /\ InHand(T, m, q)
    BY <1>11 DEF Held
  <2>2. CASE p # n
    <3>1. U[p] = T[p] /\ z[p] = q.slipped[p] /\ l = q.late
      BY <1>4, <1>6, <2>1, <2>2 DEF Committed
    <3> QED
      BY <1>3, <1>8, <2>1, <3>1 DEF InHand
  <2>3. CASE p = n
    <3> SUFFICES ASSUME NEW id \in Ids
                 PROVE  /\ q.got[id] # NoRec
                             => id \in z[n] \/ U[n][id].created >= q.feds[n].dataXml
                        /\ /\ OnlyFrom(m, n, id) /\ id \notin l
                           /\ U[n][id].src # NoServer /\ U[n][id].created < q.date
                           /\ q.feds[n].dataXml = NoDate \/ id \notin z[n]
                           => IF q.got[id] = NoRec THEN Mirrors(Reads(T[m], q)[id], U[n][id])
                              ELSE /\ q.got[id].ver = U[n][id].ver
                                   /\ q.got[id].deleted = U[n][id].deleted
      BY <1>3, <1>8, <2>3 DEF InHand
    <3>1. z[n] = Behind(q.slipped[n], ids, d, q.feds[n].dataXml)
          /\ l = Behind(q.late, ids, d, q.date)
      BY <1>4, <1>5, <1>11, <2>3
    <3>2. CASE id \in ids
      <4>1. U[n][id] = d[id]
        BY <3>2 DEF Committed
      <4>2. d[id].created \in Nat /\ q.feds[n].dataXml \in Nat /\ q.date \in Nat
        <5>1. U[n][id] \in Doc
          BY DEF Tables
        <5> QED
          BY <4>1, <5>1 DEF Doc, Run, Fed
      <4>3. d[id].created < q.feds[n].dataXml => id \in z[n]
        BY <3>1, <3>2 DEF Behind
      <4>4. d[id].created < q.date => id \in l
        BY <3>1, <3>2 DEF Behind
      <4> QED
        BY <4>1, <4>2, <4>3, <4>4
    <3>3. CASE id \notin ids
      <4>1. U[n][id] = T[n][id]
        BY <3>3 DEF Committed
      <4>2. (id \in z[n] <=> id \in q.slipped[n]) /\ (id \in l <=> id \in q.late)
        BY <3>1, <3>3 DEF Behind
      <4> QED
        BY <2>1, <2>3, <4>1, <4>2 DEF InHand
    <3> QED
      BY <3>2, <3>3
  <2> QED
    BY <2>2, <2>3
<1>12. Held(U, m, t)
  BY <1>3, <1>9, <1>10, <1>11 DEF Held
<1> QED
  BY <1>12 DEF t

\* The server that commits: its own documents concern nobody it harvests.
LEMMA VouchedOwn ==
  ASSUME NEW T \in Tables, NEW U \in Tables, NEW n \in Servers,
         \A q \in Servers \ {n} : U[q] = T[q],
         NEW D, NEW E, \A id \in Ids : At[RepOf[id]] # n => E[id] = D[id],
         NEW F, NEW L, NEW M, \A q \in Servers \ {n} : M[q] = L[q],
         Vouched(T, n, D, F, L)
  PROVE  Vouched(U, n, E, F, M)
<1> SUFFICES ASSUME NEW p \in Servers, NEW id \in Ids,
                    OnlyFrom(n, p, id), id \notin M[p],
                    U[p][id].src # NoServer, U[p][id].created < F[p].dataXml
             PROVE  Mirrors(E[id], U[p][id])
  BY DEF Vouched
<1>1. p # n /\ At[RepOf[id]] # n
  BY FromIs
<1> QED
  BY <1>1 DEF Vouched

\* ... nor the update that is in progress there.
LEMMA HeldOwn ==
  ASSUME NEW T \in Tables, NEW U \in Tables, NEW n \in Servers,
         \A q \in Servers \ {n} : U[q] = T[q],
         \A id \in Ids : At[RepOf[id]] # n => U[n][id] = T[n][id],
         NEW r, Held(T, n, r), r.step = "import" => r.peer \in Servers \ {n}
  PROVE  Held(U, n, r)
<1>1. \A id \in Ids : At[RepOf[id]] # n => Reads(U[n], r)[id] = Reads(T[n], r)[id]
  BY DEF Reads
<1>2. Vouched(U, n, Reads(U[n], r), r.feds, r.slipped)
  <2>1. Vouched(T, n, Reads(T[n], r), r.feds, r.slipped)
    BY DEF Held
  <2> QED
    BY <1>1, <2>1, VouchedOwn
<1>3. ASSUME r.step = "import"
      PROVE  InHand(U, n, r)
  <2>1. InHand(T, n, r) /\ U[r.peer] = T[r.peer] /\ r.peer \in Servers
    BY <1>3 DEF Held
  <2>2. \A id \in Ids : OnlyFrom(n, r.peer, id)
                          => Reads(U[n], r)[id] = Reads(T[n], r)[id]
    BY <1>1, <2>1, FromIs
  <2> QED
    BY <2>1, <2>2 DEF InHand
<1> QED
  BY <1>2, <1>3 DEF Held

\* A step of one server that commits nothing.
LEMMA OneServerHolds ==
  ASSUME TypeOK, Mirrored, NEW n \in Servers, NEW r, run' = [run EXCEPT ![n] = r],
         Held(docs, n, run'[n]), UNCHANGED <<docs, feds, slipped>>
  PROVE  Mirrored'
<1>1. \A m \in Servers \ {n} : run'[m] = run[m]
  BY DEF TypeOK
<1>2. \A m \in Servers : Held(docs', m, run'[m])
  BY <1>1 DEF Mirrored
<1>3. \A m \in Servers : Founded(docs', m, feds'[m], slipped'[m])
  BY DEF Mirrored
<1> QED
  BY <1>2, <1>3 DEF Mirrored

LEMMA UpdateHolds ==
  ASSUME TypeOK, Sane, Mirrored, NEW n \in Servers,
         \/ \E p \in Servers, apagar \in BOOLEAN : StartOne(n, p, apagar)
         \/ \E apagar \in BOOLEAN : StartAll(n, apagar)
         \/ StartRobo(n)
         \/ \E unchecked \in BOOLEAN : FederationFails(n, unchecked)
         \/ \E id \in Ids : SkipRecord(n, id)
         \/ \E p \in Servers : NextFederation(n, p)
         \/ ListSets(n) \/ ListRecords(n) \/ (\E id \in Ids : ImportRecord(n, id))
         \/ UnknownSet(n) \/ FinishFederation(n)
  PROVE  Mirrored'
<1>1. Held(docs, n, run'[n])
  BY StartsHold, FederationFailsHolds, NextFederationHolds, ListSetsHolds,
     ListRecordsHolds, ImportRecordHolds, SkipRecordHolds, UnknownSetHolds,
     FinishFederationHolds
<1>2. UNCHANGED <<docs, feds, slipped>>
  BY DEF StartOne, StartAll, StartRobo, FederationFails, NextFederation, ListSets,
     ListRecords, ImportRecord, SkipRecord, UnknownSet, FinishFederation
<1>3. \E r : run' = [run EXCEPT ![n] = r]
  BY DEF StartOne, StartAll, StartRobo, FederationFails, NextFederation, ListSets,
     ListRecords, ImportRecord, SkipRecord, UnknownSet, FinishFederation
<1> QED
  BY <1>1, <1>2, <1>3, OneServerHolds

\* A commit, as a change of the tables.
LEMMA PublishCommits ==
  ASSUME TypeOK, NEW n \in Servers, NEW ids \in SUBSET Ids, NEW d \in [Ids -> Doc],
         NEW r, Publish(n, ids, d, r)
  PROVE  docs' \in Tables /\ run'[n] = r /\ Committed(docs, docs', n, ids, d)
<1> DEFINE t == [id \in Ids |-> IF id \in ids THEN d[id] ELSE docs[n][id]]
<1>1. docs' = [docs EXCEPT ![n] = t] /\ run'[n] = r
  BY DEF Publish
<1>2. t \in [Ids -> Doc]
  BY DEF TypeOK
<1>3. \A id \in Ids : t[id] = IF id \in ids THEN d[id] ELSE docs[n][id]
  OBVIOUS
<1> HIDE DEF t
<1>4. docs'[n] = t /\ \A q \in Servers \ {n} : docs'[q] = docs[q]
  BY <1>1 DEF TypeOK
<1>5. docs' \in Tables
  BY <1>1, <1>2 DEF TypeOK, Tables
<1> QED
  BY <1>1, <1>3, <1>4, <1>5 DEF Committed

\* A commit: what the others vouch for.
LEMMA OthersHold ==
  ASSUME TypeOK, Sane, Mirrored, NEW n \in Servers, NEW ids \in SUBSET Ids,
         NEW d \in [Ids -> Doc], NEW r \in Run, Publish(n, ids, d, r), NEW m \in Servers \ {n},
         feds'[m] = feds[m],
         slipped'[m] = [slipped[m] EXCEPT ![n] = Behind(@, ids, d, feds[m][n].dataXml)]
  PROVE  Founded(docs', m, feds'[m], slipped'[m]) /\ Held(docs', m, run'[m])
<1>1. docs \in Tables /\ docs' \in Tables
  BY PublishCommits DEF TypeOK, Tables
<1>2. Committed(docs, docs', n, ids, d)
  BY PublishCommits
<1>3. run'[m] = Told(run[m], n, ids, d)
  BY DEF Publish
<1>4. \A q \in Servers :
        slipped'[m][q] = IF q = n THEN Behind(slipped[m][n], ids, d, feds[m][n].dataXml)
                         ELSE slipped[m][q]
  BY DEF TypeOK
<1>5. Founded(docs, m, feds[m], slipped[m]) /\ Held(docs, m, run[m])
  BY DEF Mirrored
<1>6. run[m] \in Run /\ (run[m].step = "import" => run[m].peer \in Servers)
  BY DEF Sane, Sound
<1> DEFINE F == feds[m]
           L == slipped[m]
           M == slipped'[m]
<1>7. Founded(docs', m, feds[m], slipped'[m])
  <2>1. /\ Founded(docs, m, F, L)
        /\ \A q \in Servers :
             M[q] = IF q = n THEN Behind(L[n], ids, d, F[n].dataXml) ELSE L[q]
    BY <1>4, <1>5
  <2> HIDE DEF F, L, M
  <2>2. Founded(docs', m, F, M)
    BY <1>1, <1>2, <2>1, FoundedPublished
  <2> QED
    BY <2>2 DEF F, M
<1>8. Held(docs', m, Told(run[m], n, ids, d))
  BY <1>1, <1>2, <1>5, <1>6, HeldPublished
<1> QED
  BY <1>3, <1>7, <1>8

\* A harvest saves a record of the server's own.
LEMMA SaveLocalHolds ==
  ASSUME TypeOK, Sane, Mirrored, NEW id \in Ids, NEW del \in BOOLEAN, SaveLocal(id, del)
  PROVE  Mirrored'
<1> DEFINE n == At[RepOf[id]]
           r == run[n]
           d == Seen(n, r)[id]
           e == Save(d, n, RepOf[id], [ver |-> latest[id] + 1, deleted |-> del])
<1>1. n \in Servers
  BY RepsAssumption
<1>2. feds' = feds
  BY DEF SaveLocal
<1>3. Sound(n, r) /\ r \in Run /\ Held(docs, n, r) /\ Founded(docs, n, feds[n], slipped[n])
  BY <1>1 DEF Sane, Sound, Mirrored
<1>4. d \in Doc /\ Kept(n, d)
  <2>1. Kept(n, d)
    BY <1>1, <1>3 DEF Sound, Sane, Stored, Seen
  <2>2. Seen(n, r) \in [Ids -> Doc]
    BY <1>1, <1>3, SeenIsTable
  <2> QED
    BY <2>1, <2>2
<1>5. e \in Doc
  BY <1>1, <1>4, LocalSave
<1>6. Legit(n, id, e.src)
  <2>1. e.src = IF d.src = NoServer THEN n ELSE d.src
    BY DEF Save
  <2>2. d = Reads(docs[n], r)[id]
    BY DEF Seen, Reads
  <2>3. Legit(n, id, d.src)
    BY <1>1, <1>3, <2>2, ReadsLegit DEF Held, Founded
  <2>4. Legit(n, id, n)
    BY DEF Legit
  <2> QED
    BY <2>1, <2>3, <2>4
<1>7. docs \in Tables
  BY DEF TypeOK, Tables
<1>8. CASE /\ id \notin r.wrote
           /\ Publish(n, {id}, [i \in Ids |-> e], r)
           /\ slipped' = [m \in Servers |->
                [slipped[m] EXCEPT ![n] = Behind(@, {id}, [i \in Ids |-> e], feds[m][n].dataXml)]]
  <2> DEFINE t == [i \in Ids |-> e]
  <2>1. t \in [Ids -> Doc] /\ {id} \in SUBSET Ids /\ t[id] = e
    <3> HIDE DEF e
    <3> QED
      BY <1>5
  <2>2. Publish(n, {id}, t, r)
    BY <1>8
  <2>3. slipped' = [m \in Servers |->
          [slipped[m] EXCEPT ![n] = Behind(@, {id}, t, feds[m][n].dataXml)]]
    BY <1>8
  <2> HIDE DEF t, e, d
  <2>4. \A m \in Servers \ {n} :
          Founded(docs', m, feds'[m], slipped'[m]) /\ Held(docs', m, run'[m])
    <3> SUFFICES ASSUME NEW m \in Servers \ {n}
                 PROVE  Founded(docs', m, feds'[m], slipped'[m]) /\ Held(docs', m, run'[m])
      OBVIOUS
    <3>1. slipped'[m] = [slipped[m] EXCEPT ![n] = Behind(@, {id}, t, feds[m][n].dataXml)]
      BY <2>3
    <3>2. feds'[m] = feds[m]
      BY <1>2
    <3> QED
      BY <1>1, <1>3, <2>1, <2>2, <3>1, <3>2, OthersHold
  <2>5. docs' \in Tables /\ run'[n] = r /\ Committed(docs, docs', n, {id}, t)
    BY <1>1, <2>1, <2>2, PublishCommits
  <2>6. /\ \A i \in Ids : docs'[n][i] = IF i = id THEN e ELSE docs[n][i]
        /\ \A q \in Servers \ {n} : docs'[q] = docs[q]
    BY <2>1, <2>5 DEF Committed
  <2>7. \A i \in Ids : At[RepOf[i]] # n => docs'[n][i] = docs[n][i]
    BY <2>6
  <2>8. \A q \in Servers \ {n} : slipped'[n][q] = slipped[n][q]
    BY <1>1, <2>3 DEF TypeOK
  <2>9. Founded(docs', n, feds'[n], slipped'[n])
    <3>1. \A i \in Ids : Legit(n, i, docs'[n][i].src)
      BY <1>3, <1>6, <2>6 DEF Founded
    <3>2. Vouched(docs, n, docs[n], feds[n], slipped[n])
      BY <1>3 DEF Founded
    <3>3. Vouched(docs', n, docs'[n], feds[n], slipped'[n])
      BY <1>1, <1>7, <2>5, <2>6, <2>7, <2>8, <3>2, VouchedOwn
    <3> QED
      BY <1>2, <3>1, <3>3 DEF Founded
  <2>10. Held(docs', n, run'[n])
    <3>1. r.step = "import" => r.peer \in Servers \ {n}
      BY <1>3 DEF Sound
    <3> QED
      BY <1>1, <1>3, <1>7, <2>5, <2>6, <2>7, <3>1, HeldOwn
  <2> QED
    BY <2>4, <2>9, <2>10 DEF Mirrored
<1>9. CASE /\ r.kind = "robo" /\ r.todo = {} /\ r.peer = NoServer
           /\ run' = [run EXCEPT ![n] = Written(@, {id}, e)]
           /\ UNCHANGED <<docs, slipped>>
  <2>1. run' = [run EXCEPT ![n] = Written(r, {id}, e)]
    BY <1>9
  <2>2. run'[n] = Written(r, {id}, e)
    BY <1>1, <2>1 DEF TypeOK
  <2>3. r.step # "import"
    BY <1>3, <1>9, ServersAssumption DEF Sound
  <2> HIDE DEF e
  <2>4. \A p \in Servers : ~OnlyFrom(n, p, id)
    BY <1>1, FromIs
  <2>5. Held(docs, n, Written(r, {id}, e))
    BY <1>1, <1>3, <1>5, <1>6, <1>7, <2>3, <2>4, WrittenHolds
  <2> QED
    BY <1>1, <1>2, <1>9, <2>1, <2>2, <2>5, OneServerHolds
<1> QED
  BY <1>8, <1>9 DEF SaveLocal

\* A transaction ends: what it vouched for, the tables do; if it was marked, they stay.
LEMMA EndRunHolds ==
  ASSUME TypeOK, Sane, Mirrored, NEW n \in Servers, EndRun(n)
  PROVE  Mirrored'
<1> DEFINE r == run[n]
<1>1. r \in Run /\ Held(docs, n, r) /\ docs \in Tables
      /\ \A id \in Ids : Legit(n, id, docs[n][id].src)
  BY DEF Sane, Sound, Mirrored, Founded, TypeOK, Tables
<1>2. CASE r.poisoned
  <2>1. run' = [run EXCEPT ![n] = Idle] /\ UNCHANGED <<docs, feds, slipped>>
    BY <1>2 DEF EndRun
  <2>2. run'[n] = Idle
    BY <2>1 DEF TypeOK
  <2>3. Held(docs, n, run'[n])
    BY <1>1, <2>2, IdleHolds
  <2> QED
    BY <2>1, <2>3, OneServerHolds
<1>3. CASE ~r.poisoned
  <2>1. /\ Publish(n, r.wrote, r.docs, Idle)
        /\ feds' = [feds EXCEPT ![n] = r.feds]
        /\ slipped' = [m \in Servers |->
             IF m = n THEN r.slipped
             ELSE [slipped[m] EXCEPT ![n] = Behind(@, r.wrote, r.docs, feds[m][n].dataXml)]]
    BY <1>3 DEF EndRun
  <2>2. r.wrote \in SUBSET Ids /\ r.docs \in [Ids -> Doc]
    BY <1>1 DEF Run
  <2> HIDE DEF r
  <2>3. docs' \in Tables /\ run'[n] = Idle /\ Committed(docs, docs', n, r.wrote, r.docs)
    BY <2>1, <2>2, PublishCommits
  <2>4. feds'[n] = r.feds /\ slipped'[n] = r.slipped
    BY <2>1 DEF TypeOK
  <2>5. \A m \in Servers \ {n} :
          Founded(docs', m, feds'[m], slipped'[m]) /\ Held(docs', m, run'[m])
    <3> SUFFICES ASSUME NEW m \in Servers \ {n}
                 PROVE  Founded(docs', m, feds'[m], slipped'[m]) /\ Held(docs', m, run'[m])
      OBVIOUS
    <3>1. /\ feds'[m] = feds[m]
          /\ slipped'[m] = [slipped[m] EXCEPT ![n] = Behind(@, r.wrote, r.docs, feds[m][n].dataXml)]
      BY <2>1 DEF TypeOK
    <3> QED
      BY <2>1, <2>2, <3>1, IdleIsRun, OthersHold
  <2>6. /\ docs'[n] = Reads(docs[n], r)
        /\ \A q \in Servers \ {n} : docs'[q] = docs[q]
    <3>1. docs'[n] = [id \in Ids |-> docs'[n][id]]
      BY <2>3 DEF Tables
    <3> QED
      BY <2>3, <3>1 DEF Committed, Reads
  <2>7. \A id \in Ids : Legit(n, id, docs'[n][id].src)
    BY <1>1, <2>6, ReadsLegit DEF Held
  <2>8. Vouched(docs, n, docs'[n], r.feds, r.slipped)
    BY <1>1, <2>6 DEF Held
  <2>9. Vouched(docs', n, docs'[n], r.feds, r.slipped)
    BY <1>1, <2>3, <2>6, <2>8, VouchedOwn
  <2>10. Founded(docs', n, feds'[n], slipped'[n])
    BY <2>4, <2>7, <2>9 DEF Founded
  <2>11. Held(docs', n, run'[n])
    BY <2>3, IdleHolds
  <2> QED
    BY <2>5, <2>10, <2>11 DEF Mirrored
<1> QED
  BY <1>2, <1>3

\* A crash rolls the transaction back.
LEMMA CrashHolds ==
  ASSUME TypeOK, Mirrored, NEW n \in Servers, Crash(n)
  PROVE  Mirrored'
<1>1. run' = [run EXCEPT ![n] = Idle] /\ UNCHANGED <<docs, feds, slipped>>
  BY DEF Crash
<1>2. run'[n] = Idle /\ docs \in Tables
  BY <1>1 DEF TypeOK, Tables
<1>3. Held(docs, n, run'[n])
  BY <1>2, IdleHolds
<1> QED
  BY <1>1, <1>3, OneServerHolds
-----------------------------------------------------------------------------
(* The theorems *)

LEMMA InitIInv == Init => IInv
<1> SUFFICES ASSUME Init PROVE IInv
  OBVIOUS
<1>1. TypeOK
  BY RepsAssumption, IdleIsRun, NoDocIsDoc, NewFedIsFed DEF Init, TypeOK
<1>2. ASSUME NEW n \in Servers
      PROVE  Stored(n) /\ Housed(n, docs[n], feds[n]) /\ Sound(n, run[n])
  <2>1. docs[n] = [id \in Ids |-> NoDoc] /\ run[n] = Idle
    BY DEF Init
  <2>2. NoDoc.src = NoServer
    BY DEF NoDoc
  <2>3. Sound(n, run[n])
    BY <2>1, IdleIsSound
  <2> QED
    BY <2>1, <2>2, <2>3, ServersAssumption DEF Stored, Kept, Housed
<1> QED
  BY <1>1, <1>2 DEF IInv, Sane

LEMMA StepIInv == IInv /\ [Next]_vars => IInv'
<1> SUFFICES ASSUME TypeOK, Sane, [Next]_vars PROVE IInv'
  BY DEF IInv
<1>1. CASE Environment
  BY <1>1, TickRenameStep, SaveLocalStep, UpdateStep, CrashStep DEF Environment
<1>2. ASSUME NEW n \in Servers, StartRobo(n) \/ Work(n)
      PROVE  IInv'
  BY <1>2, UpdateStep, EndRunStep DEF Work
<1>3. CASE UNCHANGED vars
  BY <1>3, TickRenameStep
<1> QED
  BY <1>1, <1>2, <1>3 DEF Next

\* The inductive invariant: every table and every transaction is well typed, keeps
\* own and federated documents apart, and houses the federated ones.
THEOREM InvCorrect == Spec => []IInv
BY InitIInv, StepIInv, PTL DEF Spec

\* Every reachable state is well typed.
THEOREM TypeCorrect == Spec => []TypeOK
<1>1. IInv => TypeOK
  BY DEF IInv
<1> QED
  BY <1>1, InvCorrect, PTL

\* A federated document is in a sub-repository its federation has, through every
\* update, failure, renaming, crash and rollback, whoever federates whom
\* (SubFederacao.atualizaListaSubRepositorios, DocumentServiceImpl.save).
THEOREM SubRepositoriesAlwaysExist == Spec => []SubRepositoriesExist
<1>1. IInv => SubRepositoriesExist
  BY DEF IInv, Sane, Housed, SubRepositoriesExist
<1> QED
  BY <1>1, InvCorrect, PTL

\* What the tables and the transactions vouch for, at the start and from any state
\* to the next.
LEMMA InitMirrored == Init => Mirrored
<1> SUFFICES ASSUME Init, NEW n \in Servers
             PROVE  Founded(docs, n, feds[n], slipped[n]) /\ Held(docs, n, run[n])
  BY DEF Mirrored
<1>1. docs \in Tables
  BY NoDocIsDoc DEF Init, Tables
<1>2. /\ \A id \in Ids : docs[n][id].src = NoServer
      /\ \A p \in Servers : feds[n][p].dataXml = 0
      /\ run[n] = Idle
  BY DEF Init, NoDoc, NewFed
<1>3. \A p \in Servers, id \in Ids : ~(docs[p][id].created < 0)
  BY <1>1 DEF Tables, Doc
<1>4. Founded(docs, n, feds[n], slipped[n])
  BY <1>2, <1>3 DEF Founded, Vouched, Legit
<1> QED
  BY <1>1, <1>2, <1>4, IdleHolds

LEMMA StepMirrored == IInv /\ Mirrored /\ [Next]_vars => Mirrored'
<1> SUFFICES ASSUME TypeOK, Sane, Mirrored, [Next]_vars PROVE Mirrored'
  BY DEF IInv
<1>1. ASSUME UNCHANGED <<docs, feds, slipped, run>>
      PROVE  Mirrored'
  BY <1>1 DEF Mirrored
<1>2. CASE Environment
  <2>1. CASE Tick \/ (\E r \in Reps, nm \in Names : Rename(r, nm))
    BY <1>1, <2>1 DEF Tick, Rename
  <2> QED
    BY <1>2, <2>1, SaveLocalHolds, UpdateHolds, CrashHolds DEF Environment
<1>3. ASSUME NEW n \in Servers, StartRobo(n) \/ Work(n)
      PROVE  Mirrored'
  BY <1>3, UpdateHolds, EndRunHolds DEF Work
<1>4. CASE UNCHANGED vars
  BY <1>1, <1>4 DEF vars
<1> QED
  BY <1>2, <1>3, <1>4 DEF Next

\* A server mirrors what its peers committed before its cursor for them and that did
\* not slip, through every interleaving of updates, failures, rollbacks and crashes,
\* whoever federates whom (SubFederacaoOAI.atualizaFederacao, ImporterSubfed.update).
THEOREM OnlySlippedAreEverMissed == Spec => []OnlySlippedAreMissed
<1>1. Mirrored => OnlySlippedAreMissed
  BY DEF Mirrored, Founded, Vouched, OnlySlippedAreMissed
<1>2. Spec => []Mirrored
  BY InvCorrect, InitMirrored, StepMirrored, PTL DEF Spec
<1> QED
  BY <1>1, <1>2, PTL
=============================================================================
