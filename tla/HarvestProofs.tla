--------------------------- MODULE HarvestProofs ---------------------------
(***************************************************************************)
(* Theorems about module Harvest, for every set of repositories, records   *)
(* and responses: the state is well typed; a document belongs to a         *)
(* repository that serves it; and the incremental harvest is complete up   *)
(* to its cursor but for the records that slipped.                         *)
(***************************************************************************)
EXTENDS Harvest, TLAPS

USE DEF NoDate

-----------------------------------------------------------------------------
(* The inductive invariant *)

\* Nothing is dated in the future.
Past ==
  /\ \A r \in Repos : dataXml[r] <= now /\ saved.dataXml[r] <= now
  /\ \A r \in Repos, id \in Ids : prov[r][id].stamp <= now
  /\ mem.dataXml <= now
  /\ temp <= now
  /\ \A k \in 1..Len(files) : files[k].date <= now

\* Who runs, and on what: a run visits a repository once.
Control ==
  /\ kind = "idle" => rep = NoRepo
  /\ kind \notin {"all", "robo"} => todo = {}
  /\ kind # "robo" => ~poisoned
  /\ rep \notin todo
  /\ rep = NoRepo => pending = {}
  /\ pending \subseteq IF rep = NoRepo THEN {} ELSE PagesOf(rep, colecoes[rep])

\* The entity in memory agrees with the stored cursor unless it is to start over,
\* and the robot's with the one its transaction found.
Entity ==
  /\ rep # NoRepo /\ mem.dataXml # NoDate => mem.dataXml = dataXml[rep]
  /\ kind = "robo" =>
       /\ \A r \in todo : dataXml[r] = saved.dataXml[r]
       /\ rep # NoRepo => mem.dataXml = saved.dataXml[rep]

\* The files hold records the repository serves, as they once were and no older
\* than what was asked for.
Harvested ==
  rep # NoRepo =>
    \A k \in 1..Len(files), id \in Ids :
      files[k].recs[id] # NoRec =>
        /\ id \in Scope(rep, {})
        /\ mem.dataXml <= files[k].recs[id].stamp
        /\ files[k].recs[id].stamp <= prov[rep][id].stamp

Served(d) == \A id \in Ids : d[id].owner # NoRepo => id \in Scope(d[id].owner, {})

\* The cursor c of r vouches for the records in the documents d.
Vouches(d, c) ==
  \A r \in Repos, id \in Ids :
    Wanted(r, id) /\ id \notin slipped[r] /\ prov[r][id].stamp < c[r]
      => Mirrors(d[id], prov[r][id])

\* The last file that lists the record lists it at index k.
LastIn(k, id) ==
  /\ files[k].recs[id] # NoRec
  /\ \A j \in 1..Len(files) : j > k => files[j].recs[id] = NoRec

\* During an update, a record asked for that no further response lists and that
\* did not change since is as the last file to be imported has it or, when no
\* file has it, is mirrored.
Asked(id) ==
  /\ Wanted(rep, id)
  /\ mem.dataXml <= prov[rep][id].stamp
  /\ id \notin late
  /\ \A p \in pending : id \notin p.ids

Underway ==
  rep # NoRepo =>
    \A id \in Ids : Asked(id) =>
      /\ \A k \in 1..Len(files) : LastIn(k, id) => files[k].recs[id] = prov[rep][id]
      /\ (\A k \in 1..Len(files) : files[k].recs[id] = NoRec)
           => Mirrors(docs[id], prov[rep][id])

IInv ==
  /\ TypeOK
  /\ Past
  /\ Control
  /\ Entity
  /\ Harvested
  /\ Served(docs) /\ Served(saved.docs)
  /\ Vouches(docs, dataXml)
  /\ kind = "robo" => Vouches(saved.docs, saved.dataXml)
  /\ Underway

-----------------------------------------------------------------------------
(* Types *)

\* A response is a file.
LEMMA ResponseIsFile ==
  ASSUME TypeOK, NEW p \in Pages, NEW from \in Nat
  PROVE  Response(p, from) \in File
<1>1. p.rep \in Repos
  BY PagesAssumption
<1>2. prov[p.rep] \in [Ids -> Rec]
  BY <1>1 DEF TypeOK
<1>3. NoRec \in Rec
  BY DEF NoRec, Rec
<1>4. now \in Nat
  BY DEF TypeOK
<1> QED
  BY <1>2, <1>3, <1>4 DEF Response, File

\* Saving a record yields a document.
LEMMA SaveIsDoc ==
  ASSUME NEW d \in Doc, NEW r \in Repos, NEW x \in Rec
  PROVE  Save(d, r, x) \in Doc
BY DEF Save, Doc, Rec

\* Entering an update keeps the types of what it assigns.
LEMMA EnterTypes ==
  ASSUME TypeOK, NEW r \in Repos, NEW m \in [ultima : BOOLEAN, dataXml : Nat], Enter(r, m)
  PROVE  /\ rep' \in Repos /\ mem' \in [ultima : BOOLEAN, dataXml : Nat]
         /\ pending' \in SUBSET Pages /\ files' \in Seq(File)
         /\ temp' \in Nat /\ late' \in SUBSET Ids
         /\ docs' \in [Ids -> Doc] /\ ultima' \in [Repos -> BOOLEAN]
         /\ dataXml' \in [Repos -> Nat] /\ poisoned' \in BOOLEAN /\ fails' \in Nat
<1>1. /\ rep' \in Repos /\ mem' \in [ultima : BOOLEAN, dataXml : Nat]
      /\ pending' \in SUBSET Pages /\ files' \in Seq(File)
      /\ temp' \in Nat /\ late' \in SUBSET Ids
  BY DEF Enter, PagesOf
<1>2. Wiped(r) \in [Ids -> Doc]
  BY DEF Wiped, NoDoc, Doc, TypeOK
<1>3. /\ docs' \in [Ids -> Doc] /\ ultima' \in [Repos -> BOOLEAN]
      /\ dataXml' \in [Repos -> Nat]
  BY <1>2 DEF Enter, TypeOK
<1>4. poisoned' \in BOOLEAN /\ fails' \in Nat
  <2>1. poisoned' \in BOOLEAN
    BY DEF Enter, TypeOK
  <2>2. fails' = fails \/ fails' = fails + 1
    BY Zenon DEF Enter
  <2>3. fails' \in Nat
    BY <2>2 DEF TypeOK
  <2> QED
    BY <2>1, <2>3
<1> QED
  BY <1>1, <1>3, <1>4

\* Leaving an update does too.
LEMMA LeaveTypes ==
  ASSUME Leave
  PROVE  /\ rep' \in Repos \cup {NoRepo} /\ mem' \in [ultima : BOOLEAN, dataXml : Nat]
         /\ pending' \in SUBSET Pages /\ files' \in Seq(File)
         /\ temp' \in Nat /\ late' \in SUBSET Ids
BY DEF Leave, Unset

LEMMA BlankType ==
  Blank \in [docs : [Ids -> Doc], ultima : [Repos -> BOOLEAN], dataXml : [Repos -> Nat]]
<1>1. NoDoc \in Doc
  BY DEF NoDoc, Doc
<1>2. [id \in Ids |-> NoDoc] \in [Ids -> Doc]
  BY <1>1
<1>3. [r \in Repos |-> FALSE] \in [Repos -> BOOLEAN]
  OBVIOUS
<1>4. [r \in Repos |-> NoDate] \in [Repos -> Nat]
  OBVIOUS
<1> HIDE DEF NoDate
<1> QED
  BY <1>2, <1>3, <1>4, Zenon DEF Blank

LEMMA TypeInit == Init => TypeOK
<1> SUFFICES ASSUME Init PROVE TypeOK
  OBVIOUS
<1>1. /\ docs \in [Ids -> Doc] /\ ultima \in [Repos -> BOOLEAN]
      /\ dataXml \in [Repos -> Nat]
      /\ saved \in [docs : [Ids -> Doc], ultima : [Repos -> BOOLEAN], dataXml : [Repos -> Nat]]
  BY BlankType DEF Init
<1>2. NoRec \in Rec
  BY DEF NoRec, Rec
<1>3. mem \in [ultima : BOOLEAN, dataXml : Nat]
  BY DEF Init, Unset
<1>4. prov \in [Repos -> [Ids -> Rec]]
  BY <1>2 DEF Init
<1>5. poisoned \in BOOLEAN
  BY DEF Init
<1>6. /\ now \in Nat /\ changes \in Nat /\ temp \in Nat /\ fails \in Nat
      /\ files \in Seq(File) /\ colecoes \in [Repos -> SUBSET Sets]
      /\ slipped \in [Repos -> SUBSET Ids]
  BY DEF Init
<1>7. /\ kind \in {"idle", "one", "all", "robo"} /\ todo \in SUBSET Repos
      /\ rep \in Repos \cup {NoRepo} /\ pending \in SUBSET Pages /\ late \in SUBSET Ids
  BY DEF Init
<1> QED
  BY <1>1, <1>3, <1>4, <1>5, <1>6, <1>7 DEF TypeOK

LEMMA TypeStep == TypeOK /\ [Next]_vars => TypeOK'
<1> SUFFICES ASSUME TypeOK, [Next]_vars PROVE TypeOK'
  OBVIOUS
<1>1. CASE Tick
  BY <1>1 DEF Tick, TypeOK, tables, update
<1>2. ASSUME NEW r \in Repos, NEW id \in Ids, NEW st \in Statuses, Change(r, id, st)
      PROVE TypeOK'
  <2>1. [ver |-> prov[r][id].ver + 1, stamp |-> now, st |-> st] \in Rec
    BY StatusesAssumption DEF TypeOK, Rec
  <2>2. prov' \in [Repos -> [Ids -> Rec]]
    BY <1>2, <2>1 DEF Change, TypeOK
  <2>3. late' \in SUBSET Ids
    BY <1>2 DEF Change, TypeOK
  <2>4. slipped' \in [Repos -> SUBSET Ids]
    BY <1>2 DEF Change, TypeOK
  <2>5. changes' \in Nat
    BY <1>2 DEF Change, TypeOK
  <2> QED
    BY <1>2, <2>2, <2>3, <2>4, <2>5 DEF Change, TypeOK, tables
<1>3. ASSUME NEW r \in Repos, NEW cs \in SUBSET Sets, EditRepository(r, cs)
      PROVE TypeOK'
  <2>1. Scope(r, cs) \subseteq Ids
    BY PagesAssumption DEF Scope, PagesOf
  <2>2. slipped' \in [Repos -> SUBSET Ids]
    BY <1>3, <2>1 DEF EditRepository, TypeOK
  <2>3. colecoes' \in [Repos -> SUBSET Sets]
    BY <1>3 DEF EditRepository, TypeOK
  <2> QED
    BY <1>3, <2>2, <2>3 DEF EditRepository, TypeOK, update
<1>4. ASSUME NEW r \in Repos, NEW apagar \in BOOLEAN, StartOne(r, apagar)
      PROVE TypeOK'
  <2> DEFINE m == IF apagar THEN Unset
                  ELSE [ultima |-> ultima[r], dataXml |-> dataXml[r]]
  <2>1. m \in [ultima : BOOLEAN, dataXml : Nat]
    BY DEF TypeOK, Unset
  <2>2. Enter(r, m)
    BY <1>4 DEF StartOne
  <2> HIDE DEF m
  <2> QED
    BY <1>4, <2>1, <2>2, EnterTypes DEF StartOne, TypeOK
<1>5. CASE StartAll
  BY <1>5 DEF StartAll, TypeOK, tables, update
<1>6. CASE UpdateFails
  <2>1. poisoned' \in BOOLEAN
    BY <1>6 DEF UpdateFails, TypeOK
  <2>2. kind' \in {"idle", "one", "all", "robo"} /\ fails' \in Nat
    BY <1>6 DEF UpdateFails, TypeOK
  <2> QED
    BY <1>6, <2>1, <2>2, LeaveTypes DEF UpdateFails, TypeOK, tables
<1>7. CASE Crash
  <2>1. /\ docs' \in [Ids -> Doc] /\ ultima' \in [Repos -> BOOLEAN]
        /\ dataXml' \in [Repos -> Nat]
    BY <1>7 DEF Crash, TypeOK
  <2>2. fails' \in Nat
    BY <1>7 DEF Crash, TypeOK
  <2>3. poisoned' \in BOOLEAN
    BY <1>7 DEF Crash
  <2> QED
    BY <1>7, <2>1, <2>2, <2>3, LeaveTypes, BlankType DEF Crash, TypeOK
<1>8. CASE StartRobo
  BY <1>8 DEF StartRobo, TypeOK, tables, update
<1>9. ASSUME NEW r \in Repos, Next1(r) PROVE TypeOK'
  <2> DEFINE m == [ultima |-> ultima[r], dataXml |-> dataXml[r]]
  <2>1. m \in [ultima : BOOLEAN, dataXml : Nat]
    BY DEF TypeOK
  <2>2. Enter(r, m)
    BY <1>9 DEF Next1
  <2> HIDE DEF m
  <2> QED
    BY <1>9, <2>1, <2>2, EnterTypes DEF Next1, TypeOK
<1>10. ASSUME NEW p \in Pages, Fetch(p) PROVE TypeOK'
  <2>1. Response(p, mem.dataXml) \in File
    BY ResponseIsFile DEF TypeOK
  <2>2. files' \in Seq(File)
    BY <1>10, <2>1 DEF Fetch, TypeOK
  <2> QED
    BY <1>10, <2>2 DEF Fetch, TypeOK, tables
<1>11. ASSUME NEW id \in Ids, ImportRecord(id) PROVE TypeOK'
  <2>1. files[1] \in File /\ Len(files) > 0 /\ Head(files) = files[1]
    BY <1>11 DEF ImportRecord, TypeOK
  <2>2. [files[1] EXCEPT !.recs[id] = NoRec] \in File
    BY <2>1 DEF File, NoRec, Rec
  <2>3. files' \in Seq(File)
    BY <1>11, <2>1, <2>2 DEF ImportRecord, TypeOK
  <2>4. files[1].recs[id] \in Rec
    BY <2>1 DEF File
  <2>5. rep \in Repos
    BY <1>11 DEF ImportRecord, TypeOK
  <2>6. Save(docs[id], rep, files[1].recs[id]) \in Doc
    BY <2>4, <2>5, SaveIsDoc DEF TypeOK
  <2>7. \/ docs' = docs
        \/ docs' = [docs EXCEPT ![id] = Save(docs[id], rep, Head(files).recs[id])]
    BY <1>11, Zenon DEF ImportRecord
  <2>8. docs' \in [Ids -> Doc]
    <3>1. Save(docs[id], rep, Head(files).recs[id]) \in Doc
      BY <2>1, <2>6
    <3>2. docs \in [Ids -> Doc]
      BY DEF TypeOK
    <3> QED
      BY <2>7, <3>1, <3>2
  <2>9. ultima' \in [Repos -> BOOLEAN] /\ dataXml' \in [Repos -> Nat]
    <3>1. mem.ultima \in BOOLEAN /\ mem.dataXml \in Nat
      BY DEF TypeOK
    <3>2. \/ ultima' = ultima /\ dataXml' = dataXml
          \/ /\ ultima' = [ultima EXCEPT ![rep] = mem.ultima]
             /\ dataXml' = [dataXml EXCEPT ![rep] = mem.dataXml]
      BY <1>11, Zenon DEF ImportRecord
    <3>3. ultima \in [Repos -> BOOLEAN] /\ dataXml \in [Repos -> Nat]
      BY DEF TypeOK
    <3>4. [ultima EXCEPT ![rep] = mem.ultima] \in [Repos -> BOOLEAN]
      BY <3>1, <3>3
    <3>5. [dataXml EXCEPT ![rep] = mem.dataXml] \in [Repos -> Nat]
      BY <3>1, <3>3
    <3> QED
      BY <3>2, <3>3, <3>4, <3>5
  <2> QED
    BY <1>11, <2>3, <2>8, <2>9 DEF ImportRecord, TypeOK
<1>12. CASE FinishFile
  <2>1. files[1] \in File /\ Len(files) > 0 /\ Head(files) = files[1]
    BY <1>12 DEF FinishFile, TypeOK
  <2>2. temp' \in Nat
    BY <1>12, <2>1 DEF FinishFile, File
  <2>3. files' \in Seq(File)
    BY <1>12 DEF FinishFile, TypeOK
  <2> QED
    BY <1>12, <2>2, <2>3 DEF FinishFile, TypeOK, tables
<1>13. CASE FinishRepository
  <2>1. Cursor \in Nat
    BY DEF Cursor, TypeOK
  <2>2. ultima' \in [Repos -> BOOLEAN] /\ dataXml' \in [Repos -> Nat]
    BY <1>13, <2>1 DEF FinishRepository, TypeOK
  <2>3. slipped' \in [Repos -> SUBSET Ids]
    BY <1>13 DEF FinishRepository, TypeOK
  <2> QED
    BY <1>13, <2>2, <2>3, LeaveTypes DEF FinishRepository, TypeOK
<1>14. CASE EndRun
  <2>1. /\ docs' \in [Ids -> Doc] /\ ultima' \in [Repos -> BOOLEAN]
        /\ dataXml' \in [Repos -> Nat]
    BY <1>14 DEF EndRun, TypeOK
  <2> QED
    BY <1>14, <2>1, BlankType DEF EndRun, TypeOK, update
<1>15. CASE UNCHANGED vars
  BY <1>15 DEF vars, TypeOK
<1> QED
  BY <1>1, <1>2, <1>3, <1>4, <1>5, <1>6, <1>7, <1>8, <1>9, <1>10, <1>11, <1>12,
     <1>13, <1>14, <1>15 DEF Next, Environment, Work

\* Every reachable state is well typed, whatever the providers hold, however
\* they page their answers and wherever an update fails.
THEOREM TypeCorrect == Spec => []TypeOK
<1> QED
  BY TypeInit, TypeStep, PTL DEF Spec

-----------------------------------------------------------------------------
(* Facts about the helpers *)

LEMMA FileTypes ==
  ASSUME TypeOK, NEW k \in 1..Len(files)
  PROVE  /\ files[k] \in File /\ files[k].date \in Nat
         /\ \A id \in Ids : files[k].recs[id] \in Rec /\ files[k].recs[id].stamp \in Nat
<1>1. files[k] \in File
  BY DEF TypeOK
<1> QED
  BY <1>1 DEF File, Rec

LEMMA RecordTypes ==
  ASSUME TypeOK, NEW r \in Repos, NEW id \in Ids
  PROVE  prov[r][id] \in Rec /\ prov[r][id].stamp \in Nat
BY DEF TypeOK, Rec

LEMMA ScopeWhole ==
  ASSUME NEW r \in Repos, NEW cs
  PROVE  Scope(r, cs) \subseteq Scope(r, {}) /\ Scope(r, cs) \subseteq Ids
BY PagesAssumption DEF Scope, PagesOf

\* What a repository serves alone belongs to no other one.
LEMMA UnsharedIsOwn ==
  ASSUME NEW r \in Repos, NEW s \in Repos, NEW id, Unshared(r, id), id \in Scope(s, {})
  PROVE  s = r
BY DEF Unshared

\* A saved record is mirrored.
LEMMA SaveMirrors ==
  ASSUME NEW d, NEW r \in Repos, NEW x, x.st # "broken"
  PROVE  Mirrors(Save(d, r, x), x)
BY NoRepoAssumption DEF Mirrors, Save

LEMMA SaveServed ==
  ASSUME NEW d \in Doc, NEW r \in Repos, NEW x, NEW id, id \in Scope(r, {}),
         d.owner # NoRepo => id \in Scope(d.owner, {})
  PROVE  Save(d, r, x).owner # NoRepo => id \in Scope(Save(d, r, x).owner, {})
BY DEF Save

\* The wipe of r leaves what another repository serves alone as it was.
LEMMA WipedServed ==
  ASSUME TypeOK, Served(docs), NEW r \in Repos
  PROVE  /\ Served(Wiped(r))
         /\ \A s \in Repos, id \in Ids :
              s # r /\ Unshared(s, id) => Wiped(r)[id] = docs[id]
<1>1. \A id \in Ids : Wiped(r)[id] = NoDoc \/ Wiped(r)[id] = docs[id]
  BY DEF Wiped
<1>2. NoDoc.owner = NoRepo
  BY DEF NoDoc
<1>3. ASSUME NEW s \in Repos, NEW id \in Ids, s # r, Unshared(s, id)
      PROVE  Wiped(r)[id] = docs[id]
  <2>1. docs[id].owner # r
    BY <1>3, UnsharedIsOwn, NoRepoAssumption DEF Served
  <2> QED
    BY <2>1 DEF Wiped
<1> QED
  BY <1>1, <1>2, <1>3 DEF Served

-----------------------------------------------------------------------------
(* The invariant holds initially and every step preserves it. *)

LEMMA InvInit == Init => IInv
<1> SUFFICES ASSUME Init PROVE IInv
  OBVIOUS
<1>1. TypeOK
  BY TypeInit
<1>2. Past
  <2>1. /\ \A r \in Repos : dataXml[r] = 0 /\ saved.dataXml[r] = 0
        /\ \A r \in Repos, id \in Ids : prov[r][id].stamp = 0
        /\ mem.dataXml = 0 /\ temp = 0 /\ files = <<>> /\ now = 1
    BY DEF Init, Blank, NoRec, Unset
  <2> QED
    BY <2>1 DEF Past
<1>3. Control
  BY NoRepoAssumption DEF Init, Control
<1>4. Entity /\ Harvested /\ Underway
  BY DEF Init, Entity, Harvested, Underway
<1>5. Served(docs) /\ Served(saved.docs)
  BY DEF Init, Blank, Served, NoDoc
<1>6. Vouches(docs, dataXml)
  <2>1. \A r \in Repos, id \in Ids : ~(prov[r][id].stamp < dataXml[r])
    BY DEF Init, Blank, NoRec
  <2> QED
    BY <2>1 DEF Vouches
<1>7. kind # "robo"
  BY DEF Init
<1> QED
  BY <1>1, <1>2, <1>3, <1>4, <1>5, <1>6, <1>7 DEF IInv

\* The clock moves on.
LEMMA TickInv == ASSUME IInv, TypeOK', Tick PROVE IInv'
<1>1. Past'
  <2>1. /\ UNCHANGED <<prov, tables, saved, update>> /\ now' = now + 1 /\ now \in Nat
        /\ mem.dataXml \in Nat /\ temp \in Nat
    BY DEF Tick, IInv, TypeOK
  <2>2. \A r \in Repos : dataXml[r] \in Nat /\ saved.dataXml[r] \in Nat
    BY DEF IInv, TypeOK
  <2> QED
    BY <2>1, <2>2, FileTypes, RecordTypes DEF IInv, Past, tables, update
<1>2. (Control /\ Entity /\ Harvested /\ Underway)'
  BY DEF IInv, Control, Entity, Harvested, Underway, Asked, LastIn, Wanted, Tick, tables,
         update
<1>3. (Served(docs) /\ Served(saved.docs) /\ Vouches(docs, dataXml))'
  BY DEF IInv, Vouches, Wanted, Tick, tables
<1>4. (kind = "robo" => Vouches(saved.docs, saved.dataXml))'
  BY DEF IInv, Vouches, Wanted, Tick, tables
<1> QED
  BY <1>1, <1>2, <1>3, <1>4 DEF IInv

\* A record changes: its date is now, after every cursor; during an update of
\* its repository it is asked for again or late.
LEMMA ChangeInv ==
  ASSUME IInv, TypeOK', NEW r \in Repos, NEW id \in Ids, NEW st \in Statuses,
         Change(r, id, st)
  PROVE  IInv'
<1> DEFINE x == [ver |-> prov[r][id].ver + 1, stamp |-> now, st |-> st]
<1>1. /\ prov' = [prov EXCEPT ![r][id] = x] /\ x.stamp = now /\ now \in Nat
      /\ prov \in [Repos -> [Ids -> Rec]]
  BY DEF Change, IInv, TypeOK
<1>2. \A s \in Repos, i \in Ids :
        prov'[s][i] = IF s = r /\ i = id THEN x ELSE prov[s][i]
  BY <1>1
<1>3. now' = now /\ UNCHANGED <<tables, kind, todo, saved, poisoned, rep, mem, pending, files, temp>>
  BY DEF Change
<1> HIDE DEF x
<1>4. Past'
  BY <1>1, <1>2, <1>3 DEF IInv, Past, tables
<1>5. (Control /\ Entity)'
  BY <1>3 DEF IInv, Control, Entity, tables
<1>6. Harvested'
  <2>1. ASSUME rep # NoRepo, NEW k \in 1..Len(files), NEW i \in Ids,
               files[k].recs[i] # NoRec
        PROVE  files[k].recs[i].stamp <= prov'[rep][i].stamp
    <3>1. files[k].recs[i] \in Rec /\ rep \in Repos /\ prov[rep][i] \in Rec
      <4>1. TypeOK
        BY DEF IInv
      <4>2. rep \in Repos
        BY <2>1, <4>1 DEF TypeOK
      <4> QED
        BY <2>1, <4>1, <4>2, FileTypes, RecordTypes
    <3>2. files[k].recs[i].stamp <= prov[rep][i].stamp
      BY <2>1 DEF IInv, Harvested
    <3>3. prov[rep][i].stamp <= now
      BY <3>1 DEF IInv, Past
    <3> QED
      BY <1>1, <1>2, <3>1, <3>2, <3>3 DEF Rec
  <2> QED
    BY <1>3, <2>1 DEF IInv, Harvested
<1>7. \A s \in Repos, i \in Ids :
         Wanted(s, i)' /\ ~(s = r /\ i = id) => Wanted(s, i)
  BY <1>2, <1>3 DEF Wanted, tables
<1>8. \A s \in Repos, i \in Ids :
         i \notin slipped'[s] /\ ~(s = r /\ i = id) => i \notin slipped[s]
  BY DEF Change, IInv, TypeOK
<1>9. ASSUME NEW d, NEW c, Vouches(d, c), \A s \in Repos : c[s] \in Nat /\ c[s] <= now
      PROVE  \A s \in Repos, i \in Ids :
               Wanted(s, i)' /\ i \notin slipped'[s] /\ prov'[s][i].stamp < c[s]
                 => Mirrors(d[i], prov'[s][i])
  BY <1>1, <1>2, <1>7, <1>8, <1>9 DEF Vouches
<1>10. Vouches(docs, dataXml)'
  <2>1. \A s \in Repos : dataXml[s] \in Nat /\ dataXml[s] <= now
    BY DEF IInv, TypeOK, Past
  <2> QED
    BY <1>3, <1>9, <2>1 DEF IInv, Vouches, tables
<1>11. (kind = "robo" => Vouches(saved.docs, saved.dataXml))'
  <2>1. \A s \in Repos : saved.dataXml[s] \in Nat /\ saved.dataXml[s] <= now
    BY DEF IInv, TypeOK, Past
  <2> QED
    BY <1>3, <1>9, <2>1 DEF IInv, Vouches, tables
<1>12. Underway'
  <2> SUFFICES ASSUME rep # NoRepo, NEW i \in Ids, Asked(i)'
               PROVE  /\ \A k \in 1..Len(files) : LastIn(k, i) => files[k].recs[i] = prov'[rep][i]
                      /\ (\A k \in 1..Len(files) : files[k].recs[i] = NoRec)
                            => Mirrors(docs[i], prov'[rep][i])
    BY <1>3 DEF Underway, LastIn, tables
  <2>1. rep \in Repos
    BY DEF IInv, TypeOK
  <2>2. ~(rep = r /\ i = id)
    BY <1>3 DEF Asked, Change
  <2>3. prov'[rep][i] = prov[rep][i]
    BY <1>2, <2>1, <2>2
  <2>4. Asked(i)
    <3>1. late \subseteq late'
      BY DEF Change
    <3> QED
      BY <1>3, <1>7, <2>1, <2>2, <2>3, <3>1 DEF Asked
  <2> QED
    BY <2>3, <2>4 DEF IInv, Underway
<1> QED
  BY <1>3, <1>4, <1>5, <1>6, <1>10, <1>11, <1>12 DEF IInv, tables

\* New sets come into the cursor's reach: what they add slips.
LEMMA EditInv ==
  ASSUME IInv, TypeOK', NEW r \in Repos, NEW cs \in SUBSET Sets, EditRepository(r, cs)
  PROVE  IInv'
<1>1. kind = "idle" /\ rep = NoRepo
  BY DEF EditRepository, IInv, Control
<1>2. UNCHANGED <<prov, now, docs, ultima, dataXml, kind, todo, saved, poisoned, rep, mem,
                  pending, files, temp, late>>
  BY DEF EditRepository, update
<1>3. Past'
  BY <1>2 DEF IInv, Past
<1>4. (Control /\ Entity /\ Harvested /\ Underway)'
  BY <1>1, <1>2 DEF IInv, Control, Entity, Harvested, Underway
<1>5. ASSUME NEW s \in Repos, NEW id \in Ids, Wanted(s, id)', id \notin slipped'[s]
      PROVE  Wanted(s, id) /\ id \notin slipped[s]
  BY <1>2, <1>5 DEF EditRepository, Wanted, IInv, TypeOK
<1>6. Vouches(docs, dataXml)'
  BY <1>2, <1>5 DEF IInv, Vouches
<1> QED
  BY <1>1, <1>2, <1>3, <1>4, <1>6 DEF IInv

\* An update begins: every wanted record is still to be listed.
LEMMA EnterInv ==
  ASSUME IInv, TypeOK', NEW r \in Repos, NEW m \in [ultima : BOOLEAN, dataXml : Nat],
         Enter(r, m), rep = NoRepo, UNCHANGED <<prov, now, colecoes, saved, slipped>>,
         m.dataXml = NoDate \/ m.dataXml = dataXml[r],
         kind' # "idle", kind' = "robo" <=> kind = "robo",
         kind' = "robo" => r \in todo /\ m.dataXml = dataXml[r],
         kind' \notin {"all", "robo"} => todo' = {},
         todo' \subseteq todo, r \notin todo'
  PROVE  IInv'
<1>1. /\ rep' = r /\ rep' # NoRepo /\ mem' = m /\ pending' = PagesOf(r, colecoes[r])
      /\ files' = <<>> /\ temp' = 0
  BY NoRepoAssumption DEF Enter
<1>2. \/ m = Unset /\ docs' = Wiped(r) /\ dataXml' = [dataXml EXCEPT ![r] = m.dataXml]
      \/ docs' = docs /\ dataXml' = dataXml
  BY Zenon DEF Enter
<1>3. dataXml \in [Repos -> Nat] /\ now \in Nat
  BY DEF IInv, TypeOK
<1>4. Unset.dataXml = 0
  BY DEF Unset
<1>5. Past'
  <2>1. m.dataXml <= now
    BY <1>3 DEF IInv, Past
  <2>2. \A s \in Repos : dataXml'[s] <= now
    BY <1>2, <1>3, <2>1 DEF IInv, Past
  <2> QED
    BY <1>1, <1>3, <2>1, <2>2 DEF IInv, Past
<1>6. Control'
  <2>1. \/ poisoned' = poisoned
        \/ poisoned' = IF kind = "robo" THEN TRUE ELSE FALSE
    BY Zenon DEF Enter
  <2>2. kind' # "robo" => ~poisoned'
    BY <2>1 DEF IInv, Control
  <2>3. /\ (kind = "idle" => rep = NoRepo)' /\ (kind \notin {"all", "robo"} => todo = {})'
        /\ (rep \notin todo)' /\ (rep = NoRepo => pending = {})'
        /\ (pending \subseteq IF rep = NoRepo THEN {} ELSE PagesOf(rep, colecoes[rep]))'
    BY <1>1
  <2> QED
    BY <2>2, <2>3 DEF Control
<1>7. Entity'
  <2>1. mem'.dataXml # NoDate => mem'.dataXml = dataXml'[rep']
    BY <1>1, <1>2, <1>3, <1>4
  <2>2. ASSUME kind' = "robo"
        PROVE  /\ \A s \in todo' : dataXml'[s] = saved.dataXml[s]
               /\ mem'.dataXml = saved.dataXml[rep']
    <3>1. /\ \A s \in todo : dataXml[s] = saved.dataXml[s]
          /\ r \in todo /\ m.dataXml = dataXml[r] /\ todo \in SUBSET Repos
      BY <2>2 DEF IInv, Entity, TypeOK
    <3> QED
      BY <1>1, <1>2, <1>3, <3>1
  <2> QED
    BY <2>1, <2>2 DEF Entity
<1>8. Harvested'
  BY <1>1 DEF Harvested
<1>9. TypeOK /\ Served(docs)
  BY DEF IInv
<1>10. Served(docs') /\ Served(saved'.docs)
  BY <1>2, <1>9, WipedServed DEF IInv
<1>11. \A s \in Repos, id \in Ids : Wanted(s, id)' <=> Wanted(s, id)
  BY DEF Wanted
<1>12. Vouches(docs, dataXml)'
  <2>1. ASSUME NEW s \in Repos, NEW id \in Ids, Wanted(s, id), id \notin slipped[s],
               prov[s][id].stamp < dataXml'[s]
        PROVE  Mirrors(docs'[id], prov[s][id])
    <3>1. CASE docs' = docs /\ dataXml' = dataXml
      BY <2>1, <3>1 DEF IInv, Vouches
    <3>2. CASE m = Unset /\ docs' = Wiped(r) /\ dataXml' = [dataXml EXCEPT ![r] = m.dataXml]
      <4>1. s # r
        BY <1>3, <1>4, <2>1, <3>2, <1>9, RecordTypes
      <4>2. docs'[id] = docs[id]
        BY <1>9, <2>1, <3>2, <4>1, WipedServed DEF Wanted
      <4>3. dataXml'[s] = dataXml[s]
        BY <1>3, <3>2, <4>1
      <4> QED
        BY <2>1, <4>2, <4>3 DEF IInv, Vouches
    <3> QED
      BY <1>2, <3>1, <3>2
  <2> QED
    BY <1>11, <2>1 DEF Vouches
<1>13. (kind = "robo" => Vouches(saved.docs, saved.dataXml))'
  BY <1>11 DEF IInv, Vouches
<1>14. Underway'
  <2>1. ASSUME NEW id \in Ids, Wanted(r, id) PROVE \E p \in pending' : id \in p.ids
    BY <1>1, <2>1 DEF Wanted, Scope
  <2> QED
    BY <1>1, <1>11, <2>1 DEF Underway, Asked
<1> QED
  BY <1>5, <1>6, <1>7, <1>8, <1>10, <1>12, <1>13, <1>14 DEF IInv

\* No update is in progress any more.
LEMMA LeaveInv ==
  ASSUME IInv, Leave
  PROVE  (Harvested /\ Underway)' /\ (now' = now => mem'.dataXml <= now' /\ temp' <= now'
          /\ \A k \in 1..Len(files') : files'[k].date <= now')
<1>1. rep' = NoRepo /\ mem'.dataXml = 0 /\ files' = <<>> /\ temp' = 0
  BY DEF Leave, Unset
<1>2. now \in Nat
  BY DEF IInv, TypeOK
<1> QED
  BY <1>1, <1>2 DEF Harvested, Underway

\* A response is harvested: what it lists is as the provider has it.
LEMMA FetchInv ==
  ASSUME IInv, TypeOK', NEW p \in Pages, Fetch(p)
  PROVE  IInv'
<1>1. /\ p \in pending /\ pending' = pending \ {p}
      /\ files' = Append(files, Response(p, mem.dataXml))
      /\ UNCHANGED <<prov, now, tables, kind, todo, saved, poisoned, rep, mem, temp, late, slipped>>
  BY DEF Fetch
<1>2. TypeOK /\ files \in Seq(File) /\ rep \in Repos /\ now \in Nat /\ mem.dataXml \in Nat
  BY <1>1 DEF IInv, Control, TypeOK
<1>3. p.rep = rep /\ p \in PagesOf(rep, colecoes[rep])
  BY <1>1, <1>2, NoRepoAssumption DEF IInv, Control, PagesOf
<1> DEFINE n == Len(files)
           R == Response(p, mem.dataXml)
<1>4. R \in File
  BY <1>2, ResponseIsFile
<1>5. /\ Len(files') = n + 1 /\ n \in Nat /\ n = Len(files)
      /\ files'[n + 1] = R
      /\ \A k \in 1..n : files'[k] = files[k]
  BY <1>1, <1>2, <1>4
<1>6. R.date = now
  BY DEF Response
<1>7. \A id \in Ids :
        R.recs[id] = IF id \in p.ids /\ prov[rep][id].stamp >= mem.dataXml
                     THEN prov[rep][id] ELSE NoRec
  BY <1>3 DEF Response
<1> HIDE DEF n, R
<1>8. Past'
  BY <1>1, <1>2, <1>5, <1>6 DEF IInv, Past, tables
<1>9. (Control /\ Entity)'
  BY <1>1, <1>2, NoRepoAssumption DEF IInv, Control, Entity, tables
<1>10. Harvested'
  <2> SUFFICES ASSUME NEW k \in 1..(n + 1), NEW id \in Ids, files'[k].recs[id] # NoRec
               PROVE  /\ id \in Scope(rep, {})
                      /\ mem.dataXml <= files'[k].recs[id].stamp
                      /\ files'[k].recs[id].stamp <= prov[rep][id].stamp
    BY <1>1, <1>5 DEF Harvested
  <2>1. CASE k \in 1..n
    BY <1>2, <1>5, <2>1, NoRepoAssumption DEF IInv, Harvested, n
  <2>2. CASE k = n + 1
    <3>1. id \in p.ids /\ files'[k].recs[id] = prov[rep][id] /\ prov[rep][id].stamp >= mem.dataXml
      BY <1>5, <1>7, <2>2
    <3>2. id \in Scope(rep, {})
      BY <1>3, <3>1 DEF Scope, PagesOf
    <3> QED
      BY <1>2, <3>1, <3>2, RecordTypes
  <2> QED
    BY <1>5, <2>1, <2>2
<1>11. \A s \in Repos, id \in Ids : Wanted(s, id)' <=> Wanted(s, id)
  BY <1>1 DEF Wanted, tables
<1>12. Vouches(docs, dataXml)' /\ (kind = "robo" => Vouches(saved.docs, saved.dataXml))'
  BY <1>1, <1>11 DEF IInv, Vouches, tables
<1>13. Underway'
  <2> SUFFICES ASSUME NEW id \in Ids, Asked(id)'
               PROVE  /\ \A k \in 1..(n + 1) : LastIn(k, id)' => files'[k].recs[id] = prov[rep][id]
                      /\ (\A k \in 1..(n + 1) : files'[k].recs[id] = NoRec)
                           => Mirrors(docs[id], prov[rep][id])
    BY <1>1, <1>5 DEF Underway, tables
  <2>1. /\ Wanted(rep, id) /\ mem.dataXml <= prov[rep][id].stamp /\ id \notin late
        /\ \A q \in pending \ {p} : id \notin q.ids
    BY <1>1, <1>2, <1>11 DEF Asked
  <2>2. prov[rep][id] # NoRec
    BY <2>1 DEF Wanted, NoRec
  <2>3. CASE id \in p.ids
    <3>1. files'[n + 1].recs[id] = prov[rep][id]
      BY <1>2, <1>5, <1>7, <2>1, <2>3, RecordTypes
    <3>2. \A k \in 1..n : ~LastIn(k, id)'
      BY <1>5, <2>2, <3>1 DEF LastIn
    <3> QED
      BY <1>5, <2>2, <3>1, <3>2
  <2>4. CASE id \notin p.ids
    <3>1. Asked(id)
      BY <1>1, <2>1, <2>4 DEF Asked
    <3>2. files'[n + 1].recs[id] = NoRec
      BY <1>5, <1>7, <2>4
    <3>3. ASSUME NEW k \in 1..n, LastIn(k, id)' PROVE LastIn(k, id)
      <4>1. files[k].recs[id] # NoRec
        BY <1>5, <3>3 DEF LastIn
      <4>2. ASSUME NEW j \in 1..n, j > k PROVE files[j].recs[id] = NoRec
        BY <1>5, <3>3, <4>2 DEF LastIn
      <4> QED
        BY <1>5, <4>1, <4>2 DEF LastIn
    <3>4. /\ \A k \in 1..n : LastIn(k, id) => files[k].recs[id] = prov[rep][id]
          /\ (\A k \in 1..n : files[k].recs[id] = NoRec) => Mirrors(docs[id], prov[rep][id])
      BY <1>2, <3>1, NoRepoAssumption DEF IInv, Underway, n
    <3>5. ASSUME NEW k \in 1..(n + 1), LastIn(k, id)'
          PROVE  files'[k].recs[id] = prov[rep][id]
      <4>1. k \in 1..n
        BY <1>5, <3>2, <3>5 DEF LastIn
      <4> QED
        BY <1>5, <3>3, <3>4, <3>5, <4>1
    <3>6. (\A k \in 1..(n + 1) : files'[k].recs[id] = NoRec) => Mirrors(docs[id], prov[rep][id])
      BY <1>5, <3>2, <3>4
    <3> QED
      BY <3>5, <3>6
  <2> QED
    BY <2>3, <2>4
<1> QED
  BY <1>1, <1>8, <1>9, <1>10, <1>12, <1>13 DEF IInv, tables

LEMMA StartOneInv ==
  ASSUME IInv, TypeOK', NEW r \in Repos, NEW apagar \in BOOLEAN, StartOne(r, apagar)
  PROVE  IInv'
<1> DEFINE m == IF apagar THEN Unset ELSE [ultima |-> ultima[r], dataXml |-> dataXml[r]]
<1>1. m \in [ultima : BOOLEAN, dataXml : Nat]
  BY DEF IInv, TypeOK, Unset
<1>2. m.dataXml = NoDate \/ m.dataXml = dataXml[r]
  BY DEF Unset
<1>3. Enter(r, m) /\ kind = "idle" /\ kind' = "one"
  BY DEF StartOne
<1>4. UNCHANGED <<prov, now, colecoes, saved, slipped, todo>>
  BY DEF StartOne
<1>5. rep = NoRepo /\ todo = {}
  BY <1>3 DEF IInv, Control
<1> HIDE DEF m
<1> QED
  BY <1>1, <1>2, <1>3, <1>4, <1>5, EnterInv

LEMMA Next1Inv ==
  ASSUME IInv, TypeOK', NEW r \in Repos, Next1(r)
  PROVE  IInv'
<1> DEFINE m == [ultima |-> ultima[r], dataXml |-> dataXml[r]]
<1>1. m \in [ultima : BOOLEAN, dataXml : Nat] /\ m.dataXml = dataXml[r]
  BY DEF IInv, TypeOK
<1>2. /\ Enter(r, m) /\ kind' = kind /\ rep = NoRepo /\ r \in todo /\ todo' = todo \ {r}
      /\ UNCHANGED <<prov, now, colecoes, saved, slipped>>
  BY DEF Next1
<1>3. kind \in {"all", "robo"}
  BY <1>2 DEF IInv, Control
<1> HIDE DEF m
<1> QED
  BY <1>1, <1>2, <1>3, EnterInv

\* A record is imported: what the last file says of it is now mirrored.
LEMMA ImportRecordInv ==
  ASSUME IInv, TypeOK', NEW id \in Ids, ImportRecord(id)
  PROVE  IInv'
<1>1. TypeOK /\ files \in Seq(File) /\ files # <<>> /\ rep \in Repos /\ rep # NoRepo
  BY DEF ImportRecord, IInv, TypeOK
<1> DEFINE n == Len(files)
           x == files[1].recs[id]
<1>2. Head(files) = files[1] /\ n \in Nat /\ n >= 1 /\ n = Len(files) /\ files[1] \in File
  BY <1>1
<1>3. x # NoRec /\ x \in Rec
  BY <1>2 DEF ImportRecord, File
<1>4. UNCHANGED <<prov, now, colecoes, kind, todo, saved, poisoned, rep, mem, pending, temp, late,
                  slipped>>
  BY DEF ImportRecord
<1>5. /\ Len(files') = n
      /\ \A k \in 1..n : files'[k].date = files[k].date
      /\ \A k \in 1..n, i \in Ids :
           files'[k].recs[i] = IF k = 1 /\ i = id THEN NoRec ELSE files[k].recs[i]
  <2>1. files' = [files EXCEPT ![1].recs[id] = NoRec]
    BY DEF ImportRecord
  <2> QED
    BY <1>1, <1>2, <2>1 DEF File
<1>6. \/ x.st = "broken" /\ docs' = docs /\ dataXml' = dataXml
      \/ /\ x.st # "broken" /\ docs' = [docs EXCEPT ![id] = Save(docs[id], rep, x)]
         /\ dataXml' = [dataXml EXCEPT ![rep] = mem.dataXml]
  <2>1. \/ Head(files).recs[id].st = "broken" /\ docs' = docs /\ dataXml' = dataXml
        \/ /\ Head(files).recs[id].st # "broken"
           /\ docs' = [docs EXCEPT ![id] = Save(docs[id], rep, Head(files).recs[id])]
           /\ dataXml' = [dataXml EXCEPT ![rep] = mem.dataXml]
    BY Zenon DEF ImportRecord
  <2> QED
    BY <1>2, <2>1
<1>7. /\ id \in Scope(rep, {}) /\ mem.dataXml <= x.stamp /\ x.stamp <= prov[rep][id].stamp
      /\ mem.dataXml \in Nat /\ x.stamp \in Nat /\ prov[rep][id].stamp \in Nat
  <2>1. 1 \in 1..Len(files)
    BY <1>2
  <2>2. x.stamp \in Nat /\ prov[rep][id].stamp \in Nat
    BY <1>1, <2>1, RecordTypes, FileTypes
  <2>3. mem.dataXml \in Nat
    BY <1>1 DEF TypeOK
  <2>4. /\ id \in Scope(rep, {}) /\ mem.dataXml <= files[1].recs[id].stamp
        /\ files[1].recs[id].stamp <= prov[rep][id].stamp
    BY <1>1, <1>3, <2>1 DEF IInv, Harvested
  <2> QED
    BY <2>2, <2>3, <2>4
<1>8. docs \in [Ids -> Doc] /\ dataXml \in [Repos -> Nat] /\ now \in Nat
  BY <1>1 DEF TypeOK
<1>9. \A s \in Repos : dataXml'[s] = dataXml[s] \/ (s = rep /\ dataXml'[s] = mem.dataXml)
  BY <1>6, <1>8
<1>10. mem.dataXml = 0 \/ mem.dataXml = dataXml[rep]
  BY <1>1 DEF IInv, Entity
<1>11. \A i \in Ids : i # id => docs'[i] = docs[i]
  BY <1>6, <1>8
<1> HIDE DEF n, x
<1>12. Past'
  BY <1>4, <1>5, <1>2, <1>9 DEF IInv, Past
<1>13. Control'
  BY <1>4 DEF IInv, Control
<1>14. Entity'
  <2>1. mem.dataXml # 0 => mem.dataXml = dataXml'[rep]
    BY <1>1, <1>9, <1>10
  <2>2. todo \subseteq Repos /\ rep \notin todo
    BY <1>1 DEF IInv, Control, TypeOK
  <2>3. \A s \in todo : dataXml'[s] = dataXml[s]
    BY <1>9, <2>2
  <2> QED
    BY <1>4, <2>1, <2>3 DEF IInv, Entity
<1>15. Harvested'
  BY <1>1, <1>2, <1>4, <1>5 DEF IInv, Harvested
<1>16. Served(docs') /\ Served(saved'.docs)
  <2>1. docs'[id].owner # NoRepo => id \in Scope(docs'[id].owner, {})
    BY <1>1, <1>6, <1>7, <1>8, SaveServed DEF IInv, Served
  <2> QED
    BY <1>4, <1>11, <2>1 DEF IInv, Served
<1>17. \A s \in Repos, i \in Ids : Wanted(s, i)' <=> Wanted(s, i)
  BY <1>4 DEF Wanted
<1>18. Vouches(docs, dataXml)'
  <2>1. ASSUME NEW s \in Repos, NEW i \in Ids, Wanted(s, i), i \notin slipped[s],
               prov[s][i].stamp < dataXml'[s]
        PROVE  Mirrors(docs'[i], prov[s][i])
    <3>1. prov[s][i].stamp \in Nat
      BY <1>1, RecordTypes
    <3>2. prov[s][i].stamp < dataXml[s]
      BY <1>9, <1>10, <2>1, <3>1
    <3>3. CASE docs' = docs
      BY <2>1, <3>2, <3>3 DEF IInv, Vouches
    <3>4. CASE i # id
      BY <1>11, <2>1, <3>2, <3>4 DEF IInv, Vouches
    <3>5. CASE i = id /\ dataXml' = [dataXml EXCEPT ![rep] = mem.dataXml]
      <4>1. s = rep
        BY <1>1, <1>7, <2>1, <3>5, UnsharedIsOwn DEF Wanted
      <4>2. prov[rep][id].stamp < mem.dataXml
        BY <1>8, <2>1, <3>5, <4>1
      <4> QED
        BY <1>7, <4>2
    <3> QED
      BY <1>6, <3>3, <3>4, <3>5
  <2> QED
    BY <1>4, <1>17, <2>1 DEF Vouches
<1>19. (kind = "robo" => Vouches(saved.docs, saved.dataXml))'
  BY <1>4, <1>17 DEF IInv, Vouches
<1>20. Underway'
  <2> SUFFICES ASSUME NEW i \in Ids, Asked(i)
               PROVE  /\ \A k \in 1..n : LastIn(k, i)' => files'[k].recs[i] = prov[rep][i]
                      /\ (\A k \in 1..n : files'[k].recs[i] = NoRec)
                           => Mirrors(docs'[i], prov[rep][i])
    BY <1>1, <1>4, <1>5, <1>17 DEF Underway, Asked
  <2>1. /\ \A k \in 1..n : LastIn(k, i) => files[k].recs[i] = prov[rep][i]
        /\ (\A k \in 1..n : files[k].recs[i] = NoRec) => Mirrors(docs[i], prov[rep][i])
    BY <1>1, <1>2 DEF IInv, Underway
  <2>2. CASE i # id
    <3>1. \A k \in 1..n : files'[k].recs[i] = files[k].recs[i]
      BY <1>5, <2>2
    <3>2. \A k \in 1..n : LastIn(k, i)' => LastIn(k, i)
      BY <1>2, <1>5, <3>1 DEF LastIn
    <3> QED
      BY <1>11, <2>1, <2>2, <3>1, <3>2
  <2>3. CASE i = id
    <3>1. files'[1].recs[id] = NoRec /\ \A k \in 1..n : k # 1 => files'[k].recs[id] = files[k].recs[id]
      BY <1>2, <1>5
    <3>2. ASSUME NEW k \in 1..n, LastIn(k, i)' PROVE files'[k].recs[i] = prov[rep][i]
      <4>1. k # 1
        BY <2>3, <3>1, <3>2 DEF LastIn
      <4>2. LastIn(k, i)
        BY <1>2, <1>5, <2>3, <3>1, <3>2, <4>1 DEF LastIn
      <4> QED
        BY <2>1, <2>3, <3>1, <4>1, <4>2
    <3>3. ASSUME \A k \in 1..n : files'[k].recs[i] = NoRec PROVE Mirrors(docs'[i], prov[rep][i])
      <4>1. LastIn(1, i)
        BY <1>2, <1>3, <2>3, <3>1, <3>3 DEF LastIn, x
      <4>2. x = prov[rep][id]
        BY <1>2, <2>1, <2>3, <4>1 DEF x
      <4>3. x.st # "broken"
        BY <2>3, <4>2 DEF Asked, Wanted
      <4>4. docs'[id] = Save(docs[id], rep, x)
        BY <1>6, <1>8, <4>3
      <4> QED
        BY <1>1, <2>3, <4>2, <4>3, <4>4, SaveMirrors
    <3> QED
      BY <3>2, <3>3
  <2> QED
    BY <2>2, <2>3
<1> QED
  BY <1>12, <1>13, <1>14, <1>15, <1>16, <1>18, <1>19, <1>20 DEF IInv

\* The first file has been imported; the others move up.
LEMMA FinishFileInv ==
  ASSUME IInv, TypeOK', FinishFile
  PROVE  IInv'
<1>1. TypeOK /\ files \in Seq(File) /\ files # <<>> /\ rep \in Repos /\ rep # NoRepo
  BY DEF FinishFile, IInv, TypeOK
<1> DEFINE n == Len(files)
<1>2. n \in Nat /\ n >= 1 /\ n = Len(files) /\ Head(files) = files[1]
  BY <1>1
<1>3. /\ UNCHANGED <<prov, now, tables, kind, todo, saved, poisoned, rep, mem, pending, late, slipped>>
      /\ temp' = files[1].date
      /\ files' = Tail(files)
      /\ \A id \in Ids : files[1].recs[id] = NoRec
  BY <1>2 DEF FinishFile
<1>4. /\ Len(files') = n - 1
      /\ \A k \in 1..(n - 1) : files'[k] = files[k + 1]
  BY <1>1, <1>2, <1>3
<1> HIDE DEF n
<1>5. Past'
  BY <1>2, <1>3, <1>4 DEF IInv, Past, tables
<1>6. (Control /\ Entity)'
  BY <1>3 DEF IInv, Control, Entity, tables
<1>7. \A k \in 1..(n - 1) : k + 1 \in 1..n
  BY <1>2
<1>8. Harvested'
  BY <1>1, <1>2, <1>3, <1>4, <1>7 DEF IInv, Harvested
<1>9. \A s \in Repos, id \in Ids : Wanted(s, id)' <=> Wanted(s, id)
  BY <1>3 DEF Wanted, tables
<1>10. Vouches(docs, dataXml)' /\ (kind = "robo" => Vouches(saved.docs, saved.dataXml))'
  BY <1>3, <1>9 DEF IInv, Vouches, tables
<1>11. Underway'
  <2> SUFFICES ASSUME NEW i \in Ids, Asked(i)
               PROVE  /\ \A k \in 1..(n - 1) : LastIn(k, i)' => files'[k].recs[i] = prov[rep][i]
                      /\ (\A k \in 1..(n - 1) : files'[k].recs[i] = NoRec)
                           => Mirrors(docs[i], prov[rep][i])
    BY <1>1, <1>3, <1>4, <1>9 DEF Underway, Asked, tables
  <2>1. /\ \A k \in 1..n : LastIn(k, i) => files[k].recs[i] = prov[rep][i]
        /\ (\A k \in 1..n : files[k].recs[i] = NoRec) => Mirrors(docs[i], prov[rep][i])
    BY <1>1, <1>2 DEF IInv, Underway
  <2>2. \A j \in 1..n : j = 1 \/ (j - 1 \in 1..(n - 1) /\ (j - 1) + 1 = j)
    BY <1>2
  <2>3. \A j \in 1..n : j > 1 => files[j] = files'[j - 1]
    BY <1>2, <1>4, <2>2
  <2>4. ASSUME NEW k \in 1..(n - 1), LastIn(k, i)'
        PROVE  files'[k].recs[i] = prov[rep][i]
    <3>1. files[k + 1].recs[i] # NoRec
      BY <1>4, <2>4 DEF LastIn
    <3>2. ASSUME NEW j \in 1..n, j > k + 1 PROVE files[j].recs[i] = NoRec
      <4>1. j - 1 \in 1..(n - 1) /\ j - 1 > k
        BY <1>2, <3>2
      <4>2. files'[j - 1].recs[i] = NoRec
        BY <1>4, <2>4, <4>1 DEF LastIn
      <4> QED
        BY <1>2, <2>3, <3>2, <4>1, <4>2
    <3>3. LastIn(k + 1, i)
      BY <1>2, <3>1, <3>2 DEF LastIn
    <3> QED
      BY <1>4, <1>7, <2>1, <3>3
  <2>5. (\A k \in 1..(n - 1) : files'[k].recs[i] = NoRec)
          => \A j \in 1..n : files[j].recs[i] = NoRec
    BY <1>2, <1>3, <2>2, <2>3
  <2> QED
    BY <2>1, <2>4, <2>5
<1> QED
  BY <1>3, <1>5, <1>6, <1>8, <1>10, <1>11 DEF IInv, tables

\* The update ends well: the new cursor vouches for what the old one did and
\* for what was asked for and did not slip.
LEMMA FinishRepositoryInv ==
  ASSUME IInv, TypeOK', FinishRepository
  PROVE  IInv'
<1>1. TypeOK /\ rep \in Repos /\ rep # NoRepo /\ pending = {} /\ files = <<>>
  BY DEF FinishRepository, IInv, TypeOK
<1>2. /\ UNCHANGED <<prov, now, docs, colecoes, todo, saved, poisoned>>
      /\ dataXml' = [dataXml EXCEPT ![rep] = Cursor]
      /\ kind' = IF kind = "one" THEN "idle" ELSE kind
      /\ slipped' = [slipped EXCEPT ![rep] =
           (IF mem.dataXml = NoDate THEN {} ELSE slipped[rep])
             \cup {id \in late : prov[rep][id].stamp < Cursor}]
      /\ Leave
  BY DEF FinishRepository
<1>3. dataXml \in [Repos -> Nat] /\ slipped \in [Repos -> SUBSET Ids] /\ now \in Nat
  BY <1>1 DEF TypeOK
<1>4. Cursor \in Nat /\ Cursor <= now
  BY <1>1 DEF Cursor, IInv, Past, TypeOK
<1>5. rep' = NoRepo /\ pending' = {}
  BY <1>2 DEF Leave
<1>6. Past'
  <2>1. \A r \in Repos : dataXml'[r] <= now
    BY <1>2, <1>3, <1>4 DEF IInv, Past
  <2> QED
    BY <1>2, <2>1, LeaveInv DEF IInv, Past
<1>7. Control'
  <2>1. todo \subseteq Repos
    BY <1>1 DEF TypeOK
  <2> QED
    BY <1>2, <1>5, <2>1, NoRepoAssumption DEF IInv, Control
<1>8. Entity'
  <2>1. rep \notin todo /\ todo \subseteq Repos
    BY <1>1 DEF IInv, Control, TypeOK
  <2>2. \A r \in todo : dataXml'[r] = dataXml[r]
    BY <1>2, <1>3, <2>1
  <2>3. kind' = "robo" => kind = "robo"
    BY <1>2
  <2> QED
    BY <1>2, <1>5, <2>2, <2>3 DEF IInv, Entity
<1>9. \A s \in Repos, id \in Ids : Wanted(s, id)' <=> Wanted(s, id)
  BY <1>2 DEF Wanted
<1>10. mem.dataXml \in Nat /\ (mem.dataXml # 0 => mem.dataXml = dataXml[rep])
  BY <1>1 DEF IInv, Entity, TypeOK
<1>11. \A s \in Repos : s # rep => slipped'[s] = slipped[s] /\ dataXml'[s] = dataXml[s]
  BY <1>2, <1>3
<1>12. dataXml'[rep] = Cursor /\ (mem.dataXml # 0 => slipped[rep] \subseteq slipped'[rep])
       /\ {id \in late : prov[rep][id].stamp < Cursor} \subseteq slipped'[rep]
  BY <1>1, <1>2, <1>3
<1>13. Vouches(docs, dataXml)'
  <2>1. ASSUME NEW s \in Repos, NEW id \in Ids, Wanted(s, id), id \notin slipped'[s],
               prov[s][id].stamp < dataXml'[s]
        PROVE  Mirrors(docs[id], prov[s][id])
    <3>1. CASE s # rep
      BY <1>11, <2>1, <3>1 DEF IInv, Vouches
    <3>2. CASE s = rep /\ prov[s][id].stamp < mem.dataXml
      <4>1. mem.dataXml # 0
        BY <1>1, <3>2, RecordTypes
      <4> QED
        BY <1>10, <1>12, <2>1, <3>2, <4>1 DEF IInv, Vouches
    <3>3. CASE s = rep /\ ~(prov[s][id].stamp < mem.dataXml)
      <4>1. mem.dataXml <= prov[s][id].stamp
        BY <1>1, <1>10, <3>3, RecordTypes
      <4>2. id \notin late
        BY <1>12, <2>1, <3>3
      <4>3. Asked(id)
        BY <1>1, <2>1, <3>3, <4>1, <4>2 DEF Asked
      <4>4. Len(files) = 0
        BY <1>1
      <4> QED
        BY <1>1, <3>3, <4>3, <4>4 DEF IInv, Underway
    <3> QED
      BY <3>1, <3>2, <3>3
  <2> QED
    BY <1>2, <1>9, <2>1 DEF Vouches
<1>14. (kind = "robo" => Vouches(saved.docs, saved.dataXml))'
  <2>1. ASSUME kind = "robo", NEW s \in Repos, NEW id \in Ids, Wanted(s, id), id \notin slipped'[s],
               prov[s][id].stamp < saved.dataXml[s]
        PROVE  Mirrors(saved.docs[id], prov[s][id])
    <3>1. s = rep => mem.dataXml # 0
      BY <1>1, <2>1, RecordTypes DEF IInv, Entity
    <3>2. id \notin slipped[s]
      BY <1>11, <1>12, <2>1, <3>1
    <3> QED
      BY <2>1, <3>2 DEF IInv, Vouches
  <2> QED
    BY <1>2, <1>9, <2>1 DEF Vouches
<1> QED
  BY <1>2, <1>6, <1>7, <1>8, <1>13, <1>14, LeaveInv DEF IInv

LEMMA UpdateFailsInv ==
  ASSUME IInv, TypeOK', UpdateFails
  PROVE  IInv'
<1>1. /\ UNCHANGED <<prov, now, tables, todo, saved, slipped>> /\ Leave
      /\ kind' = IF kind = "one" THEN "idle" ELSE kind
  BY DEF UpdateFails
<1>2. rep' = NoRepo /\ pending' = {}
  BY <1>1 DEF Leave
<1>3. kind' # "robo" => ~poisoned'
  BY DEF UpdateFails, IInv, Control
<1>4. Past'
  BY <1>1, LeaveInv DEF IInv, Past, tables
<1>5. Control'
  <2>1. todo \subseteq Repos
    BY DEF IInv, TypeOK
  <2> QED
    BY <1>1, <1>2, <1>3, <2>1, NoRepoAssumption DEF IInv, Control
<1>6. Entity'
  BY <1>1, <1>2 DEF IInv, Entity, tables
<1>7. \A s \in Repos, id \in Ids : Wanted(s, id)' <=> Wanted(s, id)
  BY <1>1 DEF Wanted, tables
<1>8. Vouches(docs, dataXml)' /\ (kind = "robo" => Vouches(saved.docs, saved.dataXml))'
  BY <1>1, <1>7 DEF IInv, Vouches, tables
<1> QED
  BY <1>1, <1>4, <1>5, <1>6, <1>8, LeaveInv DEF IInv, tables

\* The transaction of a run that is not the robot's commits at each step; the
\* robot's may go back to the tables it found, whose cursors vouch as well.
LEMMA RestoredInv ==
  ASSUME IInv, UNCHANGED <<prov, now, colecoes, slipped>>,
         \/ UNCHANGED <<docs, dataXml>>
         \/ kind = "robo" /\ docs' = saved.docs /\ dataXml' = saved.dataXml
  PROVE  /\ Served(docs') /\ Vouches(docs, dataXml)'
         /\ \A r \in Repos : dataXml'[r] <= now'
<1>1. \A s \in Repos, id \in Ids : Wanted(s, id)' <=> Wanted(s, id)
  BY DEF Wanted
<1>2. Served(docs')
  BY DEF IInv
<1>3. Vouches(docs, dataXml)'
  BY <1>1 DEF IInv, Vouches
<1> QED
  BY <1>2, <1>3 DEF IInv, Past

LEMMA EndRunInv ==
  ASSUME IInv, TypeOK', EndRun
  PROVE  IInv'
<1>1. /\ UNCHANGED <<prov, now, colecoes, todo, rep, mem, pending, files, temp, late, slipped>>
      /\ kind' = "idle" /\ ~poisoned' /\ rep = NoRepo /\ todo = {} /\ saved' = Blank
  BY DEF EndRun, update
<1>2. \/ UNCHANGED <<docs, dataXml>>
      \/ kind = "robo" /\ docs' = saved.docs /\ dataXml' = saved.dataXml
  BY DEF EndRun, IInv, Control
<1>3. /\ \A r \in Repos : Blank.dataXml[r] = 0
      /\ Served(Blank.docs)
  BY DEF Blank, Served, NoDoc
<1>4. Past'
  BY <1>1, <1>2, <1>3, RestoredInv DEF IInv, Past, TypeOK
<1>5. (Control /\ Entity /\ Harvested /\ Underway)'
  BY <1>1 DEF IInv, Control, Entity, Harvested, Underway
<1> QED
  BY <1>1, <1>2, <1>3, <1>4, <1>5, RestoredInv DEF IInv

LEMMA CrashInv ==
  ASSUME IInv, TypeOK', Crash
  PROVE  IInv'
<1>1. /\ UNCHANGED <<prov, now, colecoes, slipped>> /\ Leave
      /\ kind' = "idle" /\ todo' = {} /\ ~poisoned' /\ saved' = Blank
  BY DEF Crash
<1>2. \/ UNCHANGED <<docs, dataXml>>
      \/ kind = "robo" /\ docs' = saved.docs /\ dataXml' = saved.dataXml
  BY DEF Crash
<1>3. /\ \A r \in Repos : Blank.dataXml[r] = 0
      /\ Served(Blank.docs)
  BY DEF Blank, Served, NoDoc
<1>4. rep' = NoRepo /\ pending' = {}
  BY <1>1 DEF Leave
<1>5. Past'
  <2>1. \A r \in Repos : dataXml'[r] <= now'
    BY <1>1, <1>2, RestoredInv
  <2>2. mem'.dataXml <= now' /\ temp' <= now' /\ \A k \in 1..Len(files') : files'[k].date <= now'
    BY <1>1, LeaveInv
  <2>3. \A r \in Repos : saved'.dataXml[r] <= now'
    BY <1>1, <1>3 DEF IInv, TypeOK
  <2> QED
    BY <1>1, <2>1, <2>2, <2>3 DEF IInv, Past
<1>6. (Control /\ Entity)'
  BY <1>1, <1>4 DEF Control, Entity
<1> QED
  BY <1>1, <1>2, <1>3, <1>5, <1>6, RestoredInv, LeaveInv DEF IInv

LEMMA StartAllInv ==
  ASSUME IInv, TypeOK', StartAll
  PROVE  IInv'
<1>1. /\ UNCHANGED <<prov, now, docs, colecoes, dataXml, saved, poisoned, rep, mem, pending, files, temp,
                     late, slipped>>
      /\ kind = "idle" /\ kind' = "all" /\ todo' = Repos
  BY DEF StartAll, tables, update
<1>2. rep = NoRepo
  BY <1>1 DEF IInv, Control
<1>3. Past'
  BY <1>1 DEF IInv, Past
<1>4. (Control /\ Entity /\ Harvested /\ Underway)'
  BY <1>1, <1>2, NoRepoAssumption DEF IInv, Control, Entity, Harvested, Underway
<1>5. \A s \in Repos, id \in Ids : Wanted(s, id)' <=> Wanted(s, id)
  BY <1>1 DEF Wanted
<1>6. Vouches(docs, dataXml)'
  BY <1>1, <1>5 DEF IInv, Vouches
<1> QED
  BY <1>1, <1>3, <1>4, <1>6 DEF IInv

LEMMA StartRoboInv ==
  ASSUME IInv, TypeOK', StartRobo
  PROVE  IInv'
<1>1. /\ UNCHANGED <<prov, now, docs, colecoes, dataXml, rep, mem, pending, files, temp, late, slipped>>
      /\ kind = "idle" /\ kind' = "robo" /\ todo' = Repos /\ ~poisoned'
      /\ saved'.docs = docs /\ saved'.dataXml = dataXml
  BY DEF StartRobo, tables, update
<1>2. rep = NoRepo
  BY <1>1 DEF IInv, Control
<1>3. Past'
  BY <1>1 DEF IInv, Past
<1>4. (Control /\ Entity /\ Harvested /\ Underway)'
  BY <1>1, <1>2, NoRepoAssumption DEF IInv, Control, Entity, Harvested, Underway
<1>5. \A s \in Repos, id \in Ids : Wanted(s, id)' <=> Wanted(s, id)
  BY <1>1 DEF Wanted
<1>6. Vouches(docs, dataXml)' /\ Vouches(saved.docs, saved.dataXml)'
  BY <1>1, <1>5 DEF IInv, Vouches
<1> QED
  BY <1>1, <1>3, <1>4, <1>6 DEF IInv

LEMMA InvStep == IInv /\ [Next]_vars => IInv'
<1> SUFFICES ASSUME IInv, [Next]_vars PROVE IInv'
  OBVIOUS
<1>1. TypeOK'
  BY TypeStep DEF IInv
<1>2. CASE Tick
  BY <1>1, <1>2, TickInv
<1>3. ASSUME NEW r \in Repos, NEW id \in Ids, NEW st \in Statuses, Change(r, id, st)
      PROVE  IInv'
  BY <1>1, <1>3, ChangeInv
<1>4. ASSUME NEW r \in Repos, NEW cs \in SUBSET Sets, EditRepository(r, cs) PROVE IInv'
  BY <1>1, <1>4, EditInv
<1>5. ASSUME NEW r \in Repos, NEW apagar \in BOOLEAN, StartOne(r, apagar) PROVE IInv'
  BY <1>1, <1>5, StartOneInv
<1>6. CASE StartAll
  BY <1>1, <1>6, StartAllInv
<1>7. CASE UpdateFails
  BY <1>1, <1>7, UpdateFailsInv
<1>8. CASE Crash
  BY <1>1, <1>8, CrashInv
<1>9. CASE StartRobo
  BY <1>1, <1>9, StartRoboInv
<1>10. ASSUME NEW r \in Repos, Next1(r) PROVE IInv'
  BY <1>1, <1>10, Next1Inv
<1>11. ASSUME NEW p \in Pages, Fetch(p) PROVE IInv'
  BY <1>1, <1>11, FetchInv
<1>12. ASSUME NEW id \in Ids, ImportRecord(id) PROVE IInv'
  BY <1>1, <1>12, ImportRecordInv
<1>13. CASE FinishFile
  BY <1>1, <1>13, FinishFileInv
<1>14. CASE FinishRepository
  BY <1>1, <1>14, FinishRepositoryInv
<1>15. CASE EndRun
  BY <1>1, <1>15, EndRunInv
<1>16. CASE UNCHANGED vars
  <2>1. UNCHANGED <<prov, now, docs, colecoes, dataXml, kind, todo, saved, poisoned, rep, mem, pending,
                    files, temp, late, slipped>>
    BY <1>16 DEF vars
  <2>2. (Past /\ Control /\ Entity /\ Harvested)'
    BY <2>1 DEF IInv, Past, Control, Entity, Harvested
  <2>3. \A s \in Repos, id \in Ids : Wanted(s, id)' <=> Wanted(s, id)
    BY <2>1 DEF Wanted
  <2>4. Underway'
    BY <2>1 DEF IInv, Underway, Asked, LastIn, Wanted
  <2> QED
    BY <1>1, <2>1, <2>2, <2>3, <2>4 DEF IInv, Vouches
<1> QED
  BY <1>2, <1>3, <1>4, <1>5, <1>6, <1>7, <1>8, <1>9, <1>10, <1>11, <1>12,
     <1>13, <1>14, <1>15, <1>16 DEF Next, Environment, Work

\* The inductive invariant holds of every run of the harvest.
THEOREM InvCorrect == Spec => []IInv
<1> QED
  BY InvInit, InvStep, PTL DEF Spec

\* Whatever the number of repositories, records, sets and responses, and
\* wherever updates fail, crash or roll back: what changed before a stored
\* cursor is mirrored, but for the records that slipped.
THEOREM HarvestComplete == Spec => []OnlySlippedAreMissed
<1>1. IInv => OnlySlippedAreMissed
  BY DEF IInv, Vouches, OnlySlippedAreMissed
<1> QED
  BY <1>1, InvCorrect, PTL

\* A document always belongs to a repository that serves its identifier.
THEOREM OwnersAlwaysServe == Spec => []OwnersServe
<1>1. IInv => OwnersServe
  BY DEF IInv, Served, OwnersServe
<1> QED
  BY <1>1, InvCorrect, PTL
=============================================================================
