------------------------- MODULE HarvestRefinement --------------------------
(***************************************************************************)
(* More theorems about module Harvest, for every set of repositories,      *)
(* records and responses: it implements module Mirror; an update never     *)
(* puts an older content over a newer one; and with providers that answer  *)
(* in one response nothing behind a cursor is missed.                      *)
(***************************************************************************)
EXTENDS HarvestProofs

USE DEF NoDate

-----------------------------------------------------------------------------
(* What these need beyond IInv *)

\* The date an update will store is not before the one it found, and what
\* changes under it changes after that.
Onward ==
  /\ rep = NoRepo => late = {}
  /\ rep # NoRepo =>
       /\ temp = NoDate \/ dataXml[rep] <= temp
       /\ \A k \in 1..Len(files) : dataXml[rep] <= files[k].date
       /\ \A id \in late : dataXml[rep] <= prov[rep][id].stamp

\* Inside the robot's transaction no cursor goes back, and what is behind the
\* one it found is stored as it found it.
Nightly ==
  kind = "robo" => \A r \in Repos :
    /\ saved.dataXml[r] <= dataXml[r]
    /\ \A id \in Ids : Unshared(r, id) /\ prov[r][id].stamp < saved.dataXml[r]
                         => docs[id] = saved.docs[id]

RInv == IInv /\ Onward /\ Nightly

\* What only r serves is stored no newer than r has it.
NoNewer(d) ==
  \A r \in Repos, id \in Ids :
    Unshared(r, id) /\ id \in Scope(r, {}) => d[id].ver <= prov[r][id].ver

\* The files hold ever newer versions of a record, none older than the stored
\* one and none newer than the provider's.
Newer ==
  rep # NoRepo =>
    \A k \in 1..Len(files), id \in Ids :
      files[k].recs[id] # NoRec =>
        /\ files[k].recs[id].ver <= prov[rep][id].ver
        /\ Unshared(rep, id) => docs[id].ver <= files[k].recs[id].ver
        /\ \A j \in 1..Len(files) :
             j < k /\ files[j].recs[id] # NoRec => files[j].recs[id].ver <= files[k].recs[id].ver

VInv ==
  /\ IInv
  /\ NoNewer(docs)
  /\ kind = "robo" => NoNewer(saved.docs)
  /\ Newer

\* Every provider answers in one response (and has one set, therefore).
OneResponse == \A p, q \in Pages : p.rep = q.rep => p = q

\* Nothing has slipped, and what changes under an update changes after its
\* response.
Unslipped ==
  /\ \A r \in Repos : slipped[r] = {}
  /\ rep # NoRepo => \A id \in late :
       /\ pending = {}
       /\ mem.dataXml <= prov[rep][id].stamp
       /\ temp <= prov[rep][id].stamp
       /\ \A k \in 1..Len(files) : files[k].date <= prov[rep][id].stamp

-----------------------------------------------------------------------------
(* What the steps do, in the form the proofs below use *)

\* An update begins, with a wipe or without.
LEMMA EnterStep ==
  ASSUME TypeOK, Served(docs), NEW r \in Repos, NEW m, Enter(r, m),
         m = Unset \/ m.dataXml = dataXml[r]
  PROVE  /\ rep' = r /\ rep' # NoRepo /\ files' = <<>> /\ temp' = NoDate /\ late' = {}
         /\ pending' = PagesOf(r, colecoes[r]) /\ mem' = m
         /\ \A s \in Repos : s # r => dataXml'[s] = dataXml[s]
         /\ \/ docs' = docs /\ dataXml' = dataXml
            \/ docs' = Wiped(r) /\ dataXml'[r] = NoDate
         /\ \A s \in Repos, id \in Ids : s # r /\ Unshared(s, id) => docs'[id] = docs[id]
<1>1. /\ rep' = r /\ files' = <<>> /\ temp' = NoDate /\ late' = {}
      /\ pending' = PagesOf(r, colecoes[r]) /\ mem' = m
  BY DEF Enter
<1>2. \/ m = Unset /\ docs' = Wiped(r) /\ dataXml' = [dataXml EXCEPT ![r] = m.dataXml]
      \/ docs' = docs /\ dataXml' = dataXml
  BY Zenon DEF Enter
<1>3. dataXml \in [Repos -> Nat] /\ Unset.dataXml = 0
  BY DEF TypeOK, Unset
<1>4. CASE docs' = docs /\ dataXml' = dataXml
  BY <1>1, <1>4, NoRepoAssumption
<1>5. CASE m = Unset /\ docs' = Wiped(r) /\ dataXml' = [dataXml EXCEPT ![r] = m.dataXml]
  <2>1. \A s \in Repos : dataXml'[s] = IF s = r THEN 0 ELSE dataXml[s]
    BY <1>3, <1>5
  <2> QED
    BY <1>1, <1>5, <2>1, NoRepoAssumption, WipedServed
<1> QED
  BY <1>2, <1>4, <1>5

\* A record is imported, or skipped.
LEMMA ImportStep ==
  ASSUME IInv, NEW id \in Ids, ImportRecord(id)
  PROVE  /\ rep \in Repos /\ rep # NoRepo /\ 1 \in 1..Len(files) /\ pending = {}
         /\ files[1].recs[id] # NoRec /\ id \in Scope(rep, {})
         /\ mem.dataXml \in Nat /\ mem.dataXml <= prov[rep][id].stamp
         /\ UNCHANGED <<prov, now, changes, colecoes, kind, saved, rep, mem, pending, temp, late,
                        slipped>>
         /\ Len(files') = Len(files)
         /\ \A k \in 1..Len(files) :
              /\ files'[k].date = files[k].date
              /\ \A i \in Ids : files'[k].recs[i] = IF k = 1 /\ i = id THEN NoRec
                                                    ELSE files[k].recs[i]
         /\ \/ docs' = docs /\ dataXml' = dataXml
            \/ /\ docs' = [docs EXCEPT ![id] = Save(docs[id], rep, files[1].recs[id])]
               /\ dataXml' = [dataXml EXCEPT ![rep] = mem.dataXml]
         /\ \A i \in Ids : i # id => docs'[i] = docs[i]
         /\ \A s \in Repos : s # rep => dataXml'[s] = dataXml[s]
         /\ dataXml'[rep] \in {dataXml[rep], mem.dataXml}
<1>1. TypeOK /\ files \in Seq(File) /\ files # <<>> /\ rep \in Repos /\ rep # NoRepo
  BY DEF ImportRecord, IInv, TypeOK
<1>2. /\ Head(files) = files[1] /\ 1 \in 1..Len(files) /\ files[1] \in File
      /\ Len(files) \in Nat
  BY <1>1
<1>3. files[1].recs[id] # NoRec
  BY <1>2 DEF ImportRecord
<1>4. /\ Len(files') = Len(files)
      /\ \A k \in 1..Len(files) :
           /\ files'[k].date = files[k].date
           /\ \A i \in Ids : files'[k].recs[i] = IF k = 1 /\ i = id THEN NoRec
                                                 ELSE files[k].recs[i]
  <2>1. files' = [files EXCEPT ![1].recs[id] = NoRec]
    BY DEF ImportRecord
  <2> QED
    BY <1>1, <1>2, <2>1 DEF File
<1>5. \/ docs' = docs /\ dataXml' = dataXml
      \/ /\ docs' = [docs EXCEPT ![id] = Save(docs[id], rep, files[1].recs[id])]
         /\ dataXml' = [dataXml EXCEPT ![rep] = mem.dataXml]
  <2>1. \/ docs' = docs /\ dataXml' = dataXml
        \/ /\ docs' = [docs EXCEPT ![id] = Save(docs[id], rep, Head(files).recs[id])]
           /\ dataXml' = [dataXml EXCEPT ![rep] = mem.dataXml]
    BY Zenon DEF ImportRecord
  <2> QED
    BY <1>2, <2>1
<1>6. mem.dataXml \in Nat /\ files[1].recs[id].stamp \in Nat /\ prov[rep][id].stamp \in Nat
  BY <1>1, <1>2, FileTypes, RecordTypes DEF TypeOK
<1>7. /\ id \in Scope(rep, {}) /\ mem.dataXml <= files[1].recs[id].stamp
      /\ files[1].recs[id].stamp <= prov[rep][id].stamp
  BY <1>1, <1>2, <1>3 DEF IInv, Harvested
<1>8. docs \in [Ids -> Doc] /\ dataXml \in [Repos -> Nat]
  BY <1>1 DEF TypeOK
<1>9. /\ \A i \in Ids : i # id => docs'[i] = docs[i]
      /\ \A s \in Repos : s # rep => dataXml'[s] = dataXml[s]
      /\ dataXml'[rep] \in {dataXml[rep], mem.dataXml}
  BY <1>1, <1>5, <1>8
<1>10. /\ UNCHANGED <<prov, now, changes, colecoes, kind, saved, rep, mem, pending, temp, late,
                      slipped>>
       /\ pending = {}
  BY DEF ImportRecord
<1>11. mem.dataXml <= prov[rep][id].stamp
  BY <1>6, <1>7
<1> QED
  BY <1>1, <1>2, <1>3, <1>4, <1>5, <1>6, <1>7, <1>9, <1>10, <1>11

\* A response is added to the files.
LEMMA FetchStep ==
  ASSUME IInv, NEW p \in Pages, Fetch(p)
  PROVE  /\ rep \in Repos /\ p.rep = rep /\ p \in pending /\ now \in Nat
         /\ UNCHANGED <<prov, now, changes, docs, colecoes, dataXml, kind, saved, rep, mem, temp,
                        late, slipped>>
         /\ pending' = pending \ {p}
         /\ Len(files') = Len(files) + 1 /\ Len(files) \in Nat
         /\ \A k \in 1..Len(files) : files'[k] = files[k]
         /\ files'[Len(files) + 1].date = now
         /\ \A id \in Ids :
              files'[Len(files) + 1].recs[id] # NoRec
                => /\ files'[Len(files) + 1].recs[id] = prov[rep][id]
                   /\ id \in p.ids
<1>1. /\ p \in pending /\ pending' = pending \ {p}
      /\ files' = Append(files, Response(p, mem.dataXml))
      /\ UNCHANGED <<prov, now, changes, docs, colecoes, dataXml, kind, saved, rep, mem, temp,
                     late, slipped>>
  BY DEF Fetch, tables
<1>2. TypeOK /\ files \in Seq(File) /\ rep \in Repos /\ now \in Nat /\ mem.dataXml \in Nat
  BY <1>1 DEF IInv, Control, TypeOK
<1>3. p.rep = rep
  BY <1>1, <1>2, NoRepoAssumption DEF IInv, Control, PagesOf
<1>4. Response(p, mem.dataXml) \in File
  BY <1>2, ResponseIsFile
<1>5. /\ Len(files') = Len(files) + 1 /\ Len(files) \in Nat
      /\ files'[Len(files) + 1] = Response(p, mem.dataXml)
      /\ \A k \in 1..Len(files) : files'[k] = files[k]
  BY <1>1, <1>2, <1>4
<1>6. /\ Response(p, mem.dataXml).date = now
      /\ \A id \in Ids :
           Response(p, mem.dataXml).recs[id] # NoRec
             => /\ Response(p, mem.dataXml).recs[id] = prov[rep][id]
                /\ id \in p.ids
  BY <1>3 DEF Response
<1> QED
  BY <1>1, <1>2, <1>3, <1>5, <1>6

\* The first file is done with.
LEMMA FinishFileStep ==
  ASSUME IInv, FinishFile
  PROVE  /\ rep \in Repos /\ rep # NoRepo /\ Len(files) \in Nat /\ 1 \in 1..Len(files)
         /\ UNCHANGED <<prov, now, changes, docs, colecoes, dataXml, kind, saved, rep, mem,
                        pending, late, slipped>>
         /\ temp' = files[1].date
         /\ Len(files') = Len(files) - 1
         /\ \A k \in 1..Len(files') : k + 1 \in 1..Len(files) /\ files'[k] = files[k + 1]
<1>1. TypeOK /\ files \in Seq(File) /\ files # <<>> /\ rep \in Repos /\ rep # NoRepo
  BY DEF FinishFile, IInv, TypeOK
<1>2. Len(files) \in Nat /\ 1 \in 1..Len(files) /\ Head(files) = files[1]
  BY <1>1
<1>3. /\ UNCHANGED <<prov, now, changes, docs, colecoes, dataXml, kind, saved, rep, mem,
                     pending, late, slipped>>
      /\ temp' = files[1].date /\ files' = Tail(files)
  BY <1>2 DEF FinishFile, tables
<1>4. /\ Len(files') = Len(files) - 1
      /\ \A k \in 1..(Len(files) - 1) : files'[k] = files[k + 1]
  BY <1>1, <1>2, <1>3
<1>5. \A k \in 1..(Len(files) - 1) : k + 1 \in 1..Len(files)
  BY <1>2
<1> QED
  BY <1>1, <1>2, <1>3, <1>4, <1>5

\* A record changes; nothing else does.
LEMMA ChangeStep ==
  ASSUME IInv, NEW r \in Repos, NEW id \in Ids, NEW st \in Statuses, Change(r, id, st)
  PROVE  /\ UNCHANGED <<now, docs, colecoes, dataXml, kind, saved, rep, mem, pending, files,
                        temp>>
         /\ changes' = changes + 1 /\ now \in Nat /\ id \in Scope(r, {})
         /\ prov'[r][id].stamp = now /\ prov'[r][id].ver = prov[r][id].ver + 1
         /\ \A s \in Repos, i \in Ids : ~(s = r /\ i = id) => prov'[s][i] = prov[s][i]
         /\ \/ late' = late
            \/ rep = r /\ late' = late \cup {id} /\ \A p \in pending : id \notin p.ids
         /\ slipped' = [slipped EXCEPT ![r] = slipped[r] \ {id}]
<1> DEFINE x == [ver |-> prov[r][id].ver + 1, stamp |-> now, st |-> st]
<1>1. /\ prov' = [prov EXCEPT ![r][id] = x] /\ prov \in [Repos -> [Ids -> Rec]] /\ now \in Nat
  BY DEF Change, IInv, TypeOK
<1>2. x.stamp = now /\ x.ver = prov[r][id].ver + 1
  OBVIOUS
<1>3. /\ UNCHANGED <<now, docs, colecoes, dataXml, kind, saved, rep, mem, pending, files, temp>>
      /\ changes' = changes + 1 /\ id \in Scope(r, {})
      /\ \/ late' = late
         \/ rep = r /\ late' = late \cup {id} /\ \A p \in pending : id \notin p.ids
      /\ slipped' = [slipped EXCEPT ![r] = slipped[r] \ {id}]
  BY DEF Change, tables
<1> HIDE DEF x
<1>4. prov'[r][id] = x
  BY <1>1
<1>5. \A s \in Repos, i \in Ids : ~(s = r /\ i = id) => prov'[s][i] = prov[s][i]
  BY <1>1
<1> QED
  BY <1>1, <1>2, <1>3, <1>4, <1>5

-----------------------------------------------------------------------------
(* Onward and Nightly hold initially and every step preserves them. *)

LEMMA OnwardStep == IInv /\ Onward /\ [Next]_vars => Onward'
<1> SUFFICES ASSUME IInv, Onward, [Next]_vars PROVE Onward'
  OBVIOUS
<1>1. ASSUME UNCHANGED <<prov, dataXml, rep, files, temp, late>> PROVE Onward'
  BY <1>1 DEF Onward
<1>2. ASSUME Leave PROVE Onward'
  BY <1>2 DEF Leave, Onward
<1>3. ASSUME NEW r \in Repos, NEW m, Enter(r, m) PROVE Onward'
  <2>1. rep' = r /\ files' = <<>> /\ temp' = NoDate /\ late' = {}
    BY <1>3 DEF Enter
  <2> QED
    BY <2>1 DEF Onward
<1>4. \A r \in Repos : dataXml[r] \in Nat /\ dataXml[r] <= now
  BY DEF IInv, Past, TypeOK
<1>5. CASE Tick
  BY <1>1, <1>5 DEF Tick, tables, update
<1>6. ASSUME NEW r \in Repos, NEW id \in Ids, NEW st \in Statuses, Change(r, id, st)
      PROVE  Onward'
  <2>1. /\ UNCHANGED <<dataXml, rep, files, temp>>
        /\ prov'[r][id].stamp = now
        /\ \A s \in Repos, i \in Ids : ~(s = r /\ i = id) => prov'[s][i] = prov[s][i]
        /\ late' = late \/ (rep = r /\ late' = late \cup {id})
    BY <1>6, ChangeStep
  <2>2. late \in SUBSET Ids /\ rep \in Repos \cup {NoRepo}
    BY DEF IInv, TypeOK
  <2>3. rep # NoRepo => \A i \in late' : dataXml[rep] <= prov'[rep][i].stamp
    <3> SUFFICES ASSUME rep # NoRepo, NEW i \in late' PROVE dataXml[rep] <= prov'[rep][i].stamp
      OBVIOUS
    <3>1. CASE rep = r /\ i = id
      BY <1>4, <2>1, <3>1
    <3>2. CASE ~(rep = r /\ i = id)
      <4>1. i \in late
        BY <2>1, <3>2
      <4>2. prov'[rep][i] = prov[rep][i]
        BY <2>1, <2>2, <3>2, <4>1
      <4> QED
        BY <4>1, <4>2 DEF Onward
    <3> QED
      BY <3>1, <3>2
  <2>4. rep = NoRepo => late' = {}
    BY <2>1, NoRepoAssumption DEF Onward
  <2> QED
    BY <2>1, <2>3, <2>4 DEF Onward
<1>7. ASSUME NEW r \in Repos, NEW cs \in SUBSET Sets, EditRepository(r, cs) PROVE Onward'
  BY <1>1, <1>7 DEF EditRepository, update
<1>8. ASSUME NEW r \in Repos, NEW apagar \in BOOLEAN, StartOne(r, apagar) PROVE Onward'
  BY <1>3, <1>8 DEF StartOne
<1>9. CASE StartAll
  BY <1>1, <1>9 DEF StartAll, tables, update
<1>10. CASE UpdateFails
  BY <1>2, <1>10 DEF UpdateFails
<1>11. CASE Crash
  BY <1>2, <1>11 DEF Crash
<1>12. CASE StartRobo
  BY <1>1, <1>12 DEF StartRobo, tables, update
<1>13. ASSUME NEW r \in Repos, Next1(r) PROVE Onward'
  BY <1>3, <1>13 DEF Next1
<1>14. ASSUME NEW p \in Pages, Fetch(p) PROVE Onward'
  <2>1. /\ rep \in Repos
        /\ UNCHANGED <<prov, dataXml, rep, temp, late>>
        /\ Len(files') = Len(files) + 1 /\ Len(files) \in Nat
        /\ \A k \in 1..Len(files) : files'[k] = files[k]
        /\ files'[Len(files) + 1].date = now
    BY <1>14, FetchStep
  <2>2. rep # NoRepo
    BY <2>1, NoRepoAssumption
  <2>3. \A k \in 1..Len(files') : k \in 1..Len(files) \/ k = Len(files) + 1
    BY <2>1
  <2>4. \A k \in 1..Len(files') : dataXml[rep] <= files'[k].date
    BY <1>4, <2>1, <2>2, <2>3 DEF Onward
  <2> QED
    BY <2>1, <2>2, <2>4 DEF Onward
<1>15. ASSUME NEW id \in Ids, ImportRecord(id) PROVE Onward'
  <2>1. /\ rep \in Repos /\ rep # NoRepo /\ mem.dataXml \in Nat
        /\ UNCHANGED <<prov, rep, temp, late>>
        /\ Len(files') = Len(files) /\ \A k \in 1..Len(files) : files'[k].date = files[k].date
        /\ dataXml'[rep] \in {dataXml[rep], mem.dataXml}
    BY <1>15, ImportStep
  <2>2. mem.dataXml = 0 \/ mem.dataXml = dataXml[rep]
    BY <2>1 DEF IInv, Entity
  <2>3. dataXml'[rep] = 0 \/ dataXml'[rep] = dataXml[rep]
    BY <2>1, <2>2
  <2>4. TypeOK /\ temp \in Nat /\ late \in SUBSET Ids
    BY DEF IInv, TypeOK
  <2>5. CASE dataXml'[rep] = dataXml[rep]
    BY <2>1, <2>5 DEF Onward
  <2>6. CASE dataXml'[rep] = 0
    <3>1. \A k \in 1..Len(files) : files[k].date \in Nat
      BY <2>4, FileTypes
    <3>2. \A i \in late : prov[rep][i].stamp \in Nat
      BY <2>1, <2>4, RecordTypes
    <3> QED
      BY <2>1, <2>4, <2>6, <3>1, <3>2 DEF Onward
  <2> QED
    BY <2>3, <2>5, <2>6
<1>16. CASE FinishFile
  <2>1. /\ rep # NoRepo /\ 1 \in 1..Len(files)
        /\ UNCHANGED <<prov, dataXml, rep, late>>
        /\ temp' = files[1].date
        /\ \A k \in 1..Len(files') : k + 1 \in 1..Len(files) /\ files'[k] = files[k + 1]
    BY <1>16, FinishFileStep
  <2> QED
    BY <2>1 DEF Onward
<1>17. CASE FinishRepository
  BY <1>2, <1>17 DEF FinishRepository
<1>18. CASE EndRun
  BY <1>18 DEF EndRun, update, Onward
<1>19. CASE UNCHANGED vars
  BY <1>1, <1>19 DEF vars
<1> QED
  BY <1>5, <1>6, <1>7, <1>8, <1>9, <1>10, <1>11, <1>12, <1>13, <1>14, <1>15, <1>16, <1>17,
     <1>18, <1>19 DEF Next, Environment, Work

LEMMA NightlyStep == IInv /\ Onward /\ Nightly /\ [Next]_vars => Nightly'
<1> SUFFICES ASSUME IInv, Onward, Nightly, [Next]_vars PROVE Nightly'
  OBVIOUS
<1>1. ASSUME UNCHANGED <<prov, docs, dataXml, saved>>, kind' = "robo" => kind = "robo"
      PROVE  Nightly'
  BY <1>1 DEF Nightly, Unshared
<1>2. ASSUME kind' # "robo" PROVE Nightly'
  BY <1>2 DEF Nightly
<1>3. CASE Tick
  BY <1>1, <1>3 DEF Tick, tables
<1>4. ASSUME NEW r \in Repos, NEW id \in Ids, NEW st \in Statuses, Change(r, id, st)
      PROVE  Nightly'
  <2>1. /\ UNCHANGED <<docs, dataXml, kind, saved>>
        /\ prov'[r][id].stamp = now /\ now \in Nat
        /\ \A s \in Repos, i \in Ids : ~(s = r /\ i = id) => prov'[s][i] = prov[s][i]
    BY <1>4, ChangeStep
  <2>2. saved.dataXml[r] <= now /\ saved.dataXml[r] \in Nat
    BY DEF IInv, Past, TypeOK
  <2>3. ASSUME kind = "robo", NEW s \in Repos, NEW i \in Ids, Unshared(s, i),
               prov'[s][i].stamp < saved.dataXml[s]
        PROVE  docs[i] = saved.docs[i]
    <3>1. ~(s = r /\ i = id)
      BY <2>1, <2>2, <2>3
    <3> QED
      BY <2>1, <2>3, <3>1 DEF Nightly
  <2> QED
    BY <2>1, <2>3 DEF Nightly, Unshared
<1>5. ASSUME NEW r \in Repos, NEW cs \in SUBSET Sets, EditRepository(r, cs) PROVE Nightly'
  BY <1>2, <1>5 DEF EditRepository
<1>6. ASSUME NEW r \in Repos, NEW apagar \in BOOLEAN, StartOne(r, apagar) PROVE Nightly'
  BY <1>2, <1>6 DEF StartOne
<1>7. CASE StartAll
  BY <1>2, <1>7 DEF StartAll
<1>8. CASE UpdateFails
  BY <1>1, <1>8 DEF UpdateFails, tables
<1>9. CASE Crash
  BY <1>2, <1>9 DEF Crash
<1>10. CASE StartRobo
  <2>1. UNCHANGED <<docs, dataXml>> /\ saved'.docs = docs /\ saved'.dataXml = dataXml
    BY <1>10 DEF StartRobo, tables
  <2>2. \A r \in Repos : dataXml[r] \in Nat
    BY DEF IInv, TypeOK
  <2> QED
    BY <2>1, <2>2 DEF Nightly
<1>11. ASSUME NEW r \in Repos, Next1(r) PROVE Nightly'
  <2> DEFINE m == [ultima |-> ultima[r], dataXml |-> dataXml[r]]
  <2>1. Enter(r, m) /\ UNCHANGED <<prov, kind, saved>> /\ r \in todo
    BY <1>11 DEF Next1
  <2>2. m.dataXml = dataXml[r] /\ TypeOK /\ Served(docs)
    BY DEF IInv
  <2> HIDE DEF m
  <2>3. /\ \A s \in Repos : s # r => dataXml'[s] = dataXml[s]
        /\ \/ docs' = docs /\ dataXml' = dataXml
           \/ m = Unset /\ dataXml'[r] = NoDate
        /\ \A s \in Repos, id \in Ids : s # r /\ Unshared(s, id) => docs'[id] = docs[id]
    <3>1. \/ docs' = docs /\ dataXml' = dataXml
          \/ m = Unset
      BY <2>1, Zenon DEF Enter
    <3> QED
      BY <2>1, <2>2, <3>1, EnterStep
  <2> SUFFICES ASSUME kind = "robo", NEW s \in Repos
               PROVE  /\ saved.dataXml[s] <= dataXml'[s]
                      /\ \A id \in Ids : Unshared(s, id) /\ prov[s][id].stamp < saved.dataXml[s]
                                           => docs'[id] = saved.docs[id]
    BY <2>1 DEF Nightly, Unshared
  <2>4. CASE docs' = docs /\ dataXml' = dataXml
    BY <2>4 DEF Nightly
  <2>5. CASE s # r
    BY <2>3, <2>5 DEF Nightly
  <2>6. CASE s = r /\ m = Unset /\ dataXml'[r] = NoDate
    <3>1. saved.dataXml[r] = 0
      BY <2>1, <2>2, <2>6 DEF IInv, Entity, Unset
    <3>2. \A id \in Ids : prov[r][id].stamp \in Nat
      BY <2>2, RecordTypes
    <3> QED
      BY <2>6, <3>1, <3>2
  <2> QED
    BY <2>3, <2>4, <2>5, <2>6
<1>12. ASSUME NEW p \in Pages, Fetch(p) PROVE Nightly'
  BY <1>1, <1>12 DEF Fetch, tables
<1>13. ASSUME NEW id \in Ids, ImportRecord(id) PROVE Nightly'
  <2>1. /\ rep \in Repos /\ rep # NoRepo /\ id \in Scope(rep, {})
        /\ mem.dataXml \in Nat /\ mem.dataXml <= prov[rep][id].stamp
        /\ UNCHANGED <<prov, kind, saved>>
        /\ \A i \in Ids : i # id => docs'[i] = docs[i]
        /\ \A s \in Repos : s # rep => dataXml'[s] = dataXml[s]
        /\ dataXml'[rep] \in {dataXml[rep], mem.dataXml}
    BY <1>13, ImportStep
  <2>2. prov[rep][id].stamp \in Nat
    BY <2>1, RecordTypes DEF IInv
  <2> SUFFICES ASSUME kind = "robo", NEW s \in Repos
               PROVE  /\ saved.dataXml[s] <= dataXml'[s]
                      /\ \A i \in Ids : Unshared(s, i) /\ prov[s][i].stamp < saved.dataXml[s]
                                           => docs'[i] = saved.docs[i]
    BY <2>1 DEF Nightly, Unshared
  <2>3. mem.dataXml = saved.dataXml[rep]
    BY <2>1 DEF IInv, Entity
  <2>4. saved.dataXml[s] <= dataXml'[s]
    BY <2>1, <2>3 DEF Nightly
  <2>5. ASSUME NEW i \in Ids, Unshared(s, i), prov[s][i].stamp < saved.dataXml[s]
        PROVE  docs'[i] = saved.docs[i]
    <3>1. CASE i # id
      BY <2>1, <2>5, <3>1 DEF Nightly
    <3>2. CASE i = id
      <4>1. s = rep
        BY <2>1, <2>5, <3>2, UnsharedIsOwn
      <4> QED
        BY <2>1, <2>2, <2>3, <2>5, <3>2, <4>1
    <3> QED
      BY <3>1, <3>2
  <2> QED
    BY <2>4, <2>5
<1>14. CASE FinishFile
  BY <1>1, <1>14 DEF FinishFile, tables
<1>15. CASE FinishRepository
  <2>1. /\ UNCHANGED <<prov, docs, saved>> /\ rep # NoRepo
        /\ dataXml' = [dataXml EXCEPT ![rep] = Cursor]
        /\ kind' = "robo" => kind = "robo"
    BY <1>15 DEF FinishRepository
  <2>2. rep \in Repos /\ dataXml \in [Repos -> Nat]
    BY <2>1 DEF IInv, TypeOK
  <2> SUFFICES ASSUME kind = "robo", NEW s \in Repos
               PROVE  saved.dataXml[s] <= dataXml'[s]
    BY <2>1 DEF Nightly, Unshared
  <2>3. CASE s # rep
    BY <2>1, <2>2, <2>3 DEF Nightly
  <2>4. CASE s = rep
    <3>1. dataXml'[rep] = Cursor
      BY <2>1, <2>2
    <3>2. mem.dataXml = saved.dataXml[rep] /\ saved.dataXml[rep] \in Nat /\ dataXml[rep] \in Nat
      BY <2>1, <2>2 DEF IInv, Entity, TypeOK
    <3>3. temp # 0 => dataXml[rep] <= temp
      BY <2>1 DEF Onward
    <3>4. saved.dataXml[rep] <= dataXml[rep] /\ temp \in Nat
      BY <2>2 DEF Nightly, IInv, TypeOK
    <3> QED
      BY <2>4, <3>1, <3>2, <3>3, <3>4 DEF Cursor
  <2> QED
    BY <2>3, <2>4
<1>16. CASE EndRun
  BY <1>2, <1>16 DEF EndRun
<1>17. CASE UNCHANGED vars
  BY <1>1, <1>17 DEF vars
<1> QED
  BY <1>3, <1>4, <1>5, <1>6, <1>7, <1>8, <1>9, <1>10, <1>11, <1>12, <1>13, <1>14, <1>15, <1>16,
     <1>17 DEF Next, Environment, Work

LEMMA RInvCorrect == Spec => []RInv
<1>1. Init => RInv
  BY InvInit DEF Init, RInv, Onward, Nightly
<1>2. RInv /\ [Next]_vars => RInv'
  BY InvStep, OnwardStep, NightlyStep DEF RInv
<1> QED
  BY <1>1, <1>2, PTL DEF Spec

-----------------------------------------------------------------------------
(* The harvest implements module Mirror. *)

LEMMA StatusTypes ==
  \A r \in Repos, id \in Ids :
    Status(r, id) \in Outside!Standing /\ Status(r, id)' \in Outside!Standing
BY DEF Status, Outside!Standing

\* The standing of a record is a matter of the tables and of its provider.
LEMMA StatusSame ==
  ASSUME UNCHANGED <<prov, docs, colecoes, dataXml>>
  PROVE  \A r \in Repos, id \in Ids : Status(r, id)' = Status(r, id)
BY DEF Status, Wanted

\* A step that changes neither is a stuttering step of Mirror.
LEMMA Stutter ==
  ASSUME UNCHANGED <<prov, docs, colecoes, dataXml, rep, late, changes>>
  PROVE  UNCHANGED Outside!vars
BY StatusSame DEF Outside!vars

LEMMA AskingAgain ==
  ASSUME NEW rs,
         \A r \in Repos, id \in Ids :
           \/ Status(r, id)' = Status(r, id)
           \/ r \in rs /\ Status(r, id) # "out" /\ Status(r, id)' \in {"due", "fresh"}
  PROVE  Outside!AskAgain(rs)
BY StatusTypes DEF Outside!AskAgain

LEMMA ImplementsInit == Init => Outside!Init
<1> SUFFICES ASSUME Init PROVE Outside!Init
  OBVIOUS
<1>1. \A r \in Repos, id \in Ids : prov[r][id].st = "absent"
  BY DEF Init, NoRec
<1>2. \A r \in Repos, id \in Ids : Status(r, id) = "out"
  BY <1>1 DEF Status, Wanted
<1>3. rep = NoRepo /\ late = {} /\ changes = 0
  BY DEF Init
<1> QED
  BY <1>2, <1>3 DEF Outside!Init

\* A record that changes has a date no cursor has passed.
LEMMA ChangeImplements ==
  ASSUME RInv, NEW r \in Repos, NEW id \in Ids, NEW st \in Statuses, Change(r, id, st)
  PROVE  Outside!Change(r, id)
<1>1. /\ UNCHANGED <<docs, colecoes, dataXml, rep>> /\ changes' = changes + 1 /\ now \in Nat
      /\ prov'[r][id].stamp = now
      /\ \A s \in Repos, i \in Ids : ~(s = r /\ i = id) => prov'[s][i] = prov[s][i]
      /\ late' = late \/ (rep = r /\ late' = late \cup {id})
  BY ChangeStep DEF RInv
<1>2. \A s \in Repos, i \in Ids : ~(s = r /\ i = id) => Status(s, i)' = Status(s, i)
  BY <1>1 DEF Status, Wanted
<1>3. dataXml[r] \in Nat /\ dataXml[r] <= now
  BY DEF RInv, IInv, TypeOK, Past
<1>4. Status(r, id)' \in {"out", "due", "fresh"}
  BY <1>1, <1>3 DEF Status
<1> DEFINE T == [s \in Repos |-> [i \in Ids |-> Status(s, i)]]
<1>5. T' = [T EXCEPT ![r][id] = Status(r, id)']
  BY <1>2
<1>6. late' \in {late, late \cup (IF r = rep THEN {id} ELSE {})}
  BY <1>1
<1> QED
  BY <1>1, <1>4, <1>5, <1>6 DEF Outside!Change

LEMMA EditImplements ==
  ASSUME RInv, NEW r \in Repos, NEW cs \in SUBSET Sets, EditRepository(r, cs)
  PROVE  Outside!Edit(r)
<1>1. /\ UNCHANGED <<prov, docs, dataXml, rep, late, changes>> /\ rep = NoRepo
      /\ colecoes' = [colecoes EXCEPT ![r] = cs]
  BY DEF EditRepository, update, RInv, IInv, Control
<1>2. \A s \in Repos : s # r => colecoes'[s] = colecoes[s]
  BY <1>1 DEF RInv, IInv, TypeOK
<1>3. \A s \in Repos, i \in Ids :
        Status(s, i)' # Status(s, i) => s = r /\ "out" \in {Status(s, i), Status(s, i)'}
  BY <1>1, <1>2 DEF Status, Wanted
<1> QED
  BY <1>1, <1>3, StatusTypes DEF Outside!Edit

\* A wipe makes the records of its repository due, and those of no other.
LEMMA EnterImplements ==
  ASSUME RInv, NEW r \in Repos, NEW m, Enter(r, m), m = Unset \/ m.dataXml = dataXml[r],
         rep = NoRepo, UNCHANGED <<prov, colecoes, changes>>
  PROVE  Outside!Begin(r)
<1>1. /\ rep' = r /\ late' = {}
      /\ \A s \in Repos : s # r => dataXml'[s] = dataXml[s]
      /\ \/ docs' = docs /\ dataXml' = dataXml
         \/ docs' = Wiped(r) /\ dataXml'[r] = NoDate
      /\ \A s \in Repos, id \in Ids : s # r /\ Unshared(s, id) => docs'[id] = docs[id]
  BY EnterStep DEF RInv, IInv
<1>2. \A s \in Repos, id \in Ids :
        \/ Status(s, id)' = Status(s, id)
        \/ s \in {r} /\ Status(s, id) # "out" /\ Status(s, id)' \in {"due", "fresh"}
  <2> SUFFICES ASSUME NEW s \in Repos, NEW id \in Ids
               PROVE  \/ Status(s, id)' = Status(s, id)
                      \/ s = r /\ Status(s, id) # "out" /\ Status(s, id)' \in {"due", "fresh"}
    OBVIOUS
  <2>1. CASE docs' = docs /\ dataXml' = dataXml
    BY <2>1, StatusSame
  <2>2. Wanted(s, id)' <=> Wanted(s, id)
    BY DEF Wanted
  <2>3. CASE ~Wanted(s, id)
    BY <2>2, <2>3 DEF Status
  <2>4. CASE s # r /\ Wanted(s, id)
    <3>1. docs'[id] = docs[id] /\ dataXml'[s] = dataXml[s]
      BY <1>1, <2>4 DEF Wanted
    <3> QED
      BY <2>2, <3>1 DEF Status
  <2>5. CASE s = r /\ Wanted(s, id) /\ dataXml'[r] = NoDate
    <3>1. prov[r][id].stamp \in Nat
      BY RecordTypes DEF RInv, IInv
    <3>2. prov'[r][id].stamp >= dataXml'[r]
      BY <2>5, <3>1
    <3> QED
      BY <2>2, <2>5, <3>2 DEF Status
  <2> QED
    BY <1>1, <2>1, <2>3, <2>4, <2>5
<1>3. Outside!AskAgain({r})
  BY <1>2, AskingAgain
<1> QED
  BY <1>1, <1>3 DEF Outside!Begin

\* An import leaves the records of the other repositories alone, and those of
\* its own fresh or due.
LEMMA ImportImplements ==
  ASSUME RInv, NEW id \in Ids, ImportRecord(id)
  PROVE  Outside!Import(id)
<1>1. /\ rep \in Repos /\ rep # NoRepo /\ id \in Scope(rep, {})
      /\ mem.dataXml \in Nat /\ mem.dataXml <= prov[rep][id].stamp
      /\ UNCHANGED <<prov, changes, colecoes, rep, late>>
      /\ \/ docs' = docs /\ dataXml' = dataXml
         \/ dataXml' = [dataXml EXCEPT ![rep] = mem.dataXml]
      /\ \A i \in Ids : i # id => docs'[i] = docs[i]
      /\ \A s \in Repos : s # rep => dataXml'[s] = dataXml[s]
      /\ dataXml'[rep] \in {dataXml[rep], mem.dataXml}
  BY ImportStep DEF RInv
<1>2. TypeOK /\ dataXml \in [Repos -> Nat] /\ (mem.dataXml = 0 \/ mem.dataXml = dataXml[rep])
  BY <1>1 DEF RInv, IInv, Entity, TypeOK
<1>3. dataXml'[rep] = 0 \/ dataXml'[rep] = dataXml[rep]
  BY <1>1, <1>2
<1>4. \A s \in Repos, i \in Ids :
        Status(s, i)' # Status(s, i) =>
          /\ s = rep
          /\ \/ Status(s, i) = "lost" /\ Status(s, i)' = "due"
             \/ i = id /\ Status(s, i) # "out" /\ Status(s, i)' \in {"fresh", "due"}
  <2> SUFFICES ASSUME NEW s \in Repos, NEW i \in Ids, Status(s, i)' # Status(s, i)
               PROVE  /\ s = rep
                      /\ \/ Status(s, i) = "lost" /\ Status(s, i)' = "due"
                         \/ i = id /\ Status(s, i) # "out" /\ Status(s, i)' \in {"fresh", "due"}
    OBVIOUS
  <2>1. Wanted(s, i)' <=> Wanted(s, i)
    BY <1>1 DEF Wanted
  <2>2. Wanted(s, i)
    BY <2>1 DEF Status
  <2>3. dataXml' = [dataXml EXCEPT ![rep] = mem.dataXml]
    BY <1>1, StatusSame
  <2>4. s = rep
    <3> SUFFICES ASSUME s # rep PROVE FALSE
      OBVIOUS
    <3>1. dataXml'[s] = dataXml[s]
      BY <1>1
    <3>2. i # id
      BY <1>1, <2>2, UnsharedIsOwn DEF Wanted
    <3>3. docs'[i] = docs[i]
      BY <1>1, <3>2
    <3> QED
      BY <1>1, <2>1, <3>1, <3>3 DEF Status
  <2>5. prov[s][i].stamp \in Nat
    BY <1>2, RecordTypes
  <2>6. CASE i # id
    <3>1. docs'[i] = docs[i]
      BY <1>1, <2>6
    <3>2. dataXml'[rep] = 0
      BY <1>1, <1>3, <2>1, <2>4, <3>1 DEF Status
    <3> QED
      BY <1>1, <2>1, <2>2, <2>4, <2>5, <3>1, <3>2 DEF Status
  <2>7. CASE i = id
    <3>1. dataXml'[rep] = mem.dataXml
      BY <1>1, <1>2, <2>3
    <3>2. prov'[s][i].stamp >= dataXml'[s]
      BY <1>1, <2>4, <2>5, <2>7, <3>1
    <3> QED
      BY <2>1, <2>2, <2>4, <2>7, <3>2 DEF Status
  <2> QED
    BY <2>6, <2>7
<1> QED
  BY <1>1, <1>4, StatusTypes DEF Outside!Import

\* An update that ends well loses no record but one that was due and late: what
\* else was asked for is mirrored, and what was behind the cursor stays there.
LEMMA FinishImplements ==
  ASSUME RInv, FinishRepository
  PROVE  Outside!Finish
<1>1. /\ rep # NoRepo /\ pending = {} /\ files = <<>>
      /\ UNCHANGED <<prov, docs, colecoes, changes>>
      /\ dataXml' = [dataXml EXCEPT ![rep] = Cursor]
      /\ rep' = NoRepo /\ late' = {}
  BY DEF FinishRepository, Leave
<1>2. TypeOK /\ rep \in Repos /\ dataXml \in [Repos -> Nat] /\ mem.dataXml \in Nat /\ temp \in Nat
  BY <1>1 DEF RInv, IInv, TypeOK
<1>3. /\ mem.dataXml = 0 \/ mem.dataXml = dataXml[rep]
      /\ temp = 0 \/ dataXml[rep] <= temp
      /\ \A id \in late : dataXml[rep] <= prov[rep][id].stamp
  BY <1>1 DEF RInv, IInv, Entity, Onward
<1> PICK r \in Repos : r = rep
  BY <1>2
<1>4. \A s \in Repos, id \in Ids : Wanted(s, id)' <=> Wanted(s, id)
  BY <1>1 DEF Wanted
<1>5. \A s \in Repos, id \in Ids : s # r => Status(s, id)' = Status(s, id)
  <2>1. \A s \in Repos : s # r => dataXml'[s] = dataXml[s]
    BY <1>1, <1>2
  <2> QED
    BY <1>1, <1>4, <2>1 DEF Status
<1>6. dataXml'[r] = Cursor /\ Cursor \in Nat
  BY <1>1, <1>2 DEF Cursor
<1>7. ASSUME NEW id \in Ids, Wanted(rep, id), id \notin late, mem.dataXml <= prov[rep][id].stamp
      PROVE  Mirrors(docs[id], prov[rep][id])
  <2>1. Asked(id) /\ Len(files) = 0
    BY <1>1, <1>7 DEF Asked
  <2> QED
    BY <1>1, <2>1 DEF RInv, IInv, Underway
<1>8. ASSUME NEW id \in Ids, Status(r, id)' # Status(r, id)
      PROVE  id \in late /\ Status(r, id) = "due" /\ Status(r, id)' = "lost"
  <2>1. prov[r][id].stamp \in Nat /\ dataXml[r] \in Nat
    BY <1>2, RecordTypes
  <2>2. Wanted(r, id) /\ ~Mirrors(docs[id], prov[r][id])
    BY <1>1, <1>4, <1>8 DEF Status
  <2>3. /\ Status(r, id) = IF prov[r][id].stamp >= dataXml[r] THEN "due" ELSE "lost"
        /\ Status(r, id)' = IF prov[r][id].stamp >= Cursor THEN "due" ELSE "lost"
    BY <1>1, <1>2, <1>4, <1>6, <2>2 DEF Status
  <2>4. CASE id \in late
    <3>1. Status(r, id) = "due"
      BY <1>3, <2>1, <2>3, <2>4
    <3> QED
      BY <1>8, <2>3, <2>4, <3>1
  <2>5. CASE id \notin late
    <3>1. prov[r][id].stamp < mem.dataXml
      BY <1>2, <1>7, <2>1, <2>2, <2>5
    <3>2. mem.dataXml = dataXml[r]
      BY <1>3, <2>1, <3>1
    <3>3. dataXml[r] <= Cursor
      BY <1>2, <1>3, <2>1, <3>2 DEF Cursor
    <3> QED
      BY <1>6, <1>8, <2>1, <2>3, <3>1, <3>2, <3>3
  <2> QED
    BY <2>4, <2>5
<1> DEFINE T == [s \in Repos |-> [id \in Ids |-> Status(s, id)]]
           lost == {id \in late : Status(r, id)' # Status(r, id)}
<1>9. late \subseteq Ids
  BY <1>2 DEF TypeOK
<1>10. lost \in SUBSET {id \in late : T[r][id] = "due"}
  BY <1>2, <1>8, <1>9
<1>11. T' = [T EXCEPT ![r] = [id \in Ids |-> IF id \in lost THEN "lost" ELSE T[r][id]]]
  <2>1. \A id \in Ids : Status(r, id)' = IF id \in lost THEN "lost" ELSE Status(r, id)
    BY <1>8
  <2> HIDE DEF lost
  <2>2. T'[r] = [id \in Ids |-> IF id \in lost THEN "lost" ELSE T[r][id]]
    BY <1>2, <2>1
  <2>3. \A s \in Repos : s # r => T'[s] = T[s]
    BY <1>5
  <2> QED
    BY <1>2, <2>2, <2>3
<1>12. \E l \in SUBSET {id \in late : T[rep][id] = "due"} :
         T' = [T EXCEPT ![rep] = [id \in Ids |-> IF id \in l THEN "lost" ELSE T[rep][id]]]
  <2> HIDE DEF T, lost
  <2> QED
    BY <1>10, <1>11
<1> QED
  BY <1>1, <1>12, Zenon DEF Outside!Finish

\* A rollback puts back tables under which no record is lost that was not.
LEMMA RollbackAsksAgain ==
  ASSUME RInv, kind = "robo", UNCHANGED <<prov, colecoes>>,
         docs' = saved.docs, dataXml' = saved.dataXml
  PROVE  Outside!AskAgain(Repos)
<1> SUFFICES ASSUME NEW r \in Repos, NEW id \in Ids
             PROVE  \/ Status(r, id)' = Status(r, id)
                    \/ Status(r, id) # "out" /\ Status(r, id)' \in {"due", "fresh"}
  BY AskingAgain
<1>1. Wanted(r, id)' <=> Wanted(r, id)
  BY DEF Wanted
<1>2. CASE ~Wanted(r, id)
  BY <1>1, <1>2 DEF Status
<1>3. CASE Wanted(r, id) /\ prov[r][id].stamp >= saved.dataXml[r]
  BY <1>1, <1>3 DEF Status
<1>4. CASE Wanted(r, id) /\ ~(prov[r][id].stamp >= saved.dataXml[r])
  <2>1. prov[r][id].stamp \in Nat /\ saved.dataXml[r] \in Nat /\ dataXml[r] \in Nat
    BY RecordTypes DEF RInv, IInv, TypeOK
  <2>2. prov[r][id].stamp < saved.dataXml[r]
    BY <1>4, <2>1
  <2>3. docs'[id] = docs[id]
    BY <1>4, <2>2 DEF RInv, Nightly, Wanted
  <2>4. saved.dataXml[r] <= dataXml[r]
    BY DEF RInv, Nightly
  <2>5. ~(prov[r][id].stamp >= dataXml[r])
    BY <2>1, <2>2, <2>4
  <2> QED
    BY <1>1, <1>4, <2>3, <2>5 DEF Status
<1> QED
  BY <1>2, <1>3, <1>4

LEMMA ImplementsStep == RInv /\ [Next]_vars => [Outside!Next]_Outside!vars
<1> SUFFICES ASSUME RInv, [Next]_vars PROVE Outside!Next \/ UNCHANGED Outside!vars
  BY DEF Outside!vars
<1>1. CASE Tick
  BY <1>1, Stutter DEF Tick, tables, update
<1>2. ASSUME NEW r \in Repos, NEW id \in Ids, NEW st \in Statuses, Change(r, id, st)
      PROVE  Outside!Next
  BY <1>2, ChangeImplements DEF Outside!Next
<1>3. ASSUME NEW r \in Repos, NEW cs \in SUBSET Sets, EditRepository(r, cs) PROVE Outside!Next
  BY <1>3, EditImplements DEF Outside!Next
<1>4. ASSUME NEW r \in Repos, NEW apagar \in BOOLEAN, StartOne(r, apagar) PROVE Outside!Next
  <2> DEFINE m == IF apagar THEN Unset ELSE [ultima |-> ultima[r], dataXml |-> dataXml[r]]
  <2>1. Enter(r, m) /\ kind = "idle" /\ UNCHANGED <<prov, colecoes, changes>>
    BY <1>4 DEF StartOne
  <2>2. m = Unset \/ m.dataXml = dataXml[r]
    OBVIOUS
  <2>3. rep = NoRepo
    BY <2>1 DEF RInv, IInv, Control
  <2> HIDE DEF m
  <2> QED
    BY <2>1, <2>2, <2>3, EnterImplements DEF Outside!Next
<1>5. CASE StartAll
  BY <1>5, Stutter DEF StartAll, tables, update
<1>6. CASE UpdateFails
  <2>1. UNCHANGED <<prov, docs, colecoes, dataXml, changes>> /\ rep' = NoRepo /\ late' = {}
    BY <1>6 DEF UpdateFails, tables, Leave
  <2>2. Outside!AskAgain(Repos)
    BY <2>1, StatusSame, AskingAgain
  <2> QED
    BY <2>1, <2>2 DEF Outside!Next, Outside!GiveUp
<1>7. CASE Crash
  <2>1. UNCHANGED <<prov, colecoes, changes>> /\ rep' = NoRepo /\ late' = {}
    BY <1>7 DEF Crash, Leave
  <2>2. \/ kind = "robo" /\ docs' = saved.docs /\ dataXml' = saved.dataXml
        \/ UNCHANGED <<docs, dataXml>>
    BY <1>7 DEF Crash
  <2>3. Outside!AskAgain(Repos)
    <3>1. CASE UNCHANGED <<docs, dataXml>>
      BY <2>1, <3>1, StatusSame, AskingAgain
    <3> QED
      BY <2>1, <2>2, <3>1, RollbackAsksAgain
  <2> QED
    BY <2>1, <2>3 DEF Outside!Next, Outside!GiveUp
<1>8. CASE StartRobo
  BY <1>8, Stutter DEF StartRobo, tables, update
<1>9. ASSUME NEW r \in Repos, Next1(r) PROVE Outside!Next
  <2> DEFINE m == [ultima |-> ultima[r], dataXml |-> dataXml[r]]
  <2>1. Enter(r, m) /\ rep = NoRepo /\ UNCHANGED <<prov, colecoes, changes>>
    BY <1>9 DEF Next1
  <2>2. m.dataXml = dataXml[r]
    OBVIOUS
  <2> HIDE DEF m
  <2> QED
    BY <2>1, <2>2, EnterImplements DEF Outside!Next
<1>10. ASSUME NEW p \in Pages, Fetch(p) PROVE UNCHANGED Outside!vars
  BY <1>10, Stutter DEF Fetch, tables
<1>11. ASSUME NEW id \in Ids, ImportRecord(id) PROVE Outside!Next
  BY <1>11, ImportImplements DEF Outside!Next
<1>12. CASE FinishFile
  BY <1>12, Stutter DEF FinishFile, tables
<1>13. CASE FinishRepository
  BY <1>13, FinishImplements DEF Outside!Next
<1>14. CASE EndRun
  <2>1. UNCHANGED <<prov, colecoes, changes, rep, late>> /\ rep = NoRepo
    BY <1>14 DEF EndRun, update
  <2>2. CASE UNCHANGED <<docs, dataXml>>
    BY <2>1, <2>2, Stutter
  <2>3. CASE poisoned /\ docs' = saved.docs /\ dataXml' = saved.dataXml
    <3>1. kind = "robo" /\ late = {}
      BY <2>1, <2>3 DEF RInv, IInv, Control, Onward
    <3>2. Outside!AskAgain(Repos)
      BY <2>1, <2>3, <3>1, RollbackAsksAgain
    <3> QED
      BY <2>1, <3>1, <3>2 DEF Outside!Next, Outside!GiveUp
  <2> QED
    BY <1>14, <2>2, <2>3 DEF EndRun
<1>15. CASE UNCHANGED vars
  BY <1>15, Stutter DEF vars
<1> QED
  BY <1>1, <1>2, <1>3, <1>4, <1>5, <1>6, <1>7, <1>8, <1>9, <1>10, <1>11, <1>12, <1>13, <1>14,
     <1>15 DEF Next, Environment, Work

\* Seen from outside, the harvest is module Mirror, whatever fails, crashes or
\* rolls back: only an update that ends well loses a record, and only one that
\* was due and changed under it.
THEOREM HarvestImplementsMirror == Spec => ImplementsMirror
<1> QED
  BY RInvCorrect, ImplementsInit, ImplementsStep, PTL DEF Spec, ImplementsMirror, Outside!Spec

-----------------------------------------------------------------------------
(* No update puts an older content over a newer one. *)

LEMMA VersionTypes ==
  ASSUME TypeOK, NEW id \in Ids
  PROVE  /\ docs[id].ver \in Nat /\ saved.docs[id].ver \in Nat
         /\ \A r \in Repos : prov[r][id].ver \in Nat
         /\ \A k \in 1..Len(files) : files[k].recs[id].ver \in Nat
<1>1. docs[id] \in Doc /\ saved.docs[id] \in Doc
  BY DEF TypeOK
<1>2. \A r \in Repos : prov[r][id] \in Rec
  BY RecordTypes
<1>3. \A k \in 1..Len(files) : files[k].recs[id] \in Rec
  BY FileTypes
<1> QED
  BY <1>1, <1>2, <1>3 DEF Doc, Rec

\* The wipe leaves nothing newer than it found.
LEMMA WipedVersions ==
  ASSUME TypeOK, NEW r \in Repos, NEW id \in Ids
  PROVE  Wiped(r)[id].ver <= docs[id].ver
BY VersionTypes DEF Wiped, NoDoc

LEMMA NoNewerStep ==
  ASSUME VInv, [Next]_vars
  PROVE  (NoNewer(docs) /\ (kind = "robo" => NoNewer(saved.docs)))'
<1>1. TypeOK /\ Served(docs) /\ NoNewer(docs) /\ IInv
  BY DEF VInv, IInv
<1>2. ASSUME UNCHANGED <<prov, saved>>, kind' = "robo" => kind = "robo"
      PROVE  (kind = "robo" => NoNewer(saved.docs))'
  BY <1>2 DEF VInv, NoNewer, Unshared
<1>3. ASSUME UNCHANGED <<prov, docs>> PROVE NoNewer(docs)'
  BY <1>1, <1>3 DEF NoNewer, Unshared
<1>4. ASSUME UNCHANGED prov, NEW r \in Repos, NEW m, Enter(r, m) PROVE NoNewer(docs)'
  <2>1. docs' = Wiped(r) \/ docs' = docs
    BY <1>4, Zenon DEF Enter
  <2>2. ASSUME docs' = Wiped(r), NEW s \in Repos, NEW id \in Ids, Unshared(s, id),
               id \in Scope(s, {})
        PROVE  docs'[id].ver <= prov[s][id].ver
    <3>1. docs[id].ver <= prov[s][id].ver
      BY <1>1, <2>2 DEF NoNewer
    <3>2. Wiped(r)[id].ver \in Nat
      BY <1>1, VersionTypes DEF Wiped, NoDoc
    <3> QED
      BY <1>1, <2>2, <3>1, <3>2, WipedVersions, VersionTypes
  <2> QED
    BY <1>3, <1>4, <2>1, <2>2 DEF NoNewer, Unshared
<1>5. ASSUME UNCHANGED prov,
             UNCHANGED docs \/ (kind = "robo" /\ docs' = saved.docs)
      PROVE  NoNewer(docs)'
  BY <1>1, <1>5 DEF VInv, NoNewer, Unshared
<1>6. CASE Tick
  BY <1>2, <1>3, <1>6 DEF Tick, tables
<1>7. ASSUME NEW r \in Repos, NEW id \in Ids, NEW st \in Statuses, Change(r, id, st)
      PROVE  (NoNewer(docs) /\ (kind = "robo" => NoNewer(saved.docs)))'
  <2>1. /\ UNCHANGED <<docs, kind, saved>>
        /\ prov'[r][id].ver = prov[r][id].ver + 1
        /\ \A s \in Repos, i \in Ids : ~(s = r /\ i = id) => prov'[s][i] = prov[s][i]
    BY <1>1, <1>7, ChangeStep
  <2>2. \A s \in Repos, i \in Ids :
          /\ prov[s][i].ver \in Nat /\ docs[i].ver \in Nat /\ saved.docs[i].ver \in Nat
          /\ prov'[s][i].ver \in Nat /\ prov[s][i].ver <= prov'[s][i].ver
    BY <1>1, <2>1, VersionTypes
  <2> QED
    BY <2>1, <2>2 DEF VInv, NoNewer, Unshared
<1>8. ASSUME NEW r \in Repos, NEW cs \in SUBSET Sets, EditRepository(r, cs)
      PROVE  (NoNewer(docs) /\ (kind = "robo" => NoNewer(saved.docs)))'
  BY <1>2, <1>3, <1>8 DEF EditRepository
<1>9. ASSUME NEW r \in Repos, NEW apagar \in BOOLEAN, StartOne(r, apagar)
      PROVE  (NoNewer(docs) /\ (kind = "robo" => NoNewer(saved.docs)))'
  BY <1>2, <1>4, <1>9 DEF StartOne
<1>10. CASE StartAll
  BY <1>2, <1>3, <1>10 DEF StartAll, tables
<1>11. CASE UpdateFails
  BY <1>2, <1>3, <1>11 DEF UpdateFails, tables
<1>12. CASE Crash
  <2>1. UNCHANGED prov /\ kind' # "robo" /\ (UNCHANGED docs \/ (kind = "robo" /\ docs' = saved.docs))
    BY <1>12 DEF Crash
  <2> QED
    BY <1>5, <2>1
<1>13. CASE StartRobo
  <2>1. UNCHANGED <<prov, docs>> /\ saved'.docs = docs
    BY <1>13 DEF StartRobo, tables
  <2> QED
    BY <1>1, <1>3, <2>1 DEF NoNewer, Unshared
<1>14. ASSUME NEW r \in Repos, Next1(r)
       PROVE  (NoNewer(docs) /\ (kind = "robo" => NoNewer(saved.docs)))'
  BY <1>2, <1>4, <1>14 DEF Next1
<1>15. ASSUME NEW p \in Pages, Fetch(p)
       PROVE  (NoNewer(docs) /\ (kind = "robo" => NoNewer(saved.docs)))'
  BY <1>2, <1>3, <1>15 DEF Fetch, tables
<1>16. ASSUME NEW id \in Ids, ImportRecord(id)
       PROVE  (NoNewer(docs) /\ (kind = "robo" => NoNewer(saved.docs)))'
  <2>1. /\ rep \in Repos /\ rep # NoRepo /\ 1 \in 1..Len(files)
        /\ files[1].recs[id] # NoRec /\ id \in Scope(rep, {})
        /\ UNCHANGED <<prov, kind, saved>>
        /\ docs' = docs \/ docs' = [docs EXCEPT ![id] = Save(docs[id], rep, files[1].recs[id])]
    BY <1>1, <1>16, ImportStep
  <2>2. ASSUME NEW s \in Repos, NEW i \in Ids, Unshared(s, i), i \in Scope(s, {}),
               docs' = [docs EXCEPT ![id] = Save(docs[id], rep, files[1].recs[id])]
        PROVE  docs'[i].ver <= prov[s][i].ver
    <3>1. docs \in [Ids -> Doc]
      BY <1>1 DEF TypeOK
    <3>2. CASE i # id
      BY <1>1, <2>2, <3>1, <3>2 DEF NoNewer
    <3>3. CASE i = id
      <4>1. s = rep
        BY <2>1, <2>2, <3>3, UnsharedIsOwn
      <4>2. files[1].recs[id].ver <= prov[rep][id].ver
        BY <2>1 DEF VInv, Newer
      <4>3. docs'[id].ver = 0 \/ docs'[id].ver = files[1].recs[id].ver
        BY <2>2, <3>1 DEF Save
      <4> QED
        BY <1>1, <2>1, <3>3, <4>1, <4>2, <4>3, VersionTypes
    <3> QED
      BY <3>2, <3>3
  <2>3. NoNewer(docs)'
    BY <1>3, <2>1, <2>2 DEF NoNewer, Unshared
  <2> QED
    BY <1>2, <2>1, <2>3
<1>17. CASE FinishFile
  BY <1>2, <1>3, <1>17 DEF FinishFile, tables
<1>18. CASE FinishRepository
  BY <1>2, <1>3, <1>18 DEF FinishRepository
<1>19. CASE EndRun
  <2>1. /\ UNCHANGED prov /\ kind' # "robo" /\ (poisoned => kind = "robo")
        /\ IF poisoned THEN docs' = saved.docs ELSE UNCHANGED docs
    BY <1>1, <1>19 DEF EndRun, IInv, Control
  <2> QED
    BY <1>5, <2>1
<1>20. CASE UNCHANGED vars
  BY <1>2, <1>3, <1>20 DEF vars
<1> QED
  BY <1>6, <1>7, <1>8, <1>9, <1>10, <1>11, <1>12, <1>13, <1>14, <1>15, <1>16, <1>17, <1>18,
     <1>19, <1>20 DEF Next, Environment, Work

LEMMA NewerStep ==
  ASSUME VInv, [Next]_vars
  PROVE  Newer'
<1>1. TypeOK /\ NoNewer(docs) /\ IInv
  BY DEF VInv, IInv
<1>2. ASSUME UNCHANGED <<prov, docs, rep, files>> PROVE Newer'
  BY <1>2 DEF VInv, Newer, Unshared
<1>3. ASSUME files' = <<>> PROVE Newer'
  BY <1>3 DEF Newer
<1>4. CASE Tick
  BY <1>2, <1>4 DEF Tick, tables, update
<1>5. ASSUME NEW r \in Repos, NEW id \in Ids, NEW st \in Statuses, Change(r, id, st)
      PROVE  Newer'
  <2>1. /\ UNCHANGED <<docs, rep, files>>
        /\ prov'[r][id].ver = prov[r][id].ver + 1
        /\ \A s \in Repos, i \in Ids : ~(s = r /\ i = id) => prov'[s][i] = prov[s][i]
    BY <1>1, <1>5, ChangeStep
  <2>2. ASSUME rep # NoRepo, NEW k \in 1..Len(files), NEW i \in Ids, files[k].recs[i] # NoRec
        PROVE  files[k].recs[i].ver <= prov'[rep][i].ver
    <3>1. rep \in Repos
      BY <1>1, <2>2 DEF TypeOK
    <3>2. /\ prov[rep][i].ver \in Nat /\ files[k].recs[i].ver \in Nat /\ prov'[rep][i].ver \in Nat
          /\ prov[rep][i].ver <= prov'[rep][i].ver
      BY <1>1, <2>1, <3>1, VersionTypes
    <3>3. files[k].recs[i].ver <= prov[rep][i].ver
      BY <2>2 DEF VInv, Newer
    <3> QED
      BY <3>2, <3>3
  <2> QED
    BY <2>1, <2>2 DEF VInv, Newer, Unshared
<1>6. ASSUME NEW r \in Repos, NEW cs \in SUBSET Sets, EditRepository(r, cs) PROVE Newer'
  BY <1>2, <1>6 DEF EditRepository, update
<1>7. ASSUME NEW r \in Repos, NEW apagar \in BOOLEAN, StartOne(r, apagar) PROVE Newer'
  BY <1>3, <1>7 DEF StartOne, Enter
<1>8. CASE StartAll
  BY <1>2, <1>8 DEF StartAll, tables, update
<1>9. CASE UpdateFails
  BY <1>3, <1>9 DEF UpdateFails, Leave
<1>10. CASE Crash
  BY <1>3, <1>10 DEF Crash, Leave
<1>11. CASE StartRobo
  BY <1>2, <1>11 DEF StartRobo, tables, update
<1>12. ASSUME NEW r \in Repos, Next1(r) PROVE Newer'
  BY <1>3, <1>12 DEF Next1, Enter
<1>13. ASSUME NEW p \in Pages, Fetch(p) PROVE Newer'
  <2> DEFINE n == Len(files)
  <2>1. /\ rep \in Repos /\ p.rep = rep
        /\ UNCHANGED <<prov, docs, rep>>
        /\ Len(files') = n + 1 /\ n \in Nat
        /\ \A k \in 1..n : files'[k] = files[k]
        /\ \A id \in Ids :
             files'[n + 1].recs[id] # NoRec
               => files'[n + 1].recs[id] = prov[rep][id] /\ id \in p.ids
    BY <1>1, <1>13, FetchStep
  <2>2. rep # NoRepo
    BY <2>1, NoRepoAssumption
  <2>3. n = Len(files)
    OBVIOUS
  <2> HIDE DEF n
  <2> SUFFICES ASSUME NEW k \in 1..(n + 1), NEW id \in Ids, files'[k].recs[id] # NoRec
               PROVE  /\ files'[k].recs[id].ver <= prov[rep][id].ver
                      /\ Unshared(rep, id) => docs[id].ver <= files'[k].recs[id].ver
                      /\ \A j \in 1..(n + 1) :
                           j < k /\ files'[j].recs[id] # NoRec
                             => files'[j].recs[id].ver <= files'[k].recs[id].ver
    BY <2>1 DEF Newer, Unshared
  <2>4. \A j \in 1..n : files'[j].recs[id] # NoRec =>
          files'[j].recs[id].ver <= prov[rep][id].ver
    BY <2>1, <2>2, <2>3 DEF VInv, Newer
  <2>5. CASE k \in 1..n
    <3>1. \A j \in 1..(n + 1) : j < k => j \in 1..n
      BY <2>1, <2>5
    <3> QED
      BY <2>1, <2>2, <2>3, <2>5, <3>1 DEF VInv, Newer
  <2>6. CASE k = n + 1
    <3>1. files'[k].recs[id] = prov[rep][id] /\ id \in p.ids
      BY <2>1, <2>6
    <3>2. id \in Scope(rep, {})
      BY <2>1, <3>1 DEF Scope, PagesOf
    <3>3. Unshared(rep, id) => docs[id].ver <= prov[rep][id].ver
      BY <1>1, <2>1, <3>2 DEF NoNewer
    <3>4. \A j \in 1..(n + 1) : j < k => j \in 1..n
      BY <2>1, <2>6
    <3>5. prov[rep][id].ver \in Nat
      BY <1>1, <2>1, VersionTypes
    <3> QED
      BY <2>4, <3>1, <3>3, <3>4, <3>5
  <2> QED
    BY <2>1, <2>5, <2>6
<1>14. ASSUME NEW id \in Ids, ImportRecord(id) PROVE Newer'
  <2>1. /\ rep \in Repos /\ rep # NoRepo /\ 1 \in 1..Len(files)
        /\ files[1].recs[id] # NoRec
        /\ UNCHANGED <<prov, rep>>
        /\ Len(files') = Len(files)
        /\ \A k \in 1..Len(files), i \in Ids :
             files'[k].recs[i] = IF k = 1 /\ i = id THEN NoRec ELSE files[k].recs[i]
        /\ docs' = docs \/ docs' = [docs EXCEPT ![id] = Save(docs[id], rep, files[1].recs[id])]
        /\ \A i \in Ids : i # id => docs'[i] = docs[i]
    BY <1>1, <1>14, ImportStep
  <2> SUFFICES ASSUME NEW k \in 1..Len(files), NEW i \in Ids, files'[k].recs[i] # NoRec
               PROVE  /\ files'[k].recs[i].ver <= prov[rep][i].ver
                      /\ Unshared(rep, i) => docs'[i].ver <= files'[k].recs[i].ver
                      /\ \A j \in 1..Len(files) :
                           j < k /\ files'[j].recs[i] # NoRec
                             => files'[j].recs[i].ver <= files'[k].recs[i].ver
    BY <2>1 DEF Newer, Unshared
  <2>2. files'[k].recs[i] = files[k].recs[i] /\ ~(k = 1 /\ i = id)
    BY <2>1
  <2>3. files'[k].recs[i].ver <= prov[rep][i].ver
    BY <2>1, <2>2 DEF VInv, Newer
  <2>4. \A j \in 1..Len(files) :
          j < k /\ files'[j].recs[i] # NoRec => files'[j].recs[i].ver <= files'[k].recs[i].ver
    BY <2>1, <2>2 DEF VInv, Newer
  <2>5. ASSUME Unshared(rep, i) PROVE docs'[i].ver <= files'[k].recs[i].ver
    <3>1. docs[i].ver <= files[k].recs[i].ver
      BY <2>1, <2>2, <2>5 DEF VInv, Newer
    <3>2. CASE i # id \/ docs' = docs
      BY <2>1, <2>2, <3>1, <3>2
    <3>3. CASE i = id /\ docs' = [docs EXCEPT ![id] = Save(docs[id], rep, files[1].recs[id])]
      <4>1. docs'[id].ver = 0 \/ docs'[id].ver = files[1].recs[id].ver
        BY <1>1, <3>3 DEF Save, TypeOK
      <4>2. 1 < k
        BY <2>2, <3>3
      <4>3. files[1].recs[id].ver <= files[k].recs[id].ver
        BY <2>1, <2>2, <3>3, <4>2 DEF VInv, Newer
      <4> QED
        BY <1>1, <2>2, <3>3, <4>1, <4>3, VersionTypes
    <3> QED
      BY <2>1, <3>2, <3>3
  <2> QED
    BY <2>3, <2>4, <2>5
<1>15. CASE FinishFile
  <2>1. /\ rep # NoRepo
        /\ UNCHANGED <<prov, docs, rep>>
        /\ \A k \in 1..Len(files') : k + 1 \in 1..Len(files) /\ files'[k] = files[k + 1]
    BY <1>1, <1>15, FinishFileStep
  <2> SUFFICES ASSUME NEW k \in 1..Len(files'), NEW id \in Ids, files'[k].recs[id] # NoRec
               PROVE  /\ files'[k].recs[id].ver <= prov[rep][id].ver
                      /\ Unshared(rep, id) => docs[id].ver <= files'[k].recs[id].ver
                      /\ \A j \in 1..Len(files') :
                           j < k /\ files'[j].recs[id] # NoRec
                             => files'[j].recs[id].ver <= files'[k].recs[id].ver
    BY <2>1 DEF Newer, Unshared
  <2>2. /\ k + 1 \in 1..Len(files) /\ files[k + 1].recs[id] # NoRec
        /\ files'[k].recs[id] = files[k + 1].recs[id]
    BY <2>1
  <2>3. ASSUME NEW j \in 1..Len(files'), j < k, files'[j].recs[id] # NoRec
        PROVE  files'[j].recs[id].ver <= files'[k].recs[id].ver
    <3>1. /\ j + 1 \in 1..Len(files) /\ files[j + 1].recs[id] # NoRec /\ j + 1 < k + 1
          /\ files'[j].recs[id] = files[j + 1].recs[id]
      BY <2>1, <2>3
    <3> QED
      BY <2>1, <2>2, <3>1 DEF VInv, Newer
  <2> QED
    BY <2>1, <2>2, <2>3 DEF VInv, Newer
<1>16. CASE FinishRepository
  BY <1>3, <1>16 DEF FinishRepository, Leave
<1>17. CASE EndRun
  <2>1. UNCHANGED files /\ rep' = NoRepo
    BY <1>17 DEF EndRun, update
  <2> QED
    BY <2>1 DEF Newer
<1>18. CASE UNCHANGED vars
  BY <1>2, <1>18 DEF vars
<1> QED
  BY <1>4, <1>5, <1>6, <1>7, <1>8, <1>9, <1>10, <1>11, <1>12, <1>13, <1>14, <1>15, <1>16, <1>17,
     <1>18 DEF Next, Environment, Work

LEMMA VInvCorrect == Spec => []VInv
<1>1. Init => VInv
  <2> SUFFICES ASSUME Init PROVE VInv
    OBVIOUS
  <2>1. \A r \in Repos, id \in Ids : docs[id].ver <= prov[r][id].ver
    BY DEF Init, Blank, NoDoc, NoRec
  <2>2. rep = NoRepo /\ kind # "robo"
    BY DEF Init
  <2> QED
    BY <2>1, <2>2, InvInit DEF VInv, NoNewer, Newer
<1>2. VInv /\ [Next]_vars => VInv'
  BY InvStep, NoNewerStep, NewerStep DEF VInv
<1> QED
  BY <1>1, <1>2, PTL DEF Spec

\* Wherever the providers page and repeat their records, and however many
\* updates overlap in what they fetch, an older content never comes over a newer
\* one: the files are imported in the order of their requests, and a later
\* request asks a provider whose versions have only grown.
THEOREM HarvestNeverRegresses == Spec => NeverRegresses
<1> DEFINE Forward ==
      \/ kind = "robo" /\ kind' = "idle"
      \/ \A id \in Ids :
           (\E r \in Repos : Unshared(r, id) /\ docs[id].owner = r /\ docs'[id].owner = r)
             => docs'[id].ver = 0 \/ docs'[id].ver >= docs[id].ver
<1>1. ASSUME VInv, [Next]_vars PROVE Forward
  <2>1. TypeOK /\ IInv /\ \A id \in Ids : docs[id].ver >= docs[id].ver
    BY <1>1, VersionTypes DEF VInv, IInv
  <2>2. ASSUME UNCHANGED docs PROVE Forward
    BY <2>1, <2>2
  <2>3. ASSUME NEW r \in Repos, NEW m, Enter(r, m) PROVE Forward
    <3>1. docs' = Wiped(r) \/ docs' = docs
      BY <2>3, Zenon DEF Enter
    <3>2. docs' = Wiped(r) => \A id \in Ids : docs'[id].ver = 0 \/ docs'[id] = docs[id]
      BY DEF Wiped, NoDoc
    <3> QED
      BY <2>1, <3>1, <3>2
  <2>4. ASSUME NEW id \in Ids, ImportRecord(id) PROVE Forward
    <3>1. /\ rep \in Repos /\ rep # NoRepo /\ 1 \in 1..Len(files)
          /\ files[1].recs[id] # NoRec /\ id \in Scope(rep, {})
          /\ docs' = docs \/ docs' = [docs EXCEPT ![id] = Save(docs[id], rep, files[1].recs[id])]
          /\ \A i \in Ids : i # id => docs'[i] = docs[i]
      BY <2>1, <2>4, ImportStep
    <3>2. ASSUME NEW r \in Repos, Unshared(r, id),
                 docs' = [docs EXCEPT ![id] = Save(docs[id], rep, files[1].recs[id])]
          PROVE  docs'[id].ver = 0 \/ docs'[id].ver >= docs[id].ver
      <4>1. r = rep
        BY <3>1, <3>2, UnsharedIsOwn
      <4>2. docs[id].ver <= files[1].recs[id].ver
        BY <1>1, <3>1, <3>2, <4>1 DEF VInv, Newer
      <4>3. docs'[id].ver = 0 \/ docs'[id].ver = files[1].recs[id].ver
        BY <2>1, <3>2 DEF Save, TypeOK
      <4> QED
        BY <2>1, <3>1, <4>2, <4>3, VersionTypes
    <3> QED
      BY <2>1, <3>1, <3>2
  <2>5. CASE Crash
    <3>1. kind' = "idle" /\ (kind = "robo" \/ UNCHANGED docs)
      BY <2>5 DEF Crash
    <3> QED
      BY <2>2, <3>1
  <2>6. CASE EndRun
    <3>1. kind' = "idle" /\ (kind = "robo" \/ UNCHANGED docs)
      BY <2>1, <2>6 DEF EndRun, IInv, Control
    <3> QED
      BY <2>2, <3>1
  <2>7. \/ UNCHANGED docs
        \/ \E r \in Repos, apagar \in BOOLEAN : StartOne(r, apagar)
        \/ \E r \in Repos : Next1(r)
        \/ \E id \in Ids : ImportRecord(id)
        \/ Crash \/ EndRun
    BY <1>1 DEF Next, Environment, Work, Tick, Change, EditRepository, StartAll, UpdateFails,
       StartRobo, Fetch, FinishFile, FinishRepository, tables, vars
  <2>8. \A r \in Repos, apagar \in BOOLEAN : StartOne(r, apagar) => Forward
    BY <2>3 DEF StartOne
  <2>9. \A r \in Repos : Next1(r) => Forward
    BY <2>3 DEF Next1
  <2> HIDE DEF Forward
  <2> QED
    BY <2>2, <2>4, <2>5, <2>6, <2>7, <2>8, <2>9
<1>2. VInv /\ [Next]_vars => [Forward]_vars
  BY <1>1
<1> HIDE DEF Forward
<1>3. Spec => [][Forward]_vars
  BY <1>2, VInvCorrect, PTL DEF Spec
<1> QED
  BY <1>3 DEF NeverRegresses, Forward

-----------------------------------------------------------------------------
(* Providers that answer in one response *)

\* Such a provider has one set, so a restriction to sets restricts nothing.
LEMMA OneResponseScope ==
  ASSUME OneResponse, NEW r \in Repos, NEW cs \in SUBSET Sets
  PROVE  Scope(r, cs) = Scope(r, {})
<1>1. CASE cs = {}
  BY <1>1
<1>2. CASE cs # {}
  <2>1. PICK s \in cs : TRUE
    BY <1>2
  <2>2. PICK q \in Pages : q.rep = r /\ q.set = s
    BY <2>1, AnswerAssumption
  <2>3. \A p \in Pages : p.rep = r => p = q
    BY <2>2 DEF OneResponse
  <2>4. PagesOf(r, cs) = {q} /\ PagesOf(r, {}) = {q}
    BY <2>1, <2>2, <2>3 DEF PagesOf
  <2> QED
    BY <2>4 DEF Scope
<1> QED
  BY <1>1, <1>2

LEMMA UnslippedStep ==
  ASSUME OneResponse, IInv, Unslipped, [Next]_vars
  PROVE  Unslipped'
<1>1. /\ TypeOK /\ now \in Nat /\ mem.dataXml \in Nat /\ temp \in Nat
      /\ slipped \in [Repos -> SUBSET Ids] /\ late \subseteq Ids
      /\ mem.dataXml <= now /\ temp <= now
      /\ \A k \in 1..Len(files) : files[k].date <= now
  BY DEF IInv, TypeOK, Past
<1>2. ASSUME UNCHANGED <<prov, rep, mem, pending, files, temp, late, slipped>> PROVE Unslipped'
  BY <1>2 DEF Unslipped
<1>3. ASSUME late' = {}, UNCHANGED slipped PROVE Unslipped'
  BY <1>3 DEF Unslipped
<1>4. CASE Tick
  BY <1>2, <1>4 DEF Tick, update
<1>5. ASSUME NEW r \in Repos, NEW id \in Ids, NEW st \in Statuses, Change(r, id, st)
      PROVE  Unslipped'
  <2>1. /\ UNCHANGED <<rep, mem, pending, files, temp>> /\ id \in Scope(r, {})
        /\ prov'[r][id].stamp = now
        /\ \A s \in Repos, i \in Ids : ~(s = r /\ i = id) => prov'[s][i] = prov[s][i]
        /\ \/ late' = late
           \/ rep = r /\ late' = late \cup {id} /\ \A p \in pending : id \notin p.ids
        /\ slipped' = [slipped EXCEPT ![r] = slipped[r] \ {id}]
    BY <1>5, ChangeStep
  <2>2. \A s \in Repos : slipped'[s] = {}
    BY <1>1, <2>1 DEF Unslipped
  <2> SUFFICES ASSUME rep # NoRepo, NEW i \in late'
               PROVE  /\ pending = {}
                      /\ mem.dataXml <= prov'[rep][i].stamp
                      /\ temp <= prov'[rep][i].stamp
                      /\ \A k \in 1..Len(files) : files[k].date <= prov'[rep][i].stamp
    BY <2>1, <2>2 DEF Unslipped
  <2>3. rep \in Repos
    BY <1>1 DEF TypeOK
  <2>4. CASE i \in late /\ ~(rep = r /\ i = id)
    <3>1. prov'[rep][i] = prov[rep][i]
      BY <1>1, <2>1, <2>3, <2>4
    <3> QED
      BY <2>4, <3>1 DEF Unslipped
  <2>5. CASE rep = r /\ i = id
    <3>1. i \in late => pending = {}
      BY DEF Unslipped
    <3>2. i \notin late => pending = {}
      <4> SUFFICES ASSUME i \notin late, NEW p \in pending PROVE FALSE
        OBVIOUS
      <4>1. id \notin p.ids
        BY <2>1, <2>5
      <4>2. PICK q \in Pages : q.rep = r /\ id \in q.ids
        BY <2>1 DEF Scope, PagesOf
      <4>3. p \in Pages /\ p.rep = r
        BY <2>5 DEF IInv, Control, PagesOf
      <4> QED
        BY <4>1, <4>2, <4>3 DEF OneResponse
    <3> QED
      BY <1>1, <2>1, <2>5, <3>1, <3>2
  <2> QED
    BY <2>1, <2>4, <2>5
<1>6. ASSUME NEW r \in Repos, NEW cs \in SUBSET Sets, EditRepository(r, cs) PROVE Unslipped'
  <2>1. /\ UNCHANGED <<prov, rep, mem, pending, files, temp, late>>
        /\ slipped' = [slipped EXCEPT ![r] = slipped[r] \cup (Scope(r, cs) \ Scope(r, colecoes[r]))]
    BY <1>6 DEF EditRepository, update
  <2>2. colecoes[r] \in SUBSET Sets
    BY <1>1 DEF TypeOK
  <2>3. Scope(r, cs) \ Scope(r, colecoes[r]) = {}
    BY <2>2, OneResponseScope
  <2> QED
    BY <1>1, <2>1, <2>3 DEF Unslipped
<1>7. ASSUME NEW r \in Repos, NEW apagar \in BOOLEAN, StartOne(r, apagar) PROVE Unslipped'
  BY <1>3, <1>7 DEF StartOne, Enter
<1>8. CASE StartAll
  BY <1>2, <1>8 DEF StartAll, update
<1>9. CASE UpdateFails
  BY <1>3, <1>9 DEF UpdateFails, Leave
<1>10. CASE Crash
  BY <1>3, <1>10 DEF Crash, Leave
<1>11. CASE StartRobo
  BY <1>2, <1>11 DEF StartRobo, update
<1>12. ASSUME NEW r \in Repos, Next1(r) PROVE Unslipped'
  BY <1>3, <1>12 DEF Next1, Enter
<1>13. ASSUME NEW p \in Pages, Fetch(p) PROVE Unslipped'
  <2>1. p \in pending /\ rep \in Repos /\ UNCHANGED <<late, slipped>>
    BY <1>13, FetchStep
  <2>2. late = {}
    BY <2>1, NoRepoAssumption DEF Unslipped
  <2> QED
    BY <1>3, <2>1, <2>2
<1>14. ASSUME NEW id \in Ids, ImportRecord(id) PROVE Unslipped'
  <2>1. /\ rep # NoRepo /\ UNCHANGED <<prov, rep, mem, pending, temp, late, slipped>>
        /\ Len(files') = Len(files) /\ \A k \in 1..Len(files) : files'[k].date = files[k].date
    BY <1>14, ImportStep
  <2> QED
    BY <2>1 DEF Unslipped
<1>15. CASE FinishFile
  <2>1. /\ rep # NoRepo /\ 1 \in 1..Len(files)
        /\ UNCHANGED <<prov, rep, mem, pending, late, slipped>>
        /\ temp' = files[1].date
        /\ \A k \in 1..Len(files') : k + 1 \in 1..Len(files) /\ files'[k] = files[k + 1]
    BY <1>15, FinishFileStep
  <2> QED
    BY <2>1 DEF Unslipped
<1>16. CASE FinishRepository
  <2>1. /\ rep # NoRepo /\ late' = {}
        /\ slipped' = [slipped EXCEPT ![rep] =
             (IF mem.dataXml = NoDate THEN {} ELSE slipped[rep])
               \cup {id \in late : prov[rep][id].stamp < Cursor}]
    BY <1>16 DEF FinishRepository, Leave
  <2>2. rep \in Repos
    BY <1>1, <2>1 DEF TypeOK
  <2>3. \A id \in late : prov[rep][id].stamp \in Nat /\ ~(prov[rep][id].stamp < Cursor)
    BY <1>1, <2>1, <2>2, RecordTypes DEF Unslipped, Cursor
  <2>4. \A s \in Repos : slipped'[s] = {}
    BY <1>1, <2>1, <2>2, <2>3 DEF Unslipped
  <2> QED
    BY <2>1, <2>4 DEF Unslipped
<1>17. CASE EndRun
  <2>1. rep' = NoRepo /\ UNCHANGED slipped
    BY <1>17 DEF EndRun, update
  <2> QED
    BY <2>1 DEF Unslipped
<1>18. CASE UNCHANGED vars
  BY <1>2, <1>18 DEF vars
<1> QED
  BY <1>4, <1>5, <1>6, <1>7, <1>8, <1>9, <1>10, <1>11, <1>12, <1>13, <1>14, <1>15, <1>16, <1>17,
     <1>18 DEF Next, Environment, Work

\* With providers that answer in one response, whatever the sets an
\* administrator chooses among the only one, no record slips: what changed
\* before a stored cursor is mirrored, without exception.
THEOREM OneResponseMissesNothing ==
  ASSUME OneResponse
  PROVE  Spec => []NothingBehindCursorIsMissed
<1>1. Init => Unslipped
  BY DEF Init, Unslipped
<1>2. IInv /\ Unslipped /\ [Next]_vars => Unslipped'
  BY UnslippedStep
<1>3. IInv /\ Unslipped => NothingBehindCursorIsMissed
  BY DEF IInv, Vouches, Unslipped, NothingBehindCursorIsMissed
<1> QED
  BY <1>1, <1>2, <1>3, InvCorrect, PTL DEF Spec
=============================================================================
