------------------------------ MODULE Harvest ------------------------------
(***************************************************************************)
(* The incremental OAI-PMH harvest of the repositories of a federation     *)
(* (robo/atualiza/Repositorios.java with ImporterRep, Harvester,           *)
(* UpdateData and DocumentServiceImpl.save).                               *)
(*                                                                         *)
(* An update of a repository asks its provider for every record changed    *)
(* since the stored cursor (dataXml), response by response, keeps the      *)
(* responses in files, imports the records one transaction each and        *)
(* stores the date of the last response as the next cursor.  Updates are   *)
(* started by the administrator (one repository or all of them) or by the  *)
(* nightly robot, whose whole run is a single transaction.  The provider,  *)
(* its clock and the failures are the environment.  One update runs at a   *)
(* time here; overlapping updates are the subject of module Overlap.       *)
(***************************************************************************)
EXTENDS Naturals, Sequences

CONSTANTS
  Repos,      \* the registered repositories
  NoRepo,     \* no repository (no owner, no update in progress)
  Ids,        \* OAI identifiers of records
  Sets,       \* OAI sets (the "colecoes" a repository can be restricted to)
  Pages,      \* what the providers list: one entry per ListRecords response
  Statuses,   \* what providers do to records: "live", "broken", "deleted"
  MaxTime,    \* bound on the providers' clock
  MaxChanges, \* bound on the changes of the providers' records
  MaxFails    \* bound on failures and crashes

ASSUME NoRepoAssumption == NoRepo \notin Repos

ASSUME PagesAssumption == Pages \subseteq [rep : Repos, set : Sets, ids : SUBSET Ids]

\* A ListRecords request is always answered, by an empty response if need be.
ASSUME AnswerAssumption ==
  \A r \in Repos, s \in Sets : \E p \in Pages : p.rep = r /\ p.set = s

ASSUME SetsAssumption == Sets # {}

ASSUME StatusesAssumption == Statuses \subseteq {"live", "broken", "deleted"}

ASSUME BoundsAssumption == MaxTime \in Nat /\ MaxChanges \in Nat /\ MaxFails \in Nat

VARIABLES
  prov,       \* prov[r][id]: the record as provider r has it now
  now,        \* the providers' clock
  changes,    \* changes so far
  docs,       \* table documentos, by obaa_entry
  colecoes,   \* table repositorios: the sets harvested, {} for the whole provider
  ultima,     \* table repositorios: is data_ultima_atualizacao non-null?
  dataXml,    \* table repositorios: the cursor data_xml
  kind,       \* who runs: nobody, an admin request for one or all, the robot
  todo,       \* the repositories the run has yet to visit
  saved,      \* the tables as the robot's transaction found them
  poisoned,   \* is that transaction marked rollback-only?
  rep,        \* the repository being updated
  mem,        \* its entity in memory: the fields ultima and dataXml
  pending,    \* the responses yet to be requested
  files,      \* the responses harvested and not imported yet
  temp,       \* dataXmlTemp of the entity
  late,       \* history: records changed after the last response listing them
  slipped,    \* history: records the stored cursor no longer vouches for
  fails       \* failures so far

tables == <<docs, colecoes, ultima, dataXml>>
update == <<rep, mem, pending, files, temp, late>>
vars == <<prov, now, changes, docs, colecoes, ultima, dataXml, kind, todo, saved, poisoned,
          rep, mem, pending, files, temp, late, slipped, fails>>

-----------------------------------------------------------------------------
(* Data *)

NoDate == 0          \* a null date; real dates start at 1

Rec == [ver : Nat, stamp : Nat, st : {"absent", "live", "broken", "deleted"}]
NoRec == [ver |-> 0, stamp |-> 0, st |-> "absent"]

Doc == [owner : Repos \cup {NoRepo}, ver : Nat, deleted : BOOLEAN]
NoDoc == [owner |-> NoRepo, ver |-> 0, deleted |-> FALSE]

\* A response: its date and, by identifier, the records it lists (NoRec: none).
File == [date : Nat, recs : [Ids -> Rec]]

Unset == [ultima |-> FALSE, dataXml |-> NoDate]
Blank == [docs |-> [id \in Ids |-> NoDoc],
          ultima |-> [r \in Repos |-> FALSE],
          dataXml |-> [r \in Repos |-> NoDate]]

\* The responses to expect from r when restricted to the sets cs.
PagesOf(r, cs) == {p \in Pages : p.rep = r /\ (cs = {} \/ p.set \in cs)}
Scope(r, cs) == UNION {p.ids : p \in PagesOf(r, cs)}

\* OAI-PMH selective harvesting: the records of a page with datestamp >= from.
Response(p, from) ==
  [date |-> now,
   recs |-> [id \in Ids |-> IF id \in p.ids /\ prov[p.rep][id].stamp >= from
                           THEN prov[p.rep][id] ELSE NoRec]]

\* Mutant of Save: the importer still holds another repository.
SaveElsewhere(d, r, x) ==
  [owner   |-> IF d.owner = NoRepo THEN CHOOSE s \in Repos : s # r ELSE d.owner,
   ver     |-> IF x.st = "deleted" THEN 0 ELSE x.ver,
   deleted |-> d.deleted \/ x.st = "deleted"]

\* DocumentServiceImpl.save: the stored document d after record x of r is saved.
Save(d, r, x) ==
  [owner   |-> IF d.owner = NoRepo THEN r ELSE d.owner,
   ver     |-> IF x.st = "deleted" THEN 0 ELSE x.ver,
   deleted |-> d.deleted \/ x.st = "deleted"]

-----------------------------------------------------------------------------
Init ==
  /\ prov = [r \in Repos |-> [id \in Ids |-> NoRec]]
  /\ now = 1
  /\ changes = 0
  /\ docs = Blank.docs
  /\ colecoes = [r \in Repos |-> {}]
  /\ ultima = Blank.ultima
  /\ dataXml = Blank.dataXml
  /\ kind = "idle" /\ todo = {} /\ saved = Blank /\ poisoned = FALSE
  /\ rep = NoRepo /\ mem = Unset /\ pending = {} /\ files = <<>>
  /\ temp = NoDate /\ late = {}
  /\ slipped = [r \in Repos |-> {}]
  /\ fails = 0

(* The environment: providers and their clock. *)

Tick ==
  /\ now < MaxTime
  /\ now' = now + 1
  /\ UNCHANGED <<prov, changes, tables, kind, todo, saved, poisoned, update, slipped, fails>>

\* A provider creates, changes, breaks or deletes a record it lists.
Change(r, id, st) ==
  /\ changes < MaxChanges
  /\ changes' = changes + 1
  /\ id \in Scope(r, {})
  /\ st = "deleted" => prov[r][id].st \in {"live", "broken"}
  /\ prov' = [prov EXCEPT ![r][id] =
                [ver |-> prov[r][id].ver + 1, stamp |-> now, st |-> st]]
  /\ late' = IF rep = r /\ \A p \in pending : id \notin p.ids
             THEN late \cup {id} ELSE late
  /\ slipped' = [slipped EXCEPT ![r] = @ \ {id}]
  /\ UNCHANGED <<now, tables, kind, todo, saved, poisoned, rep, mem, pending,
                 files, temp, fails>>

(* The administrator. *)

\* RepositoriesController.editDo: the sets change, the cursor stays.
\* (It stays when the URL or the prefix changes too, but a repository keeps its
\* provider here.)
EditRepository(r, cs) ==
  /\ kind = "idle"
  /\ cs # {}
  /\ colecoes' = [colecoes EXCEPT ![r] = cs]
  /\ slipped' = [slipped EXCEPT ![r] = @ \cup (Scope(r, cs) \ Scope(r, colecoes[r]))]
  /\ UNCHANGED <<prov, now, changes, docs, ultima, dataXml, kind, todo, saved, poisoned,
                 update, fails>>

-----------------------------------------------------------------------------
(* Repositorios.atualizaRepositorio *)

\* The documents of r are deleted, deleted ones included.
Wiped(r) == [id \in Ids |-> IF docs[id].owner = r THEN NoDoc ELSE docs[id]]

\* Mutant of Enter: the wipe leaves the stored dates as they were.
EnterKeepingDates(r, m) ==
  /\ rep' = r
  /\ mem' = m
  /\ pending' = PagesOf(r, colecoes[r])
  /\ files' = <<>>
  /\ temp' = NoDate
  /\ late' = {}
  /\ docs' = IF m = Unset THEN Wiped(r) ELSE docs
  /\ UNCHANGED <<ultima, dataXml, poisoned, fails>>

\* Up to the first request: the wipe when neither date is set, whose
\* transaction also stores the entity's dates and whose failure is swallowed.
Enter(r, m) ==
  /\ rep' = r
  /\ mem' = m
  /\ pending' = PagesOf(r, colecoes[r])
  /\ files' = <<>>
  /\ temp' = NoDate
  /\ late' = {}
  /\ \/ /\ m = Unset
        /\ docs' = Wiped(r)
        /\ ultima' = [ultima EXCEPT ![r] = m.ultima]
        /\ dataXml' = [dataXml EXCEPT ![r] = m.dataXml]
        /\ UNCHANGED <<poisoned, fails>>
     \/ /\ m = Unset
        /\ fails < MaxFails
        /\ fails' = fails + 1
        /\ poisoned' = IF kind = "robo" THEN TRUE ELSE FALSE
        /\ UNCHANGED <<docs, ultima, dataXml>>
     \/ /\ m # Unset
        /\ UNCHANGED <<docs, ultima, dataXml, poisoned, fails>>

\* No update in progress.
Leave ==
  /\ rep' = NoRepo /\ mem' = Unset /\ pending' = {} /\ files' = <<>>
  /\ temp' = NoDate /\ late' = {}

\* Mutant of Fetch: the responses are imported last first.
FetchPrepending(p) ==
  /\ p \in pending
  /\ pending' = pending \ {p}
  /\ files' = <<Response(p, mem.dataXml)>> \o files
  /\ UNCHANGED <<prov, now, changes, tables, kind, todo, saved, poisoned, rep, mem, temp,
                 late, slipped, fails>>

\* Harvester.coletaXMLSet: one ListRecords response is written to a file.
Fetch(p) ==
  /\ p \in pending
  /\ pending' = pending \ {p}
  /\ files' = Append(files, Response(p, mem.dataXml))
  /\ UNCHANGED <<prov, now, changes, tables, kind, todo, saved, poisoned, rep, mem, temp,
                 late, slipped, fails>>

\* ImporterRep.update: a record is saved in a transaction that also stores the
\* entity's dates; one that is neither deleted nor readable is skipped.
ImportRecord(id) ==
  /\ rep # NoRepo /\ pending = {} /\ files # <<>>
  /\ Head(files).recs[id] # NoRec
  /\ files' = [files EXCEPT ![1].recs[id] = NoRec]
  /\ \/ /\ Head(files).recs[id].st = "broken"
        /\ UNCHANGED <<docs, ultima, dataXml>>
     \/ /\ Head(files).recs[id].st # "broken"
        /\ docs' = [docs EXCEPT ![id] = Save(@, rep, Head(files).recs[id])]
        /\ ultima' = [ultima EXCEPT ![rep] = mem.ultima]
        /\ dataXml' = [dataXml EXCEPT ![rep] = mem.dataXml]
  /\ UNCHANGED <<prov, now, changes, colecoes, kind, todo, saved, poisoned, rep, mem, pending,
                 temp, late, slipped, fails>>

\* ... and after its last record the file's date is kept in dataXmlTemp.
FinishFile ==
  /\ rep # NoRepo /\ pending = {} /\ files # <<>>
  /\ \A id \in Ids : Head(files).recs[id] = NoRec
  /\ temp' = Head(files).date
  /\ files' = Tail(files)
  /\ UNCHANGED <<prov, now, changes, tables, kind, todo, saved, poisoned, rep, mem, pending,
                 late, slipped, fails>>

\* Mutant of Cursor: a safety margin with no floor.
CursorWithMargin == IF temp # NoDate THEN temp - 2 ELSE mem.dataXml

\* UpdateData.setUltimaAtualizacao: the cursor after a successful update.
Cursor == IF temp # NoDate THEN temp ELSE mem.dataXml

FinishRepository ==
  /\ rep # NoRepo /\ pending = {} /\ files = <<>>
  /\ ultima' = [ultima EXCEPT ![rep] = TRUE]
  /\ dataXml' = [dataXml EXCEPT ![rep] = Cursor]
  /\ slipped' = [slipped EXCEPT ![rep] =
       (IF mem.dataXml = NoDate THEN {} ELSE @)
         \cup {id \in late : prov[rep][id].stamp < Cursor}]
  /\ kind' = IF kind = "one" THEN "idle" ELSE kind
  /\ Leave
  /\ UNCHANGED <<prov, now, changes, docs, colecoes, todo, saved, poisoned, fails>>

\* Mutant of UpdateFails: the cursor is stored as if the update had succeeded.
UpdateFailsStoringCursor ==
  /\ rep # NoRepo
  /\ fails < MaxFails
  /\ fails' = fails + 1
  /\ dataXml' = [dataXml EXCEPT ![rep] = Cursor]
  /\ kind' = IF kind = "one" THEN "idle" ELSE kind
  /\ Leave
  /\ UNCHANGED <<prov, now, changes, docs, colecoes, ultima, todo, saved, poisoned, slipped>>

\* A request, a parse or a save fails: nothing more is stored.  A failed save
\* crosses a transactional proxy, which marks the robot's transaction.
UpdateFails ==
  /\ rep # NoRepo
  /\ fails < MaxFails
  /\ fails' = fails + 1
  /\ \/ UNCHANGED poisoned
     \/ pending = {} /\ poisoned' = IF kind = "robo" THEN TRUE ELSE FALSE
  /\ kind' = IF kind = "one" THEN "idle" ELSE kind
  /\ Leave
  /\ UNCHANGED <<prov, now, changes, tables, todo, saved, slipped>>

-----------------------------------------------------------------------------
(* The runs *)

\* Repositorios.atualizaFerramentaAdm(id > 0, apagar)
StartOne(r, apagar) ==
  /\ kind = "idle"
  /\ kind' = "one"
  /\ Enter(r, IF apagar THEN Unset ELSE [ultima |-> ultima[r], dataXml |-> dataXml[r]])
  /\ UNCHANGED <<prov, now, changes, colecoes, todo, saved, slipped>>

\* Repositorios.atualizaFerramentaAdm(0, _)
StartAll ==
  /\ kind = "idle"
  /\ kind' = "all"
  /\ todo' = Repos
  /\ UNCHANGED <<prov, now, changes, tables, saved, poisoned, update, slipped, fails>>

\* Mutant of StartRobo: only what was never updated is visited.
StartRoboNewOnly ==
  /\ kind = "idle"
  /\ kind' = "robo"
  /\ todo' = {r \in Repos : ~ultima[r]}
  /\ saved' = [docs |-> docs, ultima |-> ultima, dataXml |-> dataXml]
  /\ poisoned' = FALSE
  /\ UNCHANGED <<prov, now, changes, tables, update, slipped, fails>>

\* Robo.run, the repositories' part: the transaction begins.
StartRobo ==
  /\ kind = "idle"
  /\ kind' = "robo"
  /\ todo' = Repos
  /\ saved' = [docs |-> docs, ultima |-> ultima, dataXml |-> dataXml]
  /\ poisoned' = FALSE
  /\ UNCHANGED <<prov, now, changes, tables, update, slipped, fails>>

\* The loop over getAll(): the next repository is read and its update begins.
Next1(r) ==
  /\ rep = NoRepo
  /\ r \in todo
  /\ todo' = todo \ {r}
  /\ Enter(r, [ultima |-> ultima[r], dataXml |-> dataXml[r]])
  /\ UNCHANGED <<prov, now, changes, colecoes, kind, saved, slipped>>

\* Mutant of EndRun: only the documents roll back.
EndRunKeepingDates ==
  /\ kind \in {"all", "robo"} /\ rep = NoRepo /\ todo = {}
  /\ kind' = "idle"
  /\ saved' = Blank
  /\ poisoned' = FALSE
  /\ docs' = IF poisoned THEN saved.docs ELSE docs
  /\ UNCHANGED <<prov, now, changes, colecoes, ultima, dataXml, todo, update, slipped, fails>>

\* The loop ends; the robot's transaction commits, or rolls back if marked.
EndRun ==
  /\ kind \in {"all", "robo"} /\ rep = NoRepo /\ todo = {}
  /\ kind' = "idle"
  /\ saved' = Blank
  /\ poisoned' = FALSE
  /\ IF poisoned
     THEN docs' = saved.docs /\ ultima' = saved.ultima /\ dataXml' = saved.dataXml
     ELSE UNCHANGED <<docs, ultima, dataXml>>
  /\ UNCHANGED <<prov, now, changes, colecoes, todo, update, slipped, fails>>

\* The server dies and restarts; the robot's transaction is lost.
Crash ==
  /\ kind # "idle"
  /\ fails < MaxFails
  /\ fails' = fails + 1
  /\ kind' = "idle" /\ todo' = {} /\ saved' = Blank /\ poisoned' = FALSE
  /\ IF kind = "robo"
     THEN docs' = saved.docs /\ ultima' = saved.ultima /\ dataXml' = saved.dataXml
     ELSE UNCHANGED <<docs, ultima, dataXml>>
  /\ Leave
  /\ UNCHANGED <<prov, now, changes, colecoes, slipped>>

-----------------------------------------------------------------------------
Environment ==
  \/ Tick
  \/ \E r \in Repos, id \in Ids, st \in Statuses : Change(r, id, st)
  \/ \E r \in Repos, cs \in SUBSET Sets : EditRepository(r, cs)
  \/ \E r \in Repos, apagar \in BOOLEAN : StartOne(r, apagar)
  \/ StartAll
  \/ UpdateFails
  \/ Crash

\* The steps of a run that has begun.
Work ==
  \/ \E r \in Repos : Next1(r)
  \/ \E p \in Pages : Fetch(p)
  \/ \E id \in Ids : ImportRecord(id)
  \/ FinishFile
  \/ FinishRepository
  \/ EndRun

Next == Environment \/ StartRobo \/ Work

Spec == Init /\ [][Next]_vars

\* A run is a thread of the server and goes on; the robot's cron trigger fires
\* every night, whatever the administrator does in between.
FairSpec == Spec /\ WF_vars(Work) /\ SF_vars(StartRobo)

-----------------------------------------------------------------------------
(* Properties *)

\* Every variable holds a value of its type.
TypeOK ==
  /\ prov \in [Repos -> [Ids -> Rec]]
  /\ now \in Nat
  /\ changes \in Nat
  /\ docs \in [Ids -> Doc]
  /\ colecoes \in [Repos -> SUBSET Sets]
  /\ ultima \in [Repos -> BOOLEAN]
  /\ dataXml \in [Repos -> Nat]
  /\ kind \in {"idle", "one", "all", "robo"}
  /\ todo \in SUBSET Repos
  /\ saved \in [docs : [Ids -> Doc], ultima : [Repos -> BOOLEAN], dataXml : [Repos -> Nat]]
  /\ poisoned \in BOOLEAN
  /\ rep \in Repos \cup {NoRepo}
  /\ mem \in [ultima : BOOLEAN, dataXml : Nat]
  /\ pending \in SUBSET Pages
  /\ files \in Seq(File)
  /\ temp \in Nat
  /\ late \in SUBSET Ids
  /\ slipped \in [Repos -> SUBSET Ids]
  /\ fails \in Nat

\* No other repository lists the identifier.
Unshared(r, id) == \A s \in Repos \ {r} : id \notin Scope(s, {})

\* The stored document carries the content (or the deletion) of the record.
Mirrors(d, x) ==
  /\ d.owner # NoRepo
  /\ x.st = "live" => d.ver = x.ver
  /\ x.st = "deleted" => d.deleted /\ d.ver = 0

\* A record FEB can and should have: in the harvested sets, readable, its own.
Wanted(r, id) ==
  /\ id \in Scope(r, colecoes[r])
  /\ Unshared(r, id)
  /\ prov[r][id].st \in {"live", "deleted"}

\* The incremental harvest is complete up to its cursor, through failures,
\* crashes, rollbacks and wipes: a record changed before the stored cursor is
\* mirrored, unless it changed between the last response that listed it and the
\* date the same update stored, or its set was added after the cursor was
\* stored (Repositorios.atualizaRepositorio, UpdateData.setUltimaAtualizacao).
OnlySlippedAreMissed ==
  \A r \in Repos, id \in Ids :
    Wanted(r, id) /\ id \notin slipped[r] /\ prov[r][id].stamp < dataXml[r]
      => Mirrors(docs[id], prov[r][id])

\* The same with no exception: what "harvests only new items" needs, since the
\* next update asks for nothing older than the cursor
\* (RepositoriesController.update).
NothingBehindCursorIsMissed ==
  \A r \in Repos, id \in Ids :
    Wanted(r, id) /\ prov[r][id].stamp < dataXml[r] => Mirrors(docs[id], prov[r][id])

\* A document belongs to a repository that serves its identifier, so the wipe
\* of a repository removes nothing another one alone can bring back
\* (DocumentServiceImpl.getWithoutId, deleteAllFromRep).
OwnersServe ==
  \A id \in Ids : docs[id].owner # NoRepo => id \in Scope(docs[id].owner, {})

\* An update never puts an older content over a newer one, although a record
\* can be in several responses of an update and in several updates; only a
\* rollback undoes (Repositorios.atualizaRepositorio's loop over the files).
NeverRegresses ==
  [][ \/ kind = "robo" /\ kind' = "idle"
      \/ \A id \in Ids :
           (\E r \in Repos : Unshared(r, id) /\ docs[id].owner = r /\ docs'[id].owner = r)
             => docs'[id].ver = 0 \/ docs'[id].ver >= docs[id].ver ]_vars

\* A document whose provider re-published it is found again: one that has
\* content is not marked deleted ("an existing document, when saved, should
\* replace the old one", DocumentServiceIT).
ContentIsVisible == \A id \in Ids : docs[id].ver # 0 => ~docs[id].deleted

\* Seen from outside, all of this is module Mirror: whatever fails, crashes or
\* rolls back, a record that is stored stays stored or is asked for again, and
\* only an update that ends well loses a record, one that changed under it
\* (Repositorios.atualizaRepositorio as a whole).
Status(r, id) ==
  IF ~Wanted(r, id) THEN "out"
  ELSE IF Mirrors(docs[id], prov[r][id]) THEN "fresh"
  ELSE IF prov[r][id].stamp >= dataXml[r] THEN "due" ELSE "lost"
Outside == INSTANCE Mirror WITH
  status <- [r \in Repos |-> [id \in Ids |-> Status(r, id)]], active <- rep, touched <- late
ImplementsMirror == Outside!Spec

\* With providers that answer in one response and sets that do not change, FEB
\* keeps coming to mirror all of its providers, whatever failed before.
Mirrored ==
  \A r \in Repos, id \in Ids : Wanted(r, id) => Mirrors(docs[id], prov[r][id])
AlwaysMirroredAgain == []<>Mirrored
=============================================================================
