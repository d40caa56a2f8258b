------------------------------ MODULE Overlap ------------------------------
(***************************************************************************)
(* Updates of repositories that overlap (Repositorios.atualizaRepositorio, *)
(* ImporterRep, DocumentServiceImpl.save, RepositoryServiceImpl).          *)
(*                                                                         *)
(* Nothing keeps two requests from updating repositories at the same time. *)
(* They share the temporary directory, which each empties before it        *)
(* harvests; the importer, a field of the singleton Repositorios whose own *)
(* fields (file, repository, parsed response) each sets and reads in turn; *)
(* and the tables.  A row of repositorios is read and saved as a whole, by *)
(* updates and by the administrator's edits, and may be deleted under      *)
(* them; a document is looked up and, when there is none, inserted, and    *)
(* obaa_entry is not unique.                                               *)
(*                                                                         *)
(* The providers answer in one response and list different identifiers,    *)
(* which module Harvest does not assume; an update of all repositories is  *)
(* a sequence of updates of one.                                           *)
(***************************************************************************)
EXTENDS Naturals, Sequences, FiniteSets, Sifting

CONSTANTS
  Requests,   \* the threads that update a repository
  NoRequest,  \* the importer's repository is of a request that has ended
  Repos,      \* the names repositories are registered under
  NoRepo,     \* no repository
  Ids,        \* OAI identifiers of records
  Lists,      \* Lists[r]: the identifiers r lists, in the order of its response
  MaxTime,    \* bound on the providers' clock
  MaxChanges, \* bound on the changes of the providers' records
  MaxOverlaps,\* bound on the updates that begin while another is running
  MaxEvents   \* bound on edits, deletions, failures and crashes

ASSUME ListsAssumption ==
  /\ Lists \in [Repos -> Seq(Ids)]
  /\ \A r, s \in Repos : \A i \in DOMAIN Lists[r], j \in DOMAIN Lists[s] :
       Lists[r][i] = Lists[s][j] => r = s /\ i = j

ASSUME SentinelsAssumption == NoRepo \notin Repos /\ NoRequest \notin Requests

VARIABLES
  now,        \* the providers' clock
  prov,       \* prov[id]: version and date of the record
  docs,       \* table documentos: the rows of each obaa_entry
  row,        \* table repositorios
  keys,       \* the sequence of its primary keys, for each name
  disk,       \* the temporary directory: the response of each repository
  imp,        \* the importer: inputXmlFile, rep and oai
  req,        \* req[q]: the update in progress
  edit,       \* the edit between its read and its save
  solid,      \* history: the repositories a full update has put right since
  changes, overlaps, events

vars == <<now, prov, docs, row, keys, disk, imp, req, edit, solid, changes, overlaps, events>>
store == <<docs, row, keys, disk, imp>>
bounds == <<now, prov, keys, changes, overlaps, events>>

-----------------------------------------------------------------------------
(* Data *)

NoDate == 0
Rec == [ver : Nat, stamp : Nat]

\* A row of documentos; key stands for its primary key.
Doc == [key : Nat, owner : Repos, ver : Nat]

\* A row of repositorios: its primary key, the form's fields, and the dates.
Row == [key : Nat, form : Nat, ultima : BOOLEAN, dataXml : Nat]
NewRow(key) == [key |-> key, form |-> 0, ultima |-> FALSE, dataXml |-> NoDate]
NoKey == 0
NoRow == NewRow(NoKey)

\* A response file.
File == [date : Nat, recs : Seq([id : Ids, ver : Nat])]
NoFile == [date |-> NoDate, recs |-> <<>>]

\* An update: its step, its entity (and whether that differs from what was
\* loaded), dataXmlTemp, the index of its loop, the document to insert; and, as
\* history, what it harvested and whether it has been alone and from scratch.
Steps == {"idle", "wipe", "empty", "fetch", "open", "rep", "parse", "save", "insert", "end"}
Update == [pc : Steps, rep : Repos \cup {NoRepo}, ent : Row, dirty : BOOLEAN, temp : Nat, i : Nat,
           new : {<<>>} \cup (Ids \X [owner : Repos, key : Nat, ver : Nat]), got : File,
           alone : BOOLEAN, full : BOOLEAN]
Idle == [pc |-> "idle", rep |-> NoRepo, ent |-> NoRow, dirty |-> FALSE, temp |-> NoDate,
         i |-> 1, new |-> <<>>, got |-> NoFile, alone |-> FALSE, full |-> FALSE]

Owned(r) == {Lists[r][i] : i \in DOMAIN Lists[r]}

\* What r answers to ListRecords(from).
Response(r, from) ==
  LET listed == Sift(Lists[r], {id \in Ids : prov[id].stamp >= from})
  IN  [date |-> now, recs |-> [i \in DOMAIN listed |-> [id |-> listed[i], ver |-> prov[listed[i]].ver]]]

Running == {q \in Requests : req[q].pc # "idle"}
NoEdit == [rep |-> NoRepo, old |-> NoRow]

NoImport == [req |-> NoRequest, rep |-> NoRepo, key |-> NoKey]

\* The row of the entity has been deleted.
Gone(u) == row[u.rep].key # u.ent.key

\* The update q goes on with r, or ends.
Goes(q, r) == req' = [req EXCEPT ![q] = r]
Released(q) == [imp EXCEPT !.rep.req = IF @ = q THEN NoRequest ELSE @]

-----------------------------------------------------------------------------
Init ==
  /\ now = 1
  /\ prov = [id \in Ids |-> [ver |-> 1, stamp |-> 1]]
  /\ docs = [id \in Ids |-> {}]
  /\ row = [r \in Repos |-> NewRow(1)]
  /\ keys = [r \in Repos |-> 1]
  /\ disk = [r \in Repos |-> NoFile]
  /\ imp = [file |-> NoRepo, rep |-> NoImport, oai |-> NoFile]
  /\ req = [q \in Requests |-> Idle]
  /\ edit = NoEdit
  /\ solid = {}
  /\ changes = 0 /\ overlaps = 0 /\ events = 0

Tick ==
  /\ now < MaxTime
  /\ now' = now + 1
  /\ UNCHANGED <<prov, store, req, edit, solid, changes, overlaps, events>>

\* A provider changes a record.
Change(id) ==
  /\ changes < MaxChanges
  /\ changes' = changes + 1
  /\ prov' = [prov EXCEPT ![id] = [ver |-> @.ver + 1, stamp |-> now]]
  /\ UNCHANGED <<now, store, req, edit, solid, overlaps, events>>

\* RepositoryServiceImpl.updateNotBlank: the row is read ...
EditRead(r) ==
  /\ edit = NoEdit
  /\ row[r].key # NoKey
  /\ events < MaxEvents
  /\ events' = events + 1
  /\ edit' = [rep |-> r, old |-> row[r]]
  /\ req' = [q \in Requests |-> [req[q] EXCEPT !.alone = FALSE]]
  /\ solid' = IF Running = {} THEN solid ELSE {}
  /\ UNCHANGED <<now, prov, store, changes, overlaps>>

\* ... merged with the form and saved as a whole, if it is still there.
EditSave ==
  /\ edit # NoEdit
  /\ row' = IF row[edit.rep].key = edit.old.key
            THEN [row EXCEPT ![edit.rep] = [edit.old EXCEPT !.form = @ + 1]]
            ELSE row
  /\ edit' = NoEdit
  /\ UNCHANGED <<bounds, docs, disk, imp, req, solid>>

\* RepositoriesController.delete: the row and its documents are deleted.
Delete(r) ==
  /\ row[r].key # NoKey
  /\ events < MaxEvents
  /\ events' = events + 1
  /\ row' = [row EXCEPT ![r] = NoRow]
  /\ docs' = [id \in Ids |-> {d \in docs[id] : d.owner # r}]
  /\ req' = [q \in Requests |-> [req[q] EXCEPT !.alone = FALSE]]
  /\ solid' = solid \ {r}
  /\ UNCHANGED <<now, prov, keys, disk, imp, edit, changes, overlaps>>

\* RepositoriesController.newDo: a name that is free is registered.
Register(r) ==
  /\ row[r].key = NoKey
  /\ keys' = [keys EXCEPT ![r] = @ + 1]
  /\ row' = [row EXCEPT ![r] = NewRow(keys'[r])]
  /\ UNCHANGED <<now, prov, docs, disk, imp, req, edit, solid, changes, overlaps, events>>

-----------------------------------------------------------------------------
(* Repositorios.atualizaRepositorio *)

\* atualizaFerramentaAdm: the entity is loaded; to start from scratch its dates
\* are made null.
Begin(q, r, apagar) ==
  /\ req[q].pc = "idle"
  /\ row[r].key # NoKey
  /\ Running # {} => overlaps < MaxOverlaps
  /\ overlaps' = IF Running = {} THEN overlaps ELSE overlaps + 1
  /\ LET alone == Running = {} /\ edit = NoEdit
         ent == IF apagar THEN [row[r] EXCEPT !.ultima = FALSE, !.dataXml = NoDate] ELSE row[r]
     IN  /\ req' = [p \in Requests |->
              IF p = q
              THEN [Idle EXCEPT !.pc = "wipe", !.rep = r, !.ent = ent, !.dirty = (ent # row[r]),
                                !.alone = alone]
              ELSE [req[p] EXCEPT !.alone = FALSE]]
         /\ solid' = IF alone THEN solid ELSE {}
  /\ UNCHANGED <<now, prov, changes, events, store, edit>>

\* With both dates null the documents of the repository are deleted, and the
\* entity is flushed; when that fails, the update goes on.
Wipe(q) ==
  LET u == req[q]
  IN  /\ u.pc = "wipe"
      /\ IF ~u.ent.ultima /\ u.ent.dataXml = NoDate /\ ~Gone(u)
         THEN /\ docs' = [id \in Ids |-> {d \in docs[id] : d.owner # u.rep}]
              /\ row' = IF u.dirty THEN [row EXCEPT ![u.rep] = u.ent] ELSE row
              /\ Goes(q, [u EXCEPT !.pc = "empty", !.dirty = FALSE, !.full = TRUE])
         ELSE /\ Goes(q, [u EXCEPT !.pc = "empty"])
              /\ UNCHANGED <<docs, row>>
      /\ UNCHANGED <<bounds, disk, imp, edit, solid>>

\* The temporary directory is emptied.
Empty(q) ==
  /\ req[q].pc = "empty"
  /\ disk' = [r \in Repos |-> NoFile]
  /\ Goes(q, [req[q] EXCEPT !.pc = "fetch"])
  /\ UNCHANGED <<bounds, docs, row, imp, edit, solid>>

\* Harvester.coletaXMLSet: the response is written to a file named after the
\* repository.
Fetch(q) ==
  LET u == req[q]
      answer == Response(u.rep, u.ent.dataXml)
  IN  /\ u.pc = "fetch"
      /\ disk' = [disk EXCEPT ![u.rep] = answer]
      /\ Goes(q, [u EXCEPT !.pc = "open", !.got = answer])
      /\ UNCHANGED <<bounds, docs, row, imp, edit, solid>>

\* The importer is given the file; a file that is gone is only logged.
Open(q) ==
  LET u == req[q]
  IN  /\ u.pc = "open"
      /\ IF disk[u.rep] = NoFile
         THEN Goes(q, [u EXCEPT !.pc = "end"]) /\ UNCHANGED imp
         ELSE Goes(q, [u EXCEPT !.pc = "rep"]) /\ imp' = [imp EXCEPT !.file = u.rep]
      /\ UNCHANGED <<bounds, docs, row, disk, edit, solid>>

\* ImporterRep.setRepositorio
SetRepositorio(q) ==
  /\ req[q].pc = "rep"
  /\ imp' = [imp EXCEPT !.rep = [req |-> q, rep |-> req[q].rep, key |-> req[q].ent.key]]
  /\ Goes(q, [req[q] EXCEPT !.pc = "parse"])
  /\ UNCHANGED <<bounds, docs, row, disk, edit, solid>>

\* ImporterRep.update: whatever file the importer has now is read ...
Parse(q) ==
  /\ req[q].pc = "parse"
  /\ IF disk[imp.file] = NoFile
     THEN Goes(q, Idle) /\ imp' = Released(q)
     ELSE /\ imp' = [imp EXCEPT !.oai = disk[imp.file]]
          /\ Goes(q, [req[q] EXCEPT !.pc = "save"])
  /\ UNCHANGED <<bounds, docs, row, disk, edit, solid>>

\* Mutant of Save: a failed query is logged and the loop goes on.
SaveSwallowing(q) ==
  LET u == req[q]
      x == imp.oai.recs[u.i]
      found == docs[x.id]
  IN  /\ u.pc = "save"
      /\ u.i <= Len(imp.oai.recs)
      /\ \/ /\ found = {}
            /\ Goes(q, [u EXCEPT !.pc = "insert",
                                 !.new = <<x.id, [owner |-> imp.rep.rep, key |-> imp.rep.key, ver |-> x.ver]>>])
            /\ UNCHANGED docs
         \/ /\ Cardinality(found) = 1
            /\ docs' = [docs EXCEPT ![x.id] = {[d EXCEPT !.ver = x.ver] : d \in found}]
            /\ Goes(q, [u EXCEPT !.i = @ + 1])
         \/ /\ Cardinality(found) > 1
            /\ Goes(q, [u EXCEPT !.i = @ + 1])
            /\ UNCHANGED docs
      /\ UNCHANGED <<bounds, row, disk, imp, edit, solid>>

\* ... and the records of whatever response it has now are saved, one by one.
\* A document that is found is updated; of two that are found the query fails,
\* and so does a save with an entity to be flushed whose row is gone.
Save(q) ==
  LET u == req[q]
      x == imp.oai.recs[u.i]
      found == docs[x.id]
  IN  /\ u.pc = "save"
      /\ u.i <= Len(imp.oai.recs)
      /\ \/ /\ found = {}
            /\ Goes(q, [u EXCEPT !.pc = "insert",
                                 !.new = <<x.id, [owner |-> imp.rep.rep, key |-> imp.rep.key, ver |-> x.ver]>>])
            /\ UNCHANGED <<docs, imp>>
         \/ /\ Cardinality(found) = 1 /\ ~(u.dirty /\ Gone(u))
            /\ docs' = [docs EXCEPT ![x.id] = {[d EXCEPT !.ver = x.ver] : d \in found}]
            /\ Goes(q, [u EXCEPT !.i = @ + 1])
            /\ UNCHANGED imp
         \/ /\ Cardinality(found) > 1 \/ (found # {} /\ u.dirty /\ Gone(u))
            /\ Goes(q, Idle)
            /\ imp' = Released(q)
            /\ UNCHANGED docs
      /\ UNCHANGED <<bounds, row, disk, edit, solid>>

\* A document that was not found is inserted, in its repository, which must be
\* there.
Insert(q) ==
  LET u == req[q]
      id == u.new[1]
      key == CHOOSE k \in 1..(Cardinality(docs[id]) + 1) : \A d \in docs[id] : d.key # k
  IN  /\ u.pc = "insert"
      /\ IF row[u.new[2].owner].key = u.new[2].key /\ ~(u.dirty /\ Gone(u))
         THEN /\ docs' = [docs EXCEPT ![id] =
                   @ \cup {[key |-> key, owner |-> u.new[2].owner, ver |-> u.new[2].ver]}]
              /\ Goes(q, [u EXCEPT !.pc = "save", !.i = @ + 1, !.new = <<>>])
              /\ UNCHANGED imp
         ELSE /\ Goes(q, Idle)
              /\ imp' = Released(q)
              /\ UNCHANGED docs
      /\ UNCHANGED <<bounds, row, disk, edit, solid>>

\* The date of the response is kept by the entity the importer has now.
SetDataXmlTemp(q) ==
  /\ req[q].pc = "save"
  /\ req[q].i > Len(imp.oai.recs)
  /\ req' = [p \in Requests |->
       LET u == IF p = imp.rep.req THEN [req[p] EXCEPT !.temp = imp.oai.date] ELSE req[p]
       IN  IF p = q THEN [u EXCEPT !.pc = "end"] ELSE u]
  /\ UNCHANGED <<bounds, store, edit, solid>>

\* Mutant of End: the cursor is the time the update ends.
EndNow(q) ==
  LET u == req[q]
      whole == /\ u.alone /\ u.full
               /\ \A id \in Owned(u.rep) : \A d \in docs[id] : d.owner = u.rep
  IN  /\ u.pc = "end"
      /\ row' = [row EXCEPT ![u.rep] = [u.ent EXCEPT !.ultima = TRUE, !.dataXml = now]]
      /\ solid' = IF whole THEN solid \cup {u.rep} ELSE solid
      /\ Goes(q, Idle)
      /\ imp' = Released(q)
      /\ UNCHANGED <<bounds, docs, disk, edit>>

\* Mutant of End: the fields the update does not use are not loaded.
EndBlank(q) ==
  /\ req[q].pc = "end"
  /\ row' = [row EXCEPT ![req[q].rep] =
       [NewRow(req[q].ent.key) EXCEPT !.ultima = TRUE,
                      !.dataXml = IF req[q].temp # NoDate THEN req[q].temp ELSE req[q].ent.dataXml]]
  /\ Goes(q, Idle)
  /\ imp' = Released(q)
  /\ UNCHANGED <<bounds, docs, disk, edit, solid>>

\* Mutant of End: the cursor is a day too early.
EndWithMargin(q) ==
  /\ req[q].pc = "end"
  /\ row' = [row EXCEPT ![req[q].rep] =
       [req[q].ent EXCEPT !.ultima = TRUE,
                          !.dataXml = IF req[q].temp # NoDate THEN req[q].temp - 2 ELSE @]]
  /\ Goes(q, Idle)
  /\ imp' = Released(q)
  /\ UNCHANGED <<bounds, docs, disk, edit, solid>>

\* Mutant of End: the entity is merged, and inserted when its row is gone.
EndMerging(q) ==
  LET u == req[q]
  IN  /\ u.pc = "end"
      /\ row' = [row EXCEPT ![u.rep] =
           [u.ent EXCEPT !.ultima = TRUE, !.dataXml = IF u.temp # NoDate THEN u.temp ELSE @]]
      /\ Goes(q, Idle)
      /\ imp' = Released(q)
      /\ UNCHANGED <<bounds, docs, disk, edit, solid>>

\* The entity is saved as a whole, with its new dates.  The repository is put
\* right if the update had FEB to itself, began with a wipe, and no other
\* repository owns one of its documents.
End(q) ==
  LET u == req[q]
      whole == /\ u.alone /\ u.full
               /\ \A id \in Owned(u.rep) : \A d \in docs[id] : d.owner = u.rep
  IN  /\ u.pc = "end" /\ ~Gone(u)
      /\ row' = [row EXCEPT ![u.rep] =
           [u.ent EXCEPT !.ultima = TRUE, !.dataXml = IF u.temp # NoDate THEN u.temp ELSE @]]
      /\ solid' = IF whole THEN solid \cup {u.rep} ELSE solid
      /\ Goes(q, Idle)
      /\ imp' = Released(q)
      /\ UNCHANGED <<bounds, docs, disk, edit>>

\* There is no row to be saved: the update fails.
EndGone(q) ==
  /\ req[q].pc = "end" /\ Gone(req[q])
  /\ Goes(q, Idle)
  /\ imp' = Released(q)
  /\ UNCHANGED <<bounds, docs, row, disk, edit, solid>>

\* A request, a parse or a save fails.
UpdateFails(q) ==
  /\ req[q].pc # "idle"
  /\ events < MaxEvents
  /\ events' = events + 1
  /\ Goes(q, Idle)
  /\ imp' = Released(q)
  /\ UNCHANGED <<now, prov, keys, changes, overlaps, docs, row, disk, edit, solid>>

\* The server dies and restarts; the files stay where they are.
Crash ==
  /\ Running # {}
  /\ events < MaxEvents
  /\ events' = events + 1
  /\ req' = [q \in Requests |-> Idle]
  /\ edit' = NoEdit
  /\ imp' = [file |-> NoRepo, rep |-> NoImport, oai |-> NoFile]
  /\ UNCHANGED <<now, prov, keys, changes, overlaps, docs, row, disk, solid>>

-----------------------------------------------------------------------------
Next ==
  \/ Tick
  \/ \E id \in Ids : Change(id)
  \/ \E r \in Repos : EditRead(r) \/ Delete(r) \/ Register(r)
  \/ EditSave
  \/ Crash
  \/ \E q \in Requests :
       \/ \E r \in Repos, apagar \in BOOLEAN : Begin(q, r, apagar)
       \/ Wipe(q) \/ Empty(q) \/ Fetch(q)
       \/ Open(q) \/ SetRepositorio(q) \/ Parse(q)
       \/ Save(q) \/ Insert(q) \/ SetDataXmlTemp(q)
       \/ End(q) \/ EndGone(q) \/ UpdateFails(q)

Spec == Init /\ [][Next]_vars

-----------------------------------------------------------------------------
(* Properties *)

\* Every variable holds a value of its type.
TypeOK ==
  /\ now \in Nat /\ changes \in Nat /\ overlaps \in Nat /\ events \in Nat
  /\ prov \in [Ids -> Rec]
  /\ docs \in [Ids -> SUBSET Doc]
  /\ row \in [Repos -> Row] /\ keys \in [Repos -> Nat]
  /\ disk \in [Repos -> File]
  /\ imp \in [file : Repos \cup {NoRepo}, oai : File,
              rep : [req : Requests \cup {NoRequest}, rep : Repos \cup {NoRepo}, key : Nat]]
  /\ req \in [Requests -> Update]
  /\ edit \in [rep : Repos \cup {NoRepo}, old : Row]
  /\ solid \in SUBSET Repos

\* The stored copies of the identifier: exactly one, as the provider has it.
Stored(id) == \E d \in docs[id] : docs[id] = {d} /\ d.ver = prov[id].ver

\* However updates and edits overlapped before, and whatever they left in the
\* importer, the directory and the tables, a full update that has FEB to itself
\* puts its repository right, unless another one has got its documents; and it
\* stays right until updates overlap again (Repositorios.atualizaRepositorio).
FullUpdateRepairs ==
  \A r \in solid : \A id \in Owned(r) :
    prov[id].stamp < row[r].dataXml => Stored(id)

\* What an update harvested is stored when it ends well: "1 in case of success"
\* (RepositoriesController.update).
Ends(q) == req[q].pc = "end" /\ req'[q].pc = "idle" /\ events' = events /\ ~Gone(req[q])
Kept(q) == \A i \in DOMAIN req[q].got.recs :
  LET x == req[q].got.recs[i]
  IN  \E d \in docs[x.id] : d.ver >= x.ver
SuccessMeansStored == [][\A q \in Requests : Ends(q) => Kept(q)]_vars

\* An update that had FEB to itself can be believed, whatever earlier ones left
\* behind (ImporterRep's fields, the files of failed updates, duplicates).
AloneMeansStored == [][\A q \in Requests : Ends(q) /\ req[q].alone => Kept(q)]_vars

\* What is stored of a repository goes back, the form or the cursor, only when it
\* is deleted, by a wipe, or by someone who read the row before another saved it;
\* never by what an earlier request left (RepositoryServiceImpl.updateNotBlank
\* and save).
GoesBackOnlyByOverlap ==
  [][\A r \in Repos :
       row'[r].form < row[r].form \/ row'[r].dataXml < row[r].dataXml
         => \/ row'[r].key # row[r].key
            \/ edit.rep = r
            \/ \E q \in Requests :
                 req[q].rep = r /\ (req[q].pc = "wipe" \/ (req[q].pc = "end" /\ ~req[q].alone))]_vars

\* A repository that is deleted under an update or an edit of it does not come
\* back with their saves, nor any document of it (RepositoriesController.delete,
\* Repositorios.atualizaRepositorio); what is there again was registered again.
DeletedIsGone ==
  [][/\ \A r \in Repos : row'[r].key \in {row[r].key, NoKey, keys[r] + 1}
     /\ \A id \in Ids : \A d \in docs'[id] : row'[d.owner].key # NoKey]_vars
=============================================================================
