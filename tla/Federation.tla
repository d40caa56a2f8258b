----------------------------- MODULE Federation -----------------------------
(***************************************************************************)
(* FEB servers that federate each other (robo/atualiza/SubFederacaoOAI     *)
(* with SubRepositorios, ImporterSubfed, SubFederacao and                  *)
(* DocumentServiceImpl.save on the harvesting side, DataServiceOaiCatalog  *)
(* and DocumentServiceImpl.find on the serving side).                      *)
(*                                                                         *)
(* A server serves all of its documents, each in the set named after its   *)
(* repository, but lists as sets only its own repositories.  An update of  *)
(* a federation is one transaction: it makes the sub-repositories those    *)
(* the peer lists, then imports the documents changed since the cursor.    *)
(* An update of all federations is one transaction too, and the nightly    *)
(* robot's goes on with the harvest of the server's own repositories,      *)
(* which module Harvest describes and SaveLocal stands for here.           *)
(***************************************************************************)
EXTENDS Naturals

CONSTANTS
  Servers,    \* FEB servers
  NoServer,   \* no server
  Peers,      \* Peers[n]: the servers that n federates
  Reps,       \* the repositories the servers harvest themselves
  At,         \* At[r]: the server that harvests r
  Names,      \* names of repositories
  NoSet,      \* the set of no document
  InitNames,  \* the names at the start
  Ids,        \* identifiers of documents
  RepOf,      \* RepOf[id]: the repository it comes from
  MaxTime, MaxChanges, MaxRenames, MaxFails   \* bounds of the environment

ASSUME ServersAssumption == NoServer \notin Servers /\ Peers \in [Servers -> SUBSET Servers]

ASSUME NoSelfAssumption == \A n \in Servers : n \notin Peers[n]

ASSUME RepsAssumption ==
  At \in [Reps -> Servers] /\ InitNames \in [Reps -> Names] /\ RepOf \in [Ids -> Reps]

\* A repository is identified by its key, never by its name, on its own server.
ASSUME NamesAssumption == Reps \cap Names = {} /\ NoSet \notin Reps \cup Names

ASSUME BoundsAssumption ==
  MaxTime \in Nat /\ MaxChanges \in Nat /\ MaxRenames \in Nat /\ MaxFails \in Nat

VARIABLES
  now,       \* the clock
  names,     \* names[r]: the name of repository r, its OAI set
  latest,    \* latest[id]: the newest version at its repository
  docs,      \* docs[n]: table documentos of n, committed
  feds,      \* feds[n][p]: the row of dados_subfederacoes and its sub-repositories
  run,       \* run[n]: the update in progress on n and its transaction
  slipped,   \* history: what the stored cursor no longer vouches for
  changes, renames, fails

vars == <<now, names, latest, docs, feds, run, slipped, changes, renames, fails>>

-----------------------------------------------------------------------------
(* Data *)

Doc == [src : Servers \cup {NoServer}, set : Names \cup Reps \cup {NoSet},
        ver : Nat, created : Nat, deleted : BOOLEAN]
NoDoc == [src |-> NoServer, set |-> NoSet, ver |-> 0, created |-> 0, deleted |-> FALSE]

NoDate == 0
Fed == [ultima : BOOLEAN, dataXml : Nat, subs : SUBSET Names]
NewFed == [ultima |-> FALSE, dataXml |-> NoDate, subs |-> {}]

\* A record of a response; NoRec where the response has none.
Rec == [set : Names \cup {NoSet}, ver : Nat, deleted : BOOLEAN]
NoRec == [set |-> NoSet, ver |-> 0, deleted |-> FALSE]

Run == [kind : {"idle", "one", "all", "robo"}, apagar : BOOLEAN, todo : SUBSET Servers,
        peer : Servers \cup {NoServer}, step : {"none", "sets", "records", "import"},
        docs : [Ids -> Doc], wrote : SUBSET Ids, feds : [Servers -> Fed],
        slipped : [Servers -> SUBSET Ids], got : [Ids -> Rec], date : Nat,
        late : SUBSET Ids, poisoned : BOOLEAN, erros : SUBSET Servers]

Nothing == [id \in Ids |-> NoRec]

\* No update in progress.
Idle == [kind |-> "idle", apagar |-> FALSE, todo |-> {}, peer |-> NoServer, step |-> "none",
         docs |-> [id \in Ids |-> NoDoc], wrote |-> {}, feds |-> [p \in Servers |-> NewFed],
         slipped |-> [p \in Servers |-> {}], got |-> Nothing, date |-> NoDate,
         late |-> {}, poisoned |-> FALSE, erros |-> {}]

\* A transaction of n begins, for the updates k of the federations ps.
Opened(n, k, ps, apagar) ==
  [Idle EXCEPT !.kind = k, !.apagar = apagar, !.todo = ps,
               !.feds = feds[n], !.slipped = slipped[n]]

\* The documents of n as the transaction of its update r sees them, and that
\* transaction after it writes the documents d in the rows ids.
Seen(n, r) == [id \in Ids |-> IF id \in r.wrote THEN r.docs[id] ELSE docs[n][id]]
Written(r, ids, d) ==
  [r EXCEPT !.wrote = @ \cup ids,
            !.docs = [id \in Ids |-> IF id \in ids THEN d ELSE @[id]]]

\* The sets and the records p lists (DataServiceOaiCatalog.listSets,
\* Document.getSets): its own repositories, but all of its documents.
Listed(p) == {names[r] : r \in {q \in Reps : At[q] = p}}
SetOf(p, d) == IF d.src = p THEN names[d.set] ELSE d.set

\* Mutant of Records: the date itself is excluded.
RecordsAfter(p, from) ==
  [id \in Ids |-> IF docs[p][id].src # NoServer /\ docs[p][id].created > from
                 THEN [set |-> SetOf(p, docs[p][id]), ver |-> docs[p][id].ver,
                       deleted |-> docs[p][id].deleted]
                 ELSE NoRec]

\* The records p serves to a request from a date: what changed on it or later.
Records(p, from) ==
  [id \in Ids |-> IF docs[p][id].src # NoServer /\ docs[p][id].created >= from
                 THEN [set |-> SetOf(p, docs[p][id]), ver |-> docs[p][id].ver,
                       deleted |-> docs[p][id].deleted]
                 ELSE NoRec]

\* DocumentServiceImpl.save: the document d once record x of the repository s
\* of server p is saved.
Save(d, p, s, x) ==
  [src     |-> IF d.src = NoServer THEN p ELSE d.src,
   set     |-> IF d.src = NoServer THEN s ELSE d.set,
   ver     |-> IF x.deleted THEN 0 ELSE x.ver,
   created |-> now,
   deleted |-> d.deleted \/ x.deleted]

\* The rows ids of n, now d, are committed and the update of n becomes r.  Who
\* harvests n and is past their dates will not ask for them.
Behind(old, ids, d, cursor) == (old \ ids) \cup {id \in ids : d[id].created < cursor}
Told(q, n, ids, d) ==
  [q EXCEPT !.slipped[n] = Behind(@, ids, d, q.feds[n].dataXml),
            !.late = IF q.peer = n /\ q.step = "import" THEN Behind(@, ids, d, q.date) ELSE @]
Publish(n, ids, d, r) ==
  /\ docs' = [docs EXCEPT ![n] = [id \in Ids |-> IF id \in ids THEN d[id] ELSE @[id]]]
  /\ run' = [m \in Servers |-> IF m = n THEN r ELSE Told(run[m], n, ids, d)]

-----------------------------------------------------------------------------
Init ==
  /\ now = 1
  /\ names = InitNames
  /\ latest = [id \in Ids |-> 0]
  /\ docs = [n \in Servers |-> [id \in Ids |-> NoDoc]]
  /\ feds = [n \in Servers |-> [p \in Servers |-> NewFed]]
  /\ run = [n \in Servers |-> Idle]
  /\ slipped = [n \in Servers |-> [p \in Servers |-> {}]]
  /\ changes = 0 /\ renames = 0 /\ fails = 0

Tick ==
  /\ now < MaxTime
  /\ now' = now + 1
  /\ UNCHANGED <<names, latest, docs, feds, run, slipped, changes, renames, fails>>

\* The administrator gives a repository another name.
Rename(r, nm) ==
  /\ renames < MaxRenames
  /\ renames' = renames + 1
  /\ nm # names[r]
  /\ names' = [names EXCEPT ![r] = nm]
  /\ UNCHANGED <<now, latest, docs, feds, run, slipped, changes, fails>>

\* A harvest of the repository of id saves or deletes a new version: in a
\* transaction of its own, or in the robot's once its federations are done.
SaveLocal(id, del) ==
  LET n == At[RepOf[id]]
      d == Seen(n, run[n])[id]
      e == Save(d, n, RepOf[id], [ver |-> latest[id] + 1, deleted |-> del])
  IN  /\ changes < MaxChanges
      /\ changes' = changes + 1
      /\ ~d.deleted
      /\ del => d.src # NoServer
      /\ latest' = [latest EXCEPT ![id] = @ + 1]
      /\ \/ /\ id \notin run[n].wrote
            /\ Publish(n, {id}, [i \in Ids |-> e], run[n])
            /\ slipped' = [m \in Servers |->
                 [slipped[m] EXCEPT ![n] = Behind(@, {id}, [i \in Ids |-> e], feds[m][n].dataXml)]]
         \/ /\ run[n].kind = "robo" /\ run[n].todo = {} /\ run[n].peer = NoServer
            /\ run' = [run EXCEPT ![n] = Written(@, {id}, e)]
            /\ UNCHANGED <<docs, slipped>>
      /\ UNCHANGED <<now, names, feds, renames, fails>>

-----------------------------------------------------------------------------
(* SubFederacaoOAI.atualizaFederacao *)

\* Up to the first request: with both dates null (or made so) the documents of
\* the federation are deleted.
Enter(n, r, p, apagar) ==
  LET f == IF apagar THEN [r.feds[p] EXCEPT !.ultima = FALSE, !.dataXml = NoDate]
           ELSE r.feds[p]
      gone == IF ~f.ultima /\ f.dataXml = NoDate
              THEN {id \in Ids : Seen(n, r)[id].src = p} ELSE {}
  IN  Written([r EXCEPT !.todo = @ \ {p}, !.peer = p, !.step = "sets", !.feds[p] = f],
              gone, NoDoc)

\* The update of the current federation is over.
Left(r) == [r EXCEPT !.peer = NoServer, !.step = "none", !.got = Nothing, !.date = NoDate,
                     !.late = {}]

\* Mutant of ListSets: the documents of a removed sub-repository stay.
ListSetsKeepingDocs(n) ==
  LET r == run[n]
      p == r.peer
      gone == {}
  IN  /\ r.step = "sets"
      /\ run' = [run EXCEPT ![n] =
           Written([r EXCEPT !.step = "records", !.feds[p].subs = Listed(p),
                             !.slipped[p] = @ \cup {id \in gone :
                                docs[p][id].created < r.feds[p].dataXml}],
                   gone, NoDoc)]
      /\ UNCHANGED <<now, names, latest, docs, feds, slipped, changes, renames, fails>>

\* SubRepositorios.atualizaSubRepositorios: the sub-repositories become those
\* the peer lists; those removed take their documents with them.
ListSets(n) ==
  LET r == run[n]
      p == r.peer
      gone == {id \in Ids : Seen(n, r)[id].src = p /\ Seen(n, r)[id].set \notin Listed(p)}
  IN  /\ r.step = "sets"
      /\ run' = [run EXCEPT ![n] =
           Written([r EXCEPT !.step = "records", !.feds[p].subs = Listed(p),
                             !.slipped[p] = @ \cup {id \in gone :
                                docs[p][id].created < r.feds[p].dataXml}],
                   gone, NoDoc)]
      /\ UNCHANGED <<now, names, latest, docs, feds, slipped, changes, renames, fails>>

\* Harvester.coletaXML_ListRecords: what changed since the cursor.
ListRecords(n) ==
  /\ run[n].step = "records"
  /\ run' = [run EXCEPT ![n].step = "import", ![n].date = now,
                        ![n].got = Records(run[n].peer, run[n].feds[run[n].peer].dataXml)]
  /\ UNCHANGED <<now, names, latest, docs, feds, slipped, changes, renames, fails>>

\* ImporterSubfed.update: a record is saved in its sub-repository, ...
ImportRecord(n, id) ==
  LET r == run[n]
      x == r.got[id]
  IN  /\ r.step = "import"
      /\ x # NoRec
      /\ x.set \in r.feds[r.peer].subs
      /\ run' = [run EXCEPT ![n] =
           Written([r EXCEPT !.got[id] = NoRec], {id}, Save(Seen(n, r)[id], r.peer, x.set, x))]
      /\ UNCHANGED <<now, names, latest, docs, feds, slipped, changes, renames, fails>>

\* ... unless it cannot be read, which is only logged: the cursor will pass it ...
SkipRecord(n, id) ==
  LET r == run[n]
      x == r.got[id]
  IN  /\ r.step = "import"
      /\ x # NoRec /\ ~x.deleted
      /\ fails < MaxFails
      /\ fails' = fails + 1
      /\ run' = [run EXCEPT ![n] = [r EXCEPT !.got[id] = NoRec, !.late = @ \cup {id}]]
      /\ UNCHANGED <<now, names, latest, docs, feds, slipped, changes, renames>>

\* ... which the federation must have: the exception marks the transaction.
UnknownSet(n) ==
  LET r == run[n]
  IN  /\ r.step = "import"
      /\ \E id \in Ids : r.got[id] # NoRec /\ r.got[id].set \notin r.feds[r.peer].subs
      /\ run' = [run EXCEPT ![n] =
           Left([r EXCEPT !.poisoned = TRUE, !.erros = @ \cup {r.peer}])]
      /\ UNCHANGED <<now, names, latest, docs, feds, slipped, changes, renames, fails>>

\* Mutant of FinishFederation: a safety margin with no floor.
FinishFederationWithMargin(n) ==
  LET r == run[n]
      p == r.peer
  IN  /\ r.step = "import" /\ r.got = Nothing
      /\ run' = [run EXCEPT ![n] =
           Left([r EXCEPT !.feds[p].ultima = TRUE, !.feds[p].dataXml = r.date - 2,
                          !.slipped[p] = (IF r.feds[p].dataXml = NoDate THEN {} ELSE @)
                                            \cup r.late])]
      /\ UNCHANGED <<now, names, latest, docs, feds, slipped, changes, renames, fails>>

\* The federation is read again and its dates are stored.
FinishFederation(n) ==
  LET r == run[n]
      p == r.peer
  IN  /\ r.step = "import" /\ r.got = Nothing
      /\ run' = [run EXCEPT ![n] =
           Left([r EXCEPT !.feds[p].ultima = TRUE, !.feds[p].dataXml = r.date,
                          !.slipped[p] = (IF r.feds[p].dataXml = NoDate THEN {} ELSE @)
                                            \cup r.late])]
      /\ UNCHANGED <<now, names, latest, docs, feds, slipped, changes, renames, fails>>

\* Mutant of FederationFails: the dates are stored in a finally block.
FederationFailsStoringCursor(n, unchecked) ==
  LET r == run[n]
  IN  /\ r.peer # NoServer
      /\ fails < MaxFails
      /\ fails' = fails + 1
      /\ run' = [run EXCEPT ![n] =
           Left([r EXCEPT !.feds[r.peer].dataXml = r.date, !.poisoned = @ \/ unchecked, !.erros = @ \cup {r.peer}])]
      /\ UNCHANGED <<now, names, latest, docs, feds, slipped, changes, renames>>

\* A request, a parse or a save fails; an unchecked exception marks the
\* transaction, a checked one does not.
FederationFails(n, unchecked) ==
  LET r == run[n]
  IN  /\ r.peer # NoServer
      /\ fails < MaxFails
      /\ fails' = fails + 1
      /\ run' = [run EXCEPT ![n] =
           Left([r EXCEPT !.poisoned = @ \/ unchecked, !.erros = @ \cup {r.peer}])]
      /\ UNCHANGED <<now, names, latest, docs, feds, slipped, changes, renames>>

-----------------------------------------------------------------------------
(* The runs *)

\* FederationsController.atualizaFedAjax, one federation
StartOne(n, p, apagar) ==
  /\ run[n].kind = "idle"
  /\ p \in Peers[n]
  /\ run' = [run EXCEPT ![n] = Enter(n, Opened(n, "one", {}, FALSE), p, apagar)]
  /\ UNCHANGED <<now, names, latest, docs, feds, slipped, changes, renames, fails>>

\* ... or all of them
StartAll(n, apagar) ==
  /\ run[n].kind = "idle"
  /\ run' = [run EXCEPT ![n] = Opened(n, "all", Peers[n], apagar)]
  /\ UNCHANGED <<now, names, latest, docs, feds, slipped, changes, renames, fails>>

\* Robo.run
StartRobo(n) ==
  /\ run[n].kind = "idle"
  /\ run' = [run EXCEPT ![n] = Opened(n, "robo", Peers[n], FALSE)]
  /\ UNCHANGED <<now, names, latest, docs, feds, slipped, changes, renames, fails>>

\* SubFederacaoOAI.atualizaFederacoes: the next one of getAll()
NextFederation(n, p) ==
  /\ run[n].peer = NoServer
  /\ p \in run[n].todo
  /\ run' = [run EXCEPT ![n] = Enter(n, @, p, @.apagar)]
  /\ UNCHANGED <<now, names, latest, docs, feds, slipped, changes, renames, fails>>

\* The federations that the end of the update r of n says were not updated: those
\* the exception lists, which in the robot is logged before its transaction ends.
\* The commit of a marked transaction of an update of all throws another in its
\* place, which names none and so speaks for all of them.
Reported(n, r) == IF r.kind = "robo" \/ ~r.poisoned THEN r.erros ELSE Peers[n]

\* Mutant of EndRun: the dates are stored in a transaction of their own.
EndRunKeepingDates(n) ==
  /\ run[n].kind # "idle" /\ run[n].peer = NoServer /\ run[n].todo = {}
  /\ IF run[n].poisoned
     THEN /\ run' = [run EXCEPT ![n] = Idle]
          /\ feds' = [feds EXCEPT ![n] = run[n].feds]
          /\ UNCHANGED <<docs, slipped>>
     ELSE /\ Publish(n, run[n].wrote, run[n].docs, Idle)
          /\ feds' = [feds EXCEPT ![n] = run[n].feds]
          /\ slipped' = [m \in Servers |->
               IF m = n THEN run[n].slipped
               ELSE [slipped[m] EXCEPT ![n] =
                       Behind(@, run[n].wrote, run[n].docs, feds[m][n].dataXml)]]
  /\ UNCHANGED <<now, names, latest, changes, renames, fails>>

\* The transaction commits, or rolls back if it was marked.
EndRun(n) ==
  /\ run[n].kind # "idle" /\ run[n].peer = NoServer /\ run[n].todo = {}
  /\ IF run[n].poisoned
     THEN /\ run' = [run EXCEPT ![n] = Idle]
          /\ UNCHANGED <<docs, feds, slipped>>
     ELSE /\ Publish(n, run[n].wrote, run[n].docs, Idle)
          /\ feds' = [feds EXCEPT ![n] = run[n].feds]
          /\ slipped' = [m \in Servers |->
               IF m = n THEN run[n].slipped
               ELSE [slipped[m] EXCEPT ![n] =
                       Behind(@, run[n].wrote, run[n].docs, feds[m][n].dataXml)]]
  /\ UNCHANGED <<now, names, latest, changes, renames, fails>>

\* The server dies and restarts.
Crash(n) ==
  /\ run[n].kind # "idle"
  /\ fails < MaxFails
  /\ fails' = fails + 1
  /\ run' = [run EXCEPT ![n] = Idle]
  /\ UNCHANGED <<now, names, latest, docs, feds, slipped, changes, renames>>

-----------------------------------------------------------------------------
Environment ==
  \/ Tick
  \/ \E r \in Reps, nm \in Names : Rename(r, nm)
  \/ \E id \in Ids, del \in BOOLEAN : SaveLocal(id, del)
  \/ \E n \in Servers, p \in Servers, apagar \in BOOLEAN : StartOne(n, p, apagar)
  \/ \E n \in Servers, apagar \in BOOLEAN : StartAll(n, apagar)
  \/ \E n \in Servers, id \in Ids : SkipRecord(n, id)
  \/ \E n \in Servers, unchecked \in BOOLEAN : FederationFails(n, unchecked)
  \/ \E n \in Servers : Crash(n)

\* The steps of a run of n that has begun.
Work(n) ==
  \/ \E p \in Servers : NextFederation(n, p)
  \/ ListSets(n)
  \/ ListRecords(n)
  \/ \E id \in Ids : ImportRecord(n, id)
  \/ UnknownSet(n)
  \/ FinishFederation(n)
  \/ EndRun(n)

Next == Environment \/ \E n \in Servers : StartRobo(n) \/ Work(n)

Spec == Init /\ [][Next]_vars

\* A run is a thread of its server, and the robot's trigger fires every night.
FairSpec == Spec /\ \A n \in Servers : WF_vars(Work(n)) /\ SF_vars(StartRobo(n))

-----------------------------------------------------------------------------
(* Properties *)

\* Every variable holds a value of its type.
TypeOK ==
  /\ now \in Nat
  /\ names \in [Reps -> Names]
  /\ latest \in [Ids -> Nat]
  /\ docs \in [Servers -> [Ids -> Doc]]
  /\ feds \in [Servers -> [Servers -> Fed]]
  /\ run \in [Servers -> Run]
  /\ slipped \in [Servers -> [Servers -> SUBSET Ids]]
  /\ changes \in Nat /\ renames \in Nat /\ fails \in Nat

\* The stored document carries what a record does of the peer's: its content, or
\* its deletion and no content.
Mirrors(d, e) ==
  /\ d.src # NoServer
  /\ d.ver = IF e.deleted THEN 0 ELSE e.ver
  /\ e.deleted => d.deleted

\* n can get the document only from p: it is p's own, and the other servers n
\* federates harvest no server.
OnlyFrom(n, p, id) ==
  /\ p \in Peers[n]
  /\ At[RepOf[id]] = p
  /\ \A q \in Peers[n] \ {p} : Peers[q] = {}

\* A server mirrors what its peers committed before its cursor for them, whoever
\* failed, rolled back or restarted, but for the documents committed after the
\* cursor that passed their date, those of a repository that changed its name and
\* the records that could not be read (SubFederacaoOAI.atualizaFederacao,
\* SubFederacao.atualizaListaSubRepositorios).
OnlySlippedAreMissed ==
  \A n, p \in Servers : \A id \in Ids :
    LET e == docs[p][id]
    IN  /\ OnlyFrom(n, p, id) /\ id \notin slipped[n][p]
        /\ e.src # NoServer /\ e.created < feds[n][p].dataXml
        => Mirrors(docs[n][id], e)

\* The same with no exception: what an incremental harvest by date needs.
NothingBehindCursorIsMissed ==
  \A n, p \in Servers : \A id \in Ids :
    LET e == docs[p][id]
    IN  /\ OnlyFrom(n, p, id) /\ e.src # NoServer /\ e.created < feds[n][p].dataXml
        => Mirrors(docs[n][id], e)

\* A federated document is in a sub-repository its federation has: the update
\* removes no sub-repository without its documents and imports into none that is
\* not there (SubFederacao.atualizaListaSubRepositorios, DocumentServiceImpl.save).
SubRepositoriesExist ==
  \A n \in Servers, id \in Ids :
    docs[n][id].src \in Peers[n] => docs[n][id].set \in feds[n][docs[n][id].src].subs

\* The federations that an update of all, the administrator's or the robot's, does
\* not report are updated: their new cursors are stored when its transaction ends
\* (SubFederacaoOAI.atualizaFederacoes: "a lista de federacoes que nao foram
\* atualizadas por algum erro").
UnreportedAreUpdated ==
  [][\A n \in Servers :
       run[n].kind \in {"all", "robo"} /\ run'[n].kind = "idle" /\ fails' = fails
         => \A p \in Peers[n] \ Reported(n, run[n]) : feds'[n][p] = run[n].feds[p]]_vars

\* A server keeps coming to mirror all that its peers have and that did not slip,
\* whatever failed, rolled back or restarted before: no failure is final
\* (SubFederacaoOAI.atualizaFederacao: "Atualiza a subfederacao informada").
Federated ==
  \A n, p \in Servers : \A id \in Ids :
    OnlyFrom(n, p, id) /\ docs[p][id].src # NoServer /\ id \notin slipped[n][p]
      => Mirrors(docs[n][id], docs[p][id])
AlwaysFederatedAgain == []<>Federated
=============================================================================
