---------------------------- MODULE SearchIndex ----------------------------
(***************************************************************************)
(* The rebuilding of the search index (Indexador.populateR1), by the       *)
(* nightly robot inside its transaction (Robo.run) and by administrators   *)
(* (AdminController.recalcularIndice), while updates write documents.      *)
(*                                                                         *)
(* A rebuild erases the index, then reads the documents page by page, by   *)
(* offset, and adds each page.  The robot reads its own documents, which   *)
(* others see when its transaction commits; if it does not, the index      *)
(* already has them.                                                       *)
(*                                                                         *)
(* The query has no order.  Its rows are taken to come in the order the    *)
(* table stores them, where a new version of a row goes anywhere.          *)
(***************************************************************************)
EXTENDS Naturals, Sequences, SequencesExt, Sifting

CONSTANTS
  Ids,        \* documents
  Loaded,     \* the documents at the start, as the table stores them
  Admins,     \* threads of administrators
  Robot,      \* the thread of the robot
  NoOne,      \* no thread
  numMaxDoc,  \* documents per page
  MaxWrites,  \* bound on the writes of documents
  MaxRebuilds,\* bound on the rebuilds of administrators
  MaxFails    \* bound on failures

ASSUME PageAssumption == numMaxDoc \in Nat \ {0}
ASSUME ThreadsAssumption == Robot \notin Admins /\ NoOne \notin Admins \cup {Robot}
ASSUME LoadedAssumption == Loaded \in Seq(Ids) /\ IsInjective(Loaded)

VARIABLES
  heap,     \* table documentos: the documents that are not deleted
  index,    \* the index of Solr: documents as they were added
  build,    \* build[b]: the rebuild in progress in thread b
  night,    \* the robot: away, importing, or past its imports
  last,     \* history: who erased the index last, until the robot ends,
  complete, \*   whether that rebuild has come to its end,
  covered,  \*   and whether nothing was committed since, or left to add, that it does not see
  writes, rebuilds, fails

vars == <<heap, index, build, night, last, complete, covered, writes, rebuilds, fails>>
bounds == <<writes, rebuilds, fails>>

-----------------------------------------------------------------------------
(* Data *)

Builders == Admins \cup {Robot}
Doc == [id : Ids, ver : Nat]

\* A row; own marks what the robot has not committed yet, a version or (ver 0) a
\* deletion.
Row == [id : Ids, ver : Nat, own : BOOLEAN]
CommittedRows == {r \in Row : ~r.own}

Build == [step : {"idle", "erase", "fetch", "add", "end"}, page : Nat, docs : SUBSET Doc, more : BOOLEAN]
Idle == [step |-> "idle", page |-> 0, docs |-> {}, more |-> FALSE]

Tombstone(id) == [id |-> id, ver |-> 0, own |-> TRUE]
Owned == {heap[i].id : i \in {j \in DOMAIN heap : heap[j].own}}

\* The rows thread b reads: the robot its own instead of those they replace.
View(b) ==
  Sift(heap, IF b = Robot THEN {r \in Row : (r.own /\ r.ver # 0) \/ r.id \notin Owned}
             ELSE CommittedRows)
Contents(rows) == {[id |-> rows[i].id, ver |-> rows[i].ver] : i \in DOMAIN rows}
Docs(b) == Contents(View(b))
Committed == Contents(Sift(heap, CommittedRows))

\* Page p of the documents, and whether there is a next one.
PageOf(rows, p) ==
  SubSeq(rows, p * numMaxDoc + 1,
         IF Len(rows) < (p + 1) * numMaxDoc THEN Len(rows) ELSE (p + 1) * numMaxDoc)
\* Mutant of HasNext: only whole pages count.
HasNextWhole(rows, p) == (p + 2) * numMaxDoc <= Len(rows)
HasNext(rows, p) == (p + 1) * numMaxDoc < Len(rows)

\* Mutant of NextPage: the pages are turned back.
PreviousPage(p) == p - 1
NextPage(p) == p + 1

\* The index once docs are added: a document replaces the one of its id.
Added(docs) == {d \in index : \A e \in docs : e.id # d.id} \cup docs

Running(b) == build[b].step \notin {"idle", "erase", "end"}

-----------------------------------------------------------------------------
Init ==
  /\ heap = [i \in DOMAIN Loaded |-> [id |-> Loaded[i], ver |-> 1, own |-> FALSE]]
  /\ index = {}
  /\ build = [b \in Builders |-> Idle]
  /\ night = "away"
  /\ last = NoOne /\ complete = FALSE /\ covered = FALSE
  /\ writes = 0 /\ rebuilds = 0 /\ fails = 0

\* The rows in which the new version of document id, of the robot or not, has
\* replaced the one its writer saw; the robot leaves the committed one to others.
Placed(id, own) ==
  LET rest == Sift(heap, {r \in Row : r.id # id \/ (own /\ ~r.own)})
      row == [id |-> id, ver |-> writes + 2, own |-> own]
  IN  {InsertAt(rest, i, row) : i \in 1..(Len(rest) + 1)}

\* An update saves a document; it waits for the robot if that has it.
Save(id) ==
  /\ writes < MaxWrites
  /\ writes' = writes + 1
  /\ id \notin Owned
  /\ heap' \in Placed(id, FALSE)
  /\ covered' = FALSE
  /\ UNCHANGED <<index, build, night, last, complete, rebuilds, fails>>

\* A document is deleted.
Delete(id) ==
  /\ writes < MaxWrites
  /\ writes' = writes + 1
  /\ id \notin Owned
  /\ id \in {heap[i].id : i \in DOMAIN heap}
  /\ heap' = Sift(heap, {r \in Row : r.id # id})
  /\ covered' = FALSE
  /\ UNCHANGED <<index, build, night, last, complete, rebuilds, fails>>

-----------------------------------------------------------------------------
(* Robo.run *)

NightBegins ==
  /\ night = "away"
  /\ night' = "imports"
  /\ UNCHANGED <<heap, index, build, last, complete, covered, bounds>>

\* The updates of federations and repositories write documents.
NightSaves(id) ==
  /\ night = "imports"
  /\ writes < MaxWrites
  /\ writes' = writes + 1
  /\ heap' \in Placed(id, TRUE)
  /\ UNCHANGED <<index, build, night, last, complete, covered, rebuilds, fails>>

\* A record that is deleted, or one document of a repository that is wiped.
NightDeletes(id) ==
  /\ night = "imports"
  /\ writes < MaxWrites
  /\ writes' = writes + 1
  /\ \E d \in Docs(Robot) : d.id = id
  /\ heap' = Append(Sift(heap, {r \in Row : r.id # id \/ ~r.own}), Tombstone(id))
  /\ UNCHANGED <<index, build, night, last, complete, covered, rebuilds, fails>>

\* Mutant of NightRebuilds: a night without news does not rebuild.
NightRebuildsNews ==
  /\ night = "imports"
  /\ night' = "indexes"
  /\ build' = [build EXCEPT ![Robot] = [Idle EXCEPT !.step = IF Owned # {} THEN "erase" ELSE "end"]]
  /\ UNCHANGED <<heap, index, last, complete, covered, bounds>>

\* The federations and the repositories are up to date: the index is rebuilt.
NightRebuilds ==
  /\ night = "imports"
  /\ night' = "indexes"
  /\ build' = [build EXCEPT ![Robot] = [Idle EXCEPT !.step = "erase"]]
  /\ UNCHANGED <<heap, index, last, complete, covered, bounds>>

\* The transaction commits.
NightCommits ==
  /\ build[Robot].step = "end"
  /\ LET rows == View(Robot) IN heap' = [i \in DOMAIN rows |-> [rows[i] EXCEPT !.own = FALSE]]
  /\ covered' = (covered /\ (last = Robot \/ Owned = {}))
  /\ build' = [build EXCEPT ![Robot] = Idle]
  /\ last' = IF last = Robot THEN NoOne ELSE last
  /\ night' = "away"
  /\ UNCHANGED <<index, complete, bounds>>

\* The transaction does not commit, because one of its updates failed or the
\* server stopped: but the index stays as it is.
NightRollsBack ==
  /\ night # "away"
  /\ fails < MaxFails
  /\ fails' = fails + 1
  /\ heap' = Sift(heap, CommittedRows)
  /\ covered' = (covered /\ (last # Robot \/ Owned = {}))
  /\ build' = [build EXCEPT ![Robot] = Idle]
  /\ last' = IF last = Robot THEN NoOne ELSE last
  /\ night' = "away"
  /\ UNCHANGED <<index, complete, writes, rebuilds>>

-----------------------------------------------------------------------------
(* Indexador.populateR1 *)

\* AdminController.recalcularIndice
AdminRebuilds(b) ==
  /\ build[b].step = "idle"
  /\ rebuilds < MaxRebuilds
  /\ rebuilds' = rebuilds + 1
  /\ build' = [build EXCEPT ![b] = [Idle EXCEPT !.step = "erase"]]
  /\ UNCHANGED <<heap, index, night, last, complete, covered, writes, fails>>

\* Mutant of Erase: the documents are added to what is there.
EraseNot(b) ==
  /\ build[b].step = "erase"
  /\ build' = [build EXCEPT ![b].step = "fetch"]
  /\ last' = b /\ complete' = FALSE
  /\ covered' = \A o \in Builders \ {b} : Running(o) => Docs(o) = Docs(b) /\ build[o].docs \subseteq Docs(b)
  /\ UNCHANGED <<heap, index, night, bounds>>

\* The index is erased.
Erase(b) ==
  /\ build[b].step = "erase"
  /\ index' = {}
  /\ build' = [build EXCEPT ![b].step = "fetch"]
  /\ last' = b /\ complete' = FALSE
  /\ covered' = \A o \in Builders \ {b} : Running(o) => Docs(o) = Docs(b) /\ build[o].docs \subseteq Docs(b)
  /\ UNCHANGED <<heap, night, bounds>>

\* A page is read ...
Fetch(b) ==
  /\ build[b].step = "fetch"
  /\ build' = [build EXCEPT ![b].step = "add",
                            ![b].docs = Contents(PageOf(View(b), build[b].page)),
                            ![b].more = HasNext(View(b), build[b].page)]
  /\ UNCHANGED <<heap, index, night, last, complete, covered, bounds>>

\* ... and added; after the last one the rebuild is over.
Add(b) ==
  /\ build[b].step = "add"
  /\ index' = Added(build[b].docs)
  /\ build' = [build EXCEPT ![b].step = IF build[b].more THEN "fetch" ELSE "end",
                            ![b].page = NextPage(@), ![b].docs = {}]
  /\ complete' = (complete \/ (last = b /\ ~build[b].more))
  /\ UNCHANGED <<heap, night, last, covered, bounds>>

\* The administrator gets the page with the result.
AdminEnds(b) ==
  /\ build[b].step = "end"
  /\ build' = [build EXCEPT ![b] = Idle]
  /\ UNCHANGED <<heap, index, night, last, complete, covered, bounds>>

\* Solr fails: the robot goes on to its end.
SolrFails(b) ==
  /\ build[b].step \in {"erase", "add"}
  /\ fails < MaxFails
  /\ fails' = fails + 1
  /\ build' = [build EXCEPT ![b] = IF b = Robot THEN [Idle EXCEPT !.step = "end"] ELSE Idle]
  /\ UNCHANGED <<heap, index, night, last, complete, covered, writes, rebuilds>>

-----------------------------------------------------------------------------
Step(b) == Erase(b) \/ Fetch(b) \/ Add(b)

Next ==
  \/ \E id \in Ids : Save(id) \/ Delete(id) \/ NightSaves(id) \/ NightDeletes(id)
  \/ NightBegins \/ NightRebuilds \/ NightCommits \/ NightRollsBack
  \/ \E b \in Admins : AdminRebuilds(b) \/ AdminEnds(b)
  \/ \E b \in Builders : Step(b) \/ SolrFails(b)

Spec == Init /\ [][Next]_vars

\* The robot's thread starts every night and goes on, and so does a rebuild of
\* an administrator once started.
FairSpec ==
  /\ Spec
  /\ WF_vars(NightBegins \/ NightRebuilds \/ NightCommits \/ Step(Robot))
  /\ \A b \in Admins : WF_vars(Step(b))

-----------------------------------------------------------------------------
(* Properties *)

\* Every variable holds a value of its type.
TypeOK ==
  /\ heap \in Seq(Row)
  /\ index \in SUBSET Doc
  /\ build \in [Builders -> Build]
  /\ night \in {"away", "imports", "indexes"}
  /\ last \in Builders \cup {NoOne} /\ complete \in BOOLEAN /\ covered \in BOOLEAN
  /\ writes \in Nat /\ rebuilds \in Nat /\ fails \in Nat

\* The rebuild that erased the index last leaves in it what it sees of the
\* table, each document once and as it is, however many other rebuilds were and
\* are under way; unless documents were written meanwhile (Indexador.populateR1).
IndexIsTheTable ==
  complete /\ covered =>
    index = IF last = Robot THEN Docs(Robot) ELSE Committed

\* Whatever was written, whatever failed, rolled back or overlapped, the index
\* gets to be what the table is: the robot rebuilds it every night (Robo.run).
IndexCatchesUp == []<>(index = Committed)
=============================================================================
