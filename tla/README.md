# FEB in TLA+

FEB is the server of a federation of learning-object repositories: it harvests
repositories and other FEB servers by OAI-PMH into one database, keeps a Solr
index of it, answers searches, and is itself an OAI-PMH provider.  This
directory holds TLA+ models of its Java code, the TLC configurations that check
them on small instances, and TLAPS proofs.  Paths below are relative to
`src/src/src/main/java/com/cognitivabrasil/feb/`.

## The system

| Component | Code | State | Operations |
|---|---|---|---|
| Incremental harvest of repositories | `robo/atualiza/Repositorios`, `importaOAI/ImporterRep`, `harvesterOAI/Harvester`, `data/entities/UpdateData`, `data/services/DocumentServiceImpl` | tables `documentos`, `repositorios` (dates, cursor, sets); the entity in the session of the request; response files in a temporary directory | register, edit, delete, update one (with or without a wipe), update all |
| Update of federations | `SubFederacaoOAI`, `subfedOAI/*`, `SubFederacao`, `FederationServiceImpl` | `dados_subfederacoes`, `repositorios_subfed`, `documentos` | update one or all, synchronise the sub-repositories |
| Nightly robot | `robo/Robo` | one transaction around the whole night | federations, repositories, index, clean-up |
| Index rebuild | `ferramentaBusca/indexador/Indexador`, `AdminController` | the Solr index | empty and refill, page by page |
| OAI-PMH provider | `oai/DataServiceOaiCatalog`, `DocumentServiceImpl.find/count` | `documentos` by `created` | list sets, list records by offset |
| Users | `UsersController`, `UserValidator`, `UserServiceImpl` | `usuarios` | create, edit, delete |
| Tag cloud and searches | `TagCloudServiceImpl`, `SearchServiceImpl`, `StatisticsController` | `searches`, a cache of five minutes | get, save a search, delete, clean |
| Configuration | `spring/FebConfig` | a properties file | load, save, update |
| Pagination | `spring/dtos/PaginationDto` | none | the window of page links |
| Search, forms, RSS, logs, mappings, wiring | the rest | none, or one row at a time | |

Interaction.  The administrator's controllers and the robot call the same
singleton services from different threads.  An update talks to providers by
HTTP, writes each response to a file, imports the files and writes the tables;
the robot does all of it inside one transaction and then rebuilds the index
from what it sees.  The OAI-PMH provider and the searches read the same tables
and index meanwhile.  Another FEB harvests this one through the provider.

What is hard.  The cursor protocol between a harvester and a provider whose
records change during an update; partial failures, since an update is many
transactions (administrator) or one that may be rolled back at the end (robot);
checked exceptions, which commit; a shared temporary directory and a shared
importer; offset paging over rows that move; caches.

What makes each component correct:

* harvest: what is behind the cursor is in the database; content never goes
  backwards; every document belongs to a repository that serves it; FEB always
  catches up again;
* federations: the same, and the sub-repositories are those the peer lists; a
  failed update of one federation does not spoil the others;
* robot: all or nothing, and the index agrees with the database afterwards;
* provider: a harvester that follows the tokens and the dates misses nothing;
* users: one administrator always remains, logins are unique;
* tag cloud: never older than five minutes, nothing deleted comes back;
* configuration: a load after any save, stop or restart gives the old or the new
  values; pagination: the window holds the current page and stays within bounds.

## Modules

| Module | Role |
|---|---|
| `Mirror` | what an incremental harvest owes its providers: the abstract specification |
| `Harvest` | the incremental harvest of repositories, with the robot's transaction around it; implements `Mirror` |
| `MCHarvest` | instances of `Harvest` for TLC |
| `HarvestProofs` | theorems about `Harvest`, checked by TLAPS |
| `HarvestRefinement` | `Harvest` implements `Mirror`, and what else follows from its invariant |
| `Overlap` | updates of repositories that run at the same time; edits, deletions and registrations beside them |
| `MCOverlap` | an instance of `Overlap` |
| `OverlapProofs` | theorems about `Overlap` |
| `Federation` | FEB servers that federate each other: harvester, provider, transactions |
| `MCFederation` | instances of `Federation`: who federates whom |
| `FederationProofs` | theorems about `Federation` |
| `Provider` | the OAI-PMH provider, page by page, and a client that follows its tokens |
| `MCProvider` | an instance of `Provider` |
| `ProviderProofs` | theorems about `Provider` |
| `SearchIndex` | rebuilds of the index, by the robot and by administrators, while documents change |
| `MCSearchIndex` | an instance of `SearchIndex` |
| `SearchIndexProofs` | theorems about `SearchIndex` |
| `Sifting`, `SiftingProofs` | the elements of a sequence that are in a set, in their order, and the facts about it |
| `Pagination` | the window of page links, and the theorem about it |

Each module takes one boundary of the system.  `Harvest` and `Federation` hold
everything that happens around one update at a time; `Overlap` opens up the steps
that `Harvest` takes at once (the importer's fields, the directory, the look-up
and the insertion) and lets updates interleave in them; `Provider` opens up the
response that `Harvest` and `Federation` take for granted; `SearchIndex` is what
reads the table the others write.

### Harvest

An update of a repository asks for every record changed since the cursor
`data_xml`, one request per response, then imports the files and stores the
`responseDate` of the last one as the next cursor.

| Variable | In the code |
|---|---|
| `docs` | `documentos` by `obaa_entry`: owner, version of the content (0: none), deleted mark |
| `ultima`, `dataXml`, `colecoes` | the columns of `repositorios` |
| `kind`, `todo`, `rep` | which call is running (`atualizaFerramentaAdm(id > 0)`, `(0)`, `Robo.run`), the repositories left in its loop, the current one |
| `mem` | the dates of the current entity; every transaction of the update writes them back, since the session of the request holds the entity |
| `pending`, `files`, `temp` | responses to request, `caminhoXML` with the files' contents, `dataXmlTemp` |
| `saved`, `poisoned` | what the robot's transaction found; whether it can only roll back |
| `prov`, `now` | the providers and their clock (external) |
| `late`, `slipped` | history only, see below |

Actions: `StartOne`, `StartAll`, `StartRobo` are the three entry points;
`Next1` is the head of the loop over the repositories; `Enter` (part of
`StartOne` and `Next1`) is `atualizaRepositorio` up to the first request, with
the wipe and its swallowed failure; `Fetch` one ListRecords request;
`ImportRecord` one turn of `ImporterRep.update`; `FinishFile` its end;
`FinishRepository` the successful end of the update; `UpdateFails` any of its
`catch` blocks; `EndRun` the commit or the rollback; `Crash` a stop of the
server.  `EditRepository` is the administrator's form, of which only the sets are
modelled: a new URL or prefix keeps the cursor too, but the provider of a repository is
fixed here.

Providers are abstracted to `Pages`: a fixed list of responses, each with the
repository, the OAI set and the identifiers it may list.  A record is a version
number, a date stamp and a status; `broken` stands for a record whose metadata
cannot be read.  A resumed list is several pages of one set, overlapping sets are
pages with a common identifier.  Requests of one update are made in any order
(the code iterates over a hash set).

Records that slip.  The cursor is the date of the *last* response.  A record that
changes after the last response that lists it, and before that date, is behind
the cursor and never asked for again; so is a record of a set that is added to a
repository later.  `slipped` collects exactly those, at the two places where it
happens, and loses a record when it changes again or the repository is harvested
from scratch.  `OnlySlippedAreMissed` says that nothing else is ever missed;
`NothingBehindCursorIsMissed` has no exception and holds for providers that
answer in one response when no set is added.

`Mirror` says the same from outside, without cursors, files or transactions: a
record is *fresh*, *due* (the next update asks for it), *lost*, or *out* of what
FEB should have.  Only an update that ends well may lose a record, and only one
that was due and changed while the update ran; a failure, a crash and a rollback
lose none.  An import may leave the record it writes due, when the
record changed since its response, and may make due again one that was lost: a
document deleted, published again and deleted once more.  The refinement is `Outside!Spec` of `Harvest`: `Status` computes
the status of a record from the tables, the cursor and the sets; an update is
active from `Enter` to its end; an import of a record that is not due, a request
and the bookkeeping of a run are stuttering.

### Overlap

Nothing joins two requests of the administrator, so that two updates may run at
once, and an edit or a deletion beside them.

| Variable | In the code |
|---|---|
| `docs[id]` | the rows of `documentos` with that `obaa_entry`: none, one, or more |
| `row[r]`, `keys[r]` | the row of `repositorios` with that name: primary key (0: no row), the form's fields as a number, the dates; the sequence of the keys |
| `disk[r]` | the file `FEB-...xml` of the repository in the temporary directory |
| `imp` | the fields `inputXmlFile`, `rep`, `oai` of the one `ImporterRep` that `Repositorios` holds |
| `req[q]` | the stack of `atualizaRepositorio` in thread `q`: its step, entity, `dataXmlTemp`, loop index, the document that was not found |
| `edit` | `updateNotBlank` between its read and its save |
| `prov`, `now` | the providers and their clock (external) |
| `solid`, and `got`, `alone`, `full` in `req` | history only |

`Begin` and `Wipe` are the head of the update, `Empty` the loop over the directory,
`Fetch` the request, `Open` the test of the file and `setInputFile`,
`SetRepositorio` and `Parse` the next two calls, `Save` and `Insert` the two halves
of `DocumentServiceImpl.save`, `SetDataXmlTemp` the end of `ImporterRep.update`
(on whatever entity the importer has then) and `End` the final save.
`UpdateFails` and `Crash` may happen in every step.
`Delete` and `Register` are the other two operations on a repository.  The session of
a request holds its entity (`WebConfig`), so that the save of an entity whose row is
gone fails (`EndGone`, and the failing cases of `Save` and `Insert`); a wipe swallows
that failure as it does others.  A name registered again is another row.  With two rows of one
`obaa_entry`, `findByObaaEntry` fails, and with it the update.

A success proves nothing while another update runs (`overlap_success`), so the
other properties say what can be relied on: an update that has FEB to itself is
not misled by anything earlier ones left behind (`AloneMeansStored`), a full one
repairs its repository (`FullUpdateRepairs`), and what is stored of a repository
goes back only through someone who read it before (`GoesBackOnlyByOverlap`), and a
repository that is deleted meanwhile stays so (`DeletedIsGone`).

What a provider answers is `Sift` of its list: module `Sifting` writes `SelectSeq` of
the standard modules as a recursive function, since nothing can be proved about the
`RECURSIVE` operator; `SiftIsSelectSeq`, an assumption of `MCSearchIndex`, has TLC
compare the two.

### Federation

Several FEB servers, each of which harvests repositories and the servers it
federates, and serves what it has to those that federate it.

| Variable | In the code |
|---|---|
| `docs[n]` | `documentos` of server `n`, committed: the federation a document is of (or `n` itself), its set (the key of the repository, or the name of the sub-repository), content, `created` |
| `feds[n][p]` | the row of `dados_subfederacoes` for `p` and its `repositorios_subfed` |
| `names` | the names of the repositories, which are their OAI sets |
| `run[n]` | the update in progress and its transaction: what it wrote (`docs`, `wrote`, `feds`), the federations left, the current one and its step, the response in hand, `poisoned` (rollback-only) and `erros` |
| `latest`, `now` | the repositories and the clock (external) |
| `slipped`, `late` | history only |

`StartOne`, `StartAll` and `StartRobo` are the entry points, each of which opens
the one transaction of the run; `NextFederation` and `Enter` are
`atualizaFederacao` up to the first request, with the wipe; `ListSets` is
`SubRepositorios.atualizaSubRepositorios` (request, parse and synchronisation);
`ListRecords` the harvest; `ImportRecord` one turn of `ImporterSubfed.update`, and
`SkipRecord` one with a record that cannot be read, which is only logged;
`UnknownSet` the exception of `DocumentServiceImpl.save` for a record of a set that
is no sub-repository; `FinishFederation` the dates; `FederationFails` any other
exception, checked or not; `EndRun` the commit, or the rollback of a marked
transaction; `Crash` a stop of the server.  `SaveLocal` stands for module
`Harvest`, in a transaction of its own or in the robot's.  `Rename` is the
administrator's form.

A document is stamped with the time of its import (`header.setDatestamp`) and seen
by other servers when its transaction commits.  Whoever asked for a later date in
between never asks for it: this is one of three ways to slip.  Another is a
renaming: the documents of the old sub-repository are removed and those of the new
one are older than the cursor.  The third is a record that cannot be read, which the
new cursor passes.  `slipped` collects exactly these.  A server serves
a list in one response here; its pages are in `Provider`.

`Reported` is what the end of a run tells of its federations.  The robot logs the list
of the exception before its transaction ends; so does the administrator's update of all,
but there the transaction ends first if it is marked, with an exception of its own
(`UnexpectedRollbackException`), and the answer is a general error, which says of no
federation that it was updated.  `UnreportedAreUpdated` asks that the others were.

`OnlySlippedAreMissed` speaks of documents that a server can only get from one peer
(`OnlyFrom`), since the first to bring an identifier keeps it
(`DocumentServiceImpl.getWithoutId`).

### Provider

A response to ListRecords is two queries, `find` and `count`, each of its own
transaction; the token says how many records were listed, and holds no state at the server.

| Variable | In the code |
|---|---|
| `created[id]` | the committed `documentos.created`, in ticks of a fraction of a second |
| `written`, `stamp` | the rows that open transactions hold, and the date each gave its row (none: deleted) |
| `list` | the list a client follows: its interval, `oldCount` of its token, the page in hand, what it got so far |
| `copy`, `cursor` | what the client stored, and where it asks next |
| `moves`, `late`, `again` | history only |

`ListRecords` begins a list, from the cursor on or for an interval that is over;
`Find` is `DocumentServiceImpl.find` (the page is `oldCount / maxListSize`), `Resume`
and `Finish` are `count` and the token or the end of the list; `Fail` gives it up.
`Import` dates a document now and `Wipe` deletes those of a repository; neither is
seen before the `Commit` of its transaction, which for the robot comes hours later.
A transaction is the set of rows that end together: any subset of those written, so
that one of a single document (an administrator's update) and one of a whole night are
both there.  Documents of the same date come in any order, in each query anew.

`LossesAreAccountedFor` is what paging by offset can promise, at all bounds of seconds
and intervals.  A list that ends loses at most as many documents as the history counts:

* `moves`: documents that left their place in it, since a new date puts a document at
  the end of the order and a wipe takes it out;
* `late`: documents committed where the list had passed, since they were dated before;
* `again`: places that a page gave again.  A commit between the two queries of a response
  leaves the token inside a page, and the division in `find` returns that page a second
  time; or a page ends between documents of one date, which the next query may order
  the other way.

Any other step loses only what it commits behind the cursor.  The last is no rare event:
what the robot imports is dated hours before it is seen, and a client that asks
meanwhile goes past it (`Federation` follows what becomes of it).  The OAI library is
taken to read the clock for the response date when the request arrives, and to write a
token when the count is above what was listed.

### SearchIndex

| Variable | In the code |
|---|---|
| `heap` | the rows of `documentos`, in the order the database returns them; `own` marks those the robot has not committed |
| `index` | the documents in Solr |
| `build[b]` | `Indexador.populateR1` in a thread: the page it is at, the documents read and not added, `hasNext` |
| `night` | where the robot is |
| `last`, `complete`, `covered` | history only |

`Erase`, `Fetch` and `Add` are the steps of a rebuild; `AdminRebuilds` and
`AdminEnds` `AdminController.recalcularIndice`; `NightBegins`, `NightSaves`,
`NightDeletes`, `NightRebuilds`, `NightCommits` and `NightRollsBack` `Robo.run`; `Save`
and `Delete` the updates of others.  The robot reads its own rows, the others the
committed ones; what the robot deletes is a row of version 0 that hides the committed one
from it alone.  The query has no order: rows are taken to come as the table stores them,
where the new version of a row goes anywhere, but rows that nobody writes keep
their order.  A Solr failure ends an administrator's rebuild; the robot goes on.

`IndexIsTheTable` holds when the rebuild that erased last has ended and nothing was
written since it erased; another rebuild may add its pages meanwhile.  A write between
two pages moves the rows under the offset, so that documents are left out or come twice:
`IndexIsTheTable` promises nothing then.  Whatever happened, `IndexCatchesUp` by the next
quiet night.

### Pagination

`PaginationDto.getPages` is a function of the current page and the number of results.
`GetPages` is empty when one page holds them all, and otherwise `Links`, the union of the
sets its loops collect; `First` and `Last` are the window a reader expects.

## Runs

| Run | Instance | Shows |
|---|---|---|
| `harvest_sets` | 1 provider, 2 overlapping sets, 3 changes, clock 2, 1 failure | `TypeOK`, `OnlySlippedAreMissed`, `ImplementsMirror`, `NeverRegresses` |
| `harvest_two` | 2 providers with 1 response each that share an identifier, 2 changes, 1 failure, with fairness | `NothingBehindCursorIsMissed`, `OwnersServe`, `AlwaysMirroredAgain` |
| `harvest_resumed` | 1 provider, 2 responses by token | counterexample to `NothingBehindCursorIsMissed` |
| `harvest_republished` | the same | counterexample to `ContentIsVisible` |
| `overlap` | 2 repositories, 2 requests, 1 overlap, 1 change, 1 edit, deletion, failure or crash | `TypeOK`, `FullUpdateRepairs`, `AloneMeansStored`, `GoesBackOnlyByOverlap`, `DeletedIsGone` |
| `overlap_success` | the same without edits, deletions and failures | counterexample to `SuccessMeansStored` |
| `fed_pair` | A federates B; B's repository may be renamed once; 2 records, 2 changes, clock 2, 1 failure, with fairness | `TypeOK`, `OnlySlippedAreMissed`, `SubRepositoriesExist`, `AlwaysFederatedAgain` |
| `fed_star` | A federates B and C, 1 change, 1 failure | `OnlySlippedAreMissed` across federations that share a transaction |
| `fed_errors` | as `fed_star` | counterexample to `UnreportedAreUpdated`, in the robot |
| `fed_mutual` | A and B federate each other, no failure, with fairness | counterexample to `AlwaysFederatedAgain` |
| `provider` | 3 documents of 2 repositories, 2 to a page, 2 imports, 1 wipe, commits and rollbacks, seconds of 2 ticks, with fairness | `TypeOK`, `LossesAreAccountedFor`, `ListEnds` |
| `search_index` | robot and 1 administrator, 3 documents, 2 to a page, 2 writes, 1 rebuild beside the robot's, 1 failure, with fairness | `TypeOK`, `IndexIsTheTable`, `IndexCatchesUp` |

Bounds.  `MaxTime`, `MaxChanges` and `MaxFails` bound the clock, the changes and
the failures; runs of updates are not bounded.  A record that slips takes one
change, two responses and two dates; a wipe that fails half way takes one failure;
a regression takes two versions and two responses; a deletion and
re-publication takes three changes.  The bounds allow each of these with one
change or one date to spare.  In `Federation`, `MaxRenames` bounds the renamings
too; a document that slips behind a late commit takes one change and two dates,
one that slips by renaming the same and one renaming, a record of an unknown set
one renaming between two requests or a second federation, and what one federation
does to another two peers and one failure.  In `Overlap`, `MaxOverlaps` bounds the
updates that begin while another runs and `MaxEvents` the edits, deletions,
failures and crashes: a lost file, a foreign response or a double insertion takes one overlap, a
failure that leaves something behind one event, and a stale row one edit.  The
requests are interchangeable, and so are the repositories with their records, which
the run uses as symmetry; it checks no liveness.  In `Provider` a list of three
documents is two pages; a document that leaves its place takes one import or one wipe
and its commit between them, one that is committed late an import before the list, one
that comes between the two queries the same; a second import tells a loss for each from a
loss for all, and two ticks of a second a date from its second.  In
`SearchIndex` pages of two documents of three make an offset that moves; a
rebuild beside the robot's lets either erase in the middle of the other.  Deadlock is checked in every run: the server is
never stuck.

Fairness.  `FairSpec` assumes that a run that has begun goes on (`WF_vars(Work)`:
it is a thread) and that the robot starts when it is possible again and again
(`SF_vars(StartRobo)`: it is a cron trigger, and runs are finite).  Nothing is
assumed of the administrator, the providers or the failures; failures are
finite by `MaxFails`, without which no update need ever succeed.  The fairness of
`Federation` is the same for each server: its run goes on, and its robot starts.
In `Provider` the client follows its tokens (`Harvester`'s loop); in `SearchIndex`
the robot is one thread, which starts, goes on and ends, and each administrator's
rebuild another.  Imports, writes, edits and
rebuilds of administrators are never assumed.

## Proofs

Each theorem holds for all values of the constants that satisfy the assumptions
named in the component's module; the bounds on the environment are such constants,
so that what TLC checks of a few steps is proved of any number.  Every invariant
below was checked with TLC on the component's instances before it was proved.

| Module | Theorem | States |
|---|---|---|
| `HarvestProofs` | `TypeCorrect`, `InvCorrect` | `[]TypeOK`, `[]IInv` |
| | `HarvestComplete`, `OwnersAlwaysServe` | `[]OnlySlippedAreMissed`, `[]OwnersServe` |
| `HarvestRefinement` | `HarvestImplementsMirror` | `ImplementsMirror` |
| | `HarvestNeverRegresses` | `NeverRegresses` |
| | `OneResponseMissesNothing` | `[]NothingBehindCursorIsMissed`, of providers with one response |
| `FederationProofs` | `TypeCorrect`, `InvCorrect` | `[]TypeOK`, `[]IInv` |
| | `SubRepositoriesAlwaysExist` | `[]SubRepositoriesExist` |
| | `OnlySlippedAreEverMissed` | `[]OnlySlippedAreMissed`, whoever federates whom |
| `OverlapProofs` | `OverlapTypeCorrect` | `[]TypeOK` |
| | `OverlapDeletedIsGone` | `DeletedIsGone` |
| | `OverlapFullUpdateRepairs` | `[]FullUpdateRepairs` |
| | `OverlapAloneMeansStored` | `AloneMeansStored` |
| | `OverlapGoesBackOnlyByOverlap` | `GoesBackOnlyByOverlap` |
| `ProviderProofs` | `ProviderTypeCorrect` | `[]TypeOK` |
| | `ProviderLossesAreAccountedFor` | `LossesAreAccountedFor` |
| `SearchIndexProofs` | `SearchIndexTypeCorrect`, `SearchIndexIsTheTable` | `[]TypeOK`, `[]IndexIsTheTable` |
| `Pagination` | `LinksAreTheWindow` | `getPages` gives none for a result of one page, and else the window a reader expects |

`HarvestProofs`.  `OnlySlippedAreMissed` is not inductive: it says nothing about an
update in progress.  `IInv` adds (`Underway`) that a record the update asked for, that
no further response lists and that did not change since, is in the last file that
lists it as the provider has it, or, when no file has it any more, is mirrored
already; (`Harvested`) that the files hold nothing older than the cursor in
memory and nothing newer than the provider; (`Entity`) that the cursor in memory
is the stored one or null; (`Past`) that no date is in the future; and that what
the robot's transaction found satisfies the same property, so that a rollback is
harmless.  There is one lemma per action, and `InvStep` combines them.

`HarvestRefinement`.  The refinement needs besides that the cursor an update will
store is not before the one it found, that what changes under the update changes
after that one (`Onward`), and that the robot's rollback takes no cursor forward and
loses no content behind it (`Nightly`).  Each action of `Harvest` is shown to be one
action of `Mirror`, or none.  The attempt found `Mirror` too strong at first: it had no
import that leaves its record due, nor one that finds a lost record again.
`NeverRegresses` holds because the files are in the order of their requests and
the versions of a record in them only grow, from the stored one up to the
provider's (`Newer`, `NoNewer`).  `OneResponseMissesNothing` is `HarvestComplete` plus:
with one response, a record that changes under the update changes at a date the
new cursor does not pass, so that nothing slips (`Unslipped`).

`FederationProofs`.  `IInv` says that the sets of own documents are keys and those of
federated documents names (`Kept`), which the type of a response depends on, that the
federated documents are housed by the rows beside them, in the tables and in what
each open transaction reads and would commit (`Housed`), and that an update is
about another server (`Sound`).  One lemma per step keeps the running update sound
(`ListSetsIsSound`, `ImportRecordIsSound`, ...), `PublishStep` covers what a commit
does to everyone else, and `StepIInv` combines them.

`OnlySlippedAreEverMissed` needs `Mirrored` besides.  It says of the tables of a server
(`Founded`) and of what its open transaction reads (`Held`) that they mirror what is
behind the cursors beside them and did not slip (`Vouched`), so that a commit hands
over what the transaction vouched for and a rollback nothing.  While a response is in
hand (`InHand`), a record of it is behind no cursor, or slipped, and is as the peer
has it unless that changed behind the date of the response (`late`); a document without
a record in it, or whose record was imported already, is mirrored up to that date.
`Legit` says where a document can have come from, which is why the wipe of a
federation, or a record of another one, touches nothing a cursor vouches for.
`OthersHold` and `VouchedOwn` are about a commit: what it does to those who harvest the
server, and to the server itself.  The work on this proof showed that an earlier
statement of `Mirrors` was wrong where two servers federate each other: a deleted document that
gets its former content back from a peer is stored, and served, with that content and its
deletion.  Whoever harvests it saves the deletion and no content
(`DocumentServiceImpl.save`), and that is what `Mirrors` asks for.

`OverlapProofs`.  `IInv` has a part for each thing that overlapping requests share:
`KInv` for the keys of rows, which are given out once, so that a save by key cannot
bring a deleted row back (this proves `DeletedIsGone`); `DInv` for dates; `GInv`: what a
request harvested is what its provider listed, or was changed later; `QInv`: a
request that nothing has run into (`Quiet`, which is what the history `alone` records)
has the importer, the directory and its row for itself, and has stored the first
records it harvested, each once; `SInv`: a repository that was put right stays so
until updates overlap again.  `AloneMeansStored` and `FullUpdateRepairs` follow at the
end of an update; `GoesBackOnlyByOverlap` from the dates and the keys.

`ProviderProofs`.  `LossesAreAccountedFor` speaks of the end of a list; in the middle of
one, what is to come must be accounted for.  `DInv` orders the dates: none is in the
future, an open row is dated after the one it replaces and after what the client got of
it.  `Covered` counts, for every *front* of the list, the part of it up to some date: the
documents of the front, or else the records the token counts, are no more than the
documents of the front that the client got as they are (`Given`) and what the history
allows.  A page extends it because none of its documents was given before, save those that
`again` counts: the places between the beginning of the page and the token, and the ties at
the end of the last page.  A commit takes a document out of a front (`moves`), puts one into a front
that the token has passed (`late`), or adds one where the list is still to come.  One
statement about the whole list would not do: a document that is committed late makes
the list longer where the token is, not at its end.  At the end of the list the token
covers the whole of it, so what was selected and not given is paid for by the history.
No step but a commit changes what the table says, which gives the other half.

`SearchIndexProofs`.  `CInv` says of a rebuild that nothing disturbed since it erased:
the index holds documents of the table only, what it has read is the page it is at,
what it has gone past is in the index, and whatever other rebuilds are about to add
is in the table too.  A step of another rebuild then adds what belongs there, and the
last page completes the index.  A row that the robot deleted is in no view but its own, so
what others add is not disturbed before the commit.

`Pagination` goes from results to pages first (`BelowTheQuotient`: the pages that exist
are those below the quotient), then splits on whether a side of the window is short, which
is when the code makes up for it on the other; no run repeats it.

Model-checked only: the liveness properties (`AlwaysMirroredAgain`,
`AlwaysFederatedAgain`, `ListEnds`, `IndexCatchesUp`), since the prover does not handle
fairness and ENABLED.  Every invariant and every action property of a run that passes is
a theorem.

## What the checks found

* `harvest_resumed`: a record changed between two responses of a resumed list is
  never harvested (`ImporterRep.update` keeps the date of every response in turn).
* `harvest_republished`: a record deleted and then published again keeps its
  deleted mark (`DocumentServiceImpl.save` clears it on the new object only).
* `overlap_success`: of two updates at once, one empties the directory of the other,
  which finds its file missing, imports nothing and ends with "1" and a new date of
  update (`Repositorios.atualizaRepositorio`).  The cursor stays where it was, as no file
  gave it a new date, so the next update asks again; the administrator is told otherwise.
* `fed_errors`: in the robot, an unchecked exception in the update of one federation marks
  the transaction of them all; the list in the log names that one, and the others are rolled
  back in the end, of which the log says no name (`SubFederacaoOAI.atualizaFederacoes`, `Robo.run`).  The
  administrator's update of all answers such a failure with a general error.
* `fed_mutual`: a server that holds documents of its own federations serves them in
  sets it does not list, so a server that federates it can no longer update it, nor
  complete the robot's night (`DocumentServiceImpl.save`).

Seen with `Provider`, and counted by `again`: a document that comes between `find` and
`count` makes the token a number that is not a whole number of pages; the division in
`find` then returns the same page again, it is counted twice, and the list ends before
its last documents, which nobody moved.

## Plan

In this order.

1. Registration, edit and deletion of federations as actions.
2. `TagCloud`: the cached cloud, whose date is set before its content, against the
   searches that are saved, cleaned and deleted.

## Not modelled

* Search queries, forms, mappings, RSS, logs and the wiring of the frameworks hold no
  state of their own or handle one row at a time.
* Users: a login that is free and a user that is not the last are checked in one
  statement and written in the next.  Two administrators can pass the check
  together; a model would say no more than this.
* The configuration file is one write to one file.
* Tag cloud, and the registration and deletion of federations: not yet, see the plan.
* The JavaScript of the repository is vendored for the most part (the console of Solr
  under `solr/`, jQuery, Bootstrap, CodeMirror); its own scripts
  (`src/src/src/main/webapp/scripts`) show dialogs and answers of the server, and the
  server relies on none of them.  The program's logic is in Java, which is what the
  modules model.

External, and so only what the code gets from them: OAI-PMH providers other than
FEB, Solr, the database, the XSLT processor, the OAI library around `Provider`.  One
effect of the frameworks is left out: `em.clear()` in `Indexador` detaches the
entities of the robot's transaction, so that a date of a repository that was changed
and not flushed may be missing at its commit; the next update then asks for more
than it needs.
