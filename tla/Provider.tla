------------------------------ MODULE Provider ------------------------------
(***************************************************************************)
(* FEB as an OAI-PMH provider (DocumentServiceImpl.find and count,         *)
(* DocumentRepository, DataServiceOaiCatalog) and a client that harvests   *)
(* it with resumption tokens.                                              *)
(*                                                                         *)
(* A response is two queries: a page of the documents of an interval of    *)
(* dates, by offset in the order of their dates, and how many there are.   *)
(* The token is stateless: the number of records listed so far and the     *)
(* interval (OaicatTest).  Meanwhile transactions give documents new dates *)
(* and delete others.  A document is dated when it is imported and others  *)
(* see it when the transaction commits, for the robot hours later.         *)
(*                                                                         *)
(* Dates of documents have fractions of a second; those of requests and    *)
(* responses do not.                                                       *)
(***************************************************************************)
EXTENDS Naturals, Sequences, FiniteSets

CONSTANTS
  Ids,          \* documents
  Repositories, \* the documents of each repository
  Loaded,       \* Loaded[id]: the date of the document at the start, or NoDate
  maxListSize,  \* records per response
  Second,       \* ticks of the clock in a second
  FirstTick,    \* the clock at the start
  MaxTime,      \* bound on the clock
  MaxImports,   \* bound on the imports
  MaxWipes      \* bound on the wipes

ASSUME LoadedAssumption ==
  Repositories \subseteq SUBSET Ids /\ Loaded \in [Ids -> 0..FirstTick]

ASSUME ListSizeAssumption == maxListSize \in Nat \ {0}

ASSUME IdsAssumption == IsFiniteSet(Ids)

\* A second is at least a tick, and none starts at NoDate.
ASSUME ClockAssumption == Second \in Nat \ {0} /\ FirstTick \in Nat /\ FirstTick >= Second

VARIABLES
  now,      \* the clock, in ticks
  created,  \* created[id]: the committed date of the document, in ticks
  written,  \* documents written by transactions underway
  stamp,    \* stamp[id]: the date they were given, or NoDate if deleted
  list,     \* the list the client is following
  copy,     \* copy[id]: the date of the document the client has
  cursor,   \* the date, in seconds, from which the client will ask next
  moves,    \* history: documents that left their place in the list underway
  late,     \* history: documents committed where the list had passed
  again,    \* history: places of the list that the next query may give again
  imports, wipes

vars == <<now, created, written, stamp, list, copy, cursor, moves, late, again, imports, wipes>>
open == <<written, stamp, imports, wipes>>
client == <<list, copy, cursor>>
history == <<moves, late, again>>

-----------------------------------------------------------------------------
(* Data *)

NoDate == 0
SecondOf(t) == t \div Second
StartOf(s) == s * Second

\* A list: the query it waits for, its interval, how many records were listed,
\* the page and the date of the response underway, the documents received.
List == [step : {"none", "find", "count"}, from : Nat, until : Nat, oldCount : Nat,
         page : Seq(Ids), date : Nat, got : [Ids -> Nat]]
NoList == [step |-> "none", from |-> NoDate, until |-> NoDate, oldCount |-> 0,
           page |-> <<>>, date |-> NoDate, got |-> [id \in Ids |-> NoDate]]

\* Mutant of From: the date itself is excluded.
FromAfter(t, from) == from # NoDate => t >= StartOf(from + 1)

\* The conditions of the queries: from is inclusive, ...
From(t, from) == from # NoDate => t >= StartOf(from)

\* Mutant of Until: the fractions of the last second are excluded.
UntilExact(t, until) == until # NoDate => t <= StartOf(until)

\* ... until is too, since a second is added to it and it is compared with <.
Until(t, until) == until # NoDate => t < StartOf(until + 1)

Selected(l) == {id \in Ids : created[id] # NoDate /\ From(created[id], l.from) /\ Until(created[id], l.until)}

\* The orders in which the query can return S: by date, and ties in any order.
Orders(S) ==
  {s \in [1..Cardinality(S) -> S] :
     \A i, j \in 1..Cardinality(S) : i < j => s[i] # s[j] /\ created[s[i]] <= created[s[j]]}

\* Mutant of Page: pages are counted from one.
PageFromOne(s, oldCount) ==
  LET p == oldCount \div maxListSize + 1
      last == p * maxListSize + maxListSize
  IN  SubSeq(s, p * maxListSize + 1, IF last < Len(s) THEN last ELSE Len(s))

\* The page of s after oldCount records, as Spring numbers the pages.
Page(s, oldCount) ==
  LET p == oldCount \div maxListSize
      last == p * maxListSize + maxListSize
  IN  SubSeq(s, p * maxListSize + 1, IF last < Len(s) THEN last ELSE Len(s))

\* The documents after the page with the date of its last one: the next query
\* may order them before it.
Ties(s, page, oldCount) ==
  LET end == (oldCount \div maxListSize) * maxListSize + Len(page)
  IN  {s[i] : i \in {j \in DOMAIN s : page # <<>> /\ j > end /\ created[s[j]] = created[s[end]]}}

\* Mutant of Token: the token counts pages.
TokenOfPages(l) == l.oldCount \div maxListSize

\* The number of records listed, with those of the response underway.
Token(l) == l.oldCount + Len(l.page)

\* Mutant of Cursor: three seconds are taken off, for clocks that differ.
CursorWithMargin(l) == IF l.until = NoDate THEN l.date - 3 ELSE l.until + 1

\* The date from which the client asks next: that of the last response, or the
\* second after the interval.
Cursor(l) == IF l.until = NoDate THEN l.date ELSE l.until + 1

-----------------------------------------------------------------------------
Init ==
  /\ now = FirstTick
  /\ created = Loaded
  /\ written = {} /\ stamp = [id \in Ids |-> NoDate]
  /\ list = NoList
  /\ copy = [id \in Ids |-> NoDate]
  /\ cursor = NoDate
  /\ moves = 0 /\ late = 0 /\ again = 0
  /\ imports = 0 /\ wipes = 0

Tick ==
  /\ now < MaxTime
  /\ now' = now + 1
  /\ UNCHANGED <<created, open, client, history>>

-----------------------------------------------------------------------------
(* The transactions *)

\* DocumentServiceImpl.save: an import dates the document, new or known, now.
\* A row is held by one transaction, which may import it again.
Import(id) ==
  /\ imports < MaxImports
  /\ imports' = imports + 1
  /\ written' = written \cup {id}
  /\ stamp' = [stamp EXCEPT ![id] = now]
  /\ UNCHANGED <<now, created, client, history, wipes>>

\* DocumentServiceImpl.deleteAllFromRep: the rows of a repository are deleted,
\* those that no transaction holds.
Wipe(ids) ==
  LET rows == {id \in ids : created[id] # NoDate}
  IN  /\ wipes < MaxWipes
      /\ rows \cap written = {}
      /\ wipes' = wipes + 1
      /\ written' = written \cup rows
      /\ stamp' = [id \in Ids |-> IF id \in rows THEN NoDate ELSE stamp[id]]
      /\ UNCHANGED <<now, created, client, history, imports>>

\* The transaction that wrote ids ends.
Ends(ids) ==
  /\ ids # {}
  /\ written' = written \ ids
  /\ stamp' = [id \in Ids |-> IF id \in ids THEN NoDate ELSE stamp[id]]
  /\ UNCHANGED <<now, client, again, imports, wipes>>

\* Documents of ids with a place in the list underway.
Leaving(ids) == IF Token(list) = 0 THEN {} ELSE ids \cap Selected(list)

\* Documents of ids that are new to the list underway and get a place among
\* what it has listed.
Passed(ids) ==
  {id \in ids :
     /\ stamp[id] # NoDate /\ id \notin Selected(list)
     /\ From(stamp[id], list.from) /\ Until(stamp[id], list.until)
     /\ Cardinality({x \in Selected(list) : created[x] < stamp[id]}) < Token(list)}

\* ... with a commit: after each document for an update by an administrator
\* (Repositorios), at the end of the night for the robot (Robo.run).
Commit(ids) ==
  /\ Ends(ids)
  /\ created' = [id \in Ids |-> IF id \in ids THEN stamp[id] ELSE created[id]]
  /\ moves' = moves + Cardinality(Leaving(ids))
  /\ late' = late + Cardinality(Passed(ids))

\* ... or a rollback.
Rollback(ids) == Ends(ids) /\ UNCHANGED <<created, moves, late>>

-----------------------------------------------------------------------------
(* The client *)

\* The history is that of one list.
NoHistory == moves' = 0 /\ late' = 0 /\ again' = 0

\* A list begins from the cursor: without an end (Harvester.coletaXMLSet), or
\* up to a second that is over.
ListRecords(until) ==
  /\ list.step = "none"
  /\ until # NoDate => cursor <= until
  /\ list' = [NoList EXCEPT !.step = "find", !.from = cursor, !.until = until,
                            !.date = SecondOf(now)]
  /\ UNCHANGED <<now, created, open, copy, cursor, history>>

\* The page is queried ...
Find ==
  /\ list.step = "find"
  /\ \E s \in Orders(Selected(list)) :
       LET page == Page(s, list.oldCount)
       IN  /\ list' = [list EXCEPT !.step = "count", !.page = page,
                        !.got = [id \in Ids |-> IF \E k \in DOMAIN page : page[k] = id
                                                THEN created[id] ELSE @[id]]]
           /\ again' = again + (list.oldCount % maxListSize)
                            + Cardinality(Ties(s, page, list.oldCount))
  /\ UNCHANGED <<now, created, open, copy, cursor, moves, late>>

\* ... then the count: the client gets a token and asks with it, ...
Resume ==
  /\ list.step = "count"
  /\ Token(list) < Cardinality(Selected(list))
  /\ list' = [list EXCEPT !.step = "find", !.oldCount = Token(list), !.page = <<>>,
                          !.date = SecondOf(now)]
  /\ UNCHANGED <<now, created, open, copy, cursor, history>>

\* ... or has the whole list, and imports it.
Finish ==
  /\ list.step = "count"
  /\ Token(list) >= Cardinality(Selected(list))
  /\ copy' = [id \in Ids |-> IF list.got[id] # NoDate THEN list.got[id] ELSE copy[id]]
  /\ cursor' = Cursor(list)
  /\ list' = NoList
  /\ NoHistory
  /\ UNCHANGED <<now, created, open>>

\* A request fails, and the client gives the list up.
Fail ==
  /\ list.step # "none"
  /\ list' = NoList
  /\ NoHistory
  /\ UNCHANGED <<now, created, open, copy, cursor>>

-----------------------------------------------------------------------------
Next ==
  \/ Tick
  \/ \E id \in Ids : Import(id)
  \/ \E ids \in Repositories : Wipe(ids)
  \/ \E ids \in SUBSET written : Commit(ids) \/ Rollback(ids)
  \/ \E until \in {NoDate, SecondOf(now) - 1} : ListRecords(until)
  \/ Find \/ Resume \/ Finish \/ Fail

Spec == Init /\ [][Next]_vars

\* The client follows its tokens (Harvester's loop).
FairSpec == Spec /\ WF_vars(Find) /\ WF_vars(Resume \/ Finish)

-----------------------------------------------------------------------------
(* Properties *)

\* Every variable holds a value of its type.
TypeOK ==
  /\ now \in Nat /\ cursor \in Nat
  /\ moves \in Nat /\ late \in Nat /\ again \in Nat
  /\ imports \in Nat /\ wipes \in Nat
  /\ created \in [Ids -> Nat] /\ stamp \in [Ids -> Nat] /\ written \subseteq Ids
  /\ copy \in [Ids -> Nat]
  /\ list \in List

\* Documents behind the client's cursor that it does not have as they are.
Missed == {id \in Ids : /\ created[id] # NoDate
                        /\ SecondOf(created[id]) < cursor
                        /\ copy[id] # created[id]}

\* However imports, wipes, commits and the pages of a list interleave, a list
\* that ends loses at most one document for each that left its place in it, for
\* each committed among what it had listed, and for each place that a page gave
\* again: because a commit between the two queries of a response left the token
\* inside a page, or because a page ended between documents of the same date.
\* Other steps lose only what they commit behind the cursor
\* (DocumentServiceImpl.find and count, DocumentRepository, Robo.run).
LossesAreAccountedFor ==
  [][/\ Finish => Cardinality(Missed' \ Missed) <= moves + late + again
     /\ ~Finish => \A id \in Missed' \ Missed :
                     id \in written \ written' /\ SecondOf(stamp[id]) < cursor]_vars

\* A client that follows its tokens gets to the end of the list, whatever
\* changes on the way (DocumentServiceImpl.find and count).
ListEnds == list.step # "none" ~> list.step = "none"
=============================================================================
