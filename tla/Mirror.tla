------------------------------- MODULE Mirror -------------------------------
(***************************************************************************)
(* What an incremental harvest owes its providers, seen from outside.      *)
(*                                                                         *)
(* A record FEB should have is fresh (stored as the provider has it), due  *)
(* (the next update will ask for it) or lost (neither, until it changes    *)
(* again or its repository is harvested anew).  A record FEB need not have *)
(* is out: not in the harvested sets, unreadable, or shared between        *)
(* repositories.  Only an update that ends well may lose a record, and     *)
(* only one that was due and changed while the update was running.         *)
(*                                                                         *)
(* Module Harvest implements this: cursors, responses, files, transactions *)
(* and failures do not appear here, only what they may do to a record.     *)
(***************************************************************************)
EXTENDS Naturals

CONSTANTS Repos, NoRepo, Ids

VARIABLES
  status,   \* status[r][id]: out, due, fresh or lost
  active,   \* the repository being updated, or NoRepo
  touched,  \* its records that changed under the update
  changes   \* how many times the providers have changed a record

vars == <<status, active, touched, changes>>

Standing == {"out", "due", "fresh", "lost"}

Init ==
  /\ status \in [Repos -> [Ids -> {"out", "due"}]]
  /\ active = NoRepo
  /\ touched = {}
  /\ changes = 0

\* Records in rs may have to be asked for again; none is lost by that.
AskAgain(rs) ==
  /\ status' \in [Repos -> [Ids -> Standing]]
  /\ \A r \in Repos, id \in Ids :
       \/ status'[r][id] = status[r][id]
       \/ r \in rs /\ status[r][id] # "out" /\ status'[r][id] \in {"due", "fresh"}

\* The provider changes a record: it is due, unless it can no longer be had, or
\* was deleted again before FEB knew of it.
Change(r, id) ==
  /\ changes' = changes + 1
  /\ UNCHANGED active
  /\ touched' \in {touched, touched \cup (IF r = active THEN {id} ELSE {})}
  /\ \E s \in {"out", "due", "fresh"} : status' = [status EXCEPT ![r][id] = s]

\* An update begins, from scratch or not.
Begin(r) ==
  /\ active = NoRepo
  /\ active' = r
  /\ touched' = {}
  /\ AskAgain({r})
  /\ UNCHANGED changes

\* The update imports a record; no other one is undone by it.  The record itself
\* is stored as a response has it, which may be older than the provider's: one
\* that was deleted, published again and deleted once more is there again, until
\* the deletion is asked for.
Import(id) ==
  /\ active # NoRepo
  /\ status' \in [Repos -> [Ids -> Standing]]
  /\ \A r \in Repos, i \in Ids :
       status'[r][i] # status[r][i] =>
         /\ r = active
         /\ \/ status[r][i] = "lost" /\ status'[r][i] = "due"
            \/ i = id /\ status[r][i] # "out" /\ status'[r][i] \in {"fresh", "due"}
  /\ UNCHANGED <<active, touched, changes>>

\* The update ends well.
Finish ==
  /\ active # NoRepo
  /\ \E lost \in SUBSET {id \in touched : status[active][id] = "due"} :
       status' = [status EXCEPT ![active] = [id \in Ids |-> IF id \in lost THEN "lost" ELSE @[id]]]
  /\ active' = NoRepo
  /\ touched' = {}
  /\ UNCHANGED changes

\* An update fails, or a transaction around some of them is rolled back.
GiveUp ==
  /\ active' = NoRepo
  /\ touched' = {}
  /\ AskAgain(Repos)
  /\ UNCHANGED changes

\* The administrator harvests other sets: records come in and go out.
Edit(r) ==
  /\ active = NoRepo
  /\ status' \in [Repos -> [Ids -> Standing]]
  /\ \A s \in Repos, id \in Ids :
       status'[s][id] # status[s][id] => s = r /\ "out" \in {status[s][id], status'[s][id]}
  /\ UNCHANGED <<active, touched, changes>>

Next ==
  \/ \E r \in Repos, id \in Ids : Change(r, id)
  \/ \E r \in Repos : Begin(r) \/ Edit(r)
  \/ \E id \in Ids : Import(id)
  \/ Finish
  \/ GiveUp

Spec == Init /\ [][Next]_vars
=============================================================================
