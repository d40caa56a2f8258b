----------------------------- MODULE MCHarvest -----------------------------
(* Small instances of Harvest: who lists what, in how many responses. *)
EXTENDS Harvest

CONSTANTS r1, r2, a, b, c, s1, s2

\* One provider that answers in two responses, the second a set of its own;
\* record b is in both.
PagesOverlapping == {[rep |-> r1, set |-> s1, ids |-> {a, b}],
                     [rep |-> r1, set |-> s2, ids |-> {b}]}

\* One provider, one set, split over two responses by a resumption token.
PagesResumed == {[rep |-> r1, set |-> s1, ids |-> {a}],
                 [rep |-> r1, set |-> s1, ids |-> {b}]}

\* Two providers that answer in one response each and share the record b.
PagesShared == {[rep |-> r1, set |-> s1, ids |-> {a, b}],
                [rep |-> r2, set |-> s1, ids |-> {b, c}]}
=============================================================================
