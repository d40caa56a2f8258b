----------------------------- MODULE MCProvider -----------------------------
(* A small instance of Provider. *)
EXTENDS Provider, TLC

CONSTANTS a, b, c

\* Three documents of different dates.
ThreeLoaded == (a :> 2) @@ (b :> 3) @@ (c :> 4)
TwoRepositories == {{a, c}, {b}}
=============================================================================
