----------------------------- MODULE MCOverlap -----------------------------
(* A small instance of Overlap: two repositories, two requests. *)
EXTENDS Overlap, TLC

CONSTANTS r1, r2, a, b, q1, q2

\* Which records the providers list.
ListsOneEach == (r1 :> <<a>>) @@ (r2 :> <<b>>)

\* The requests, and the two repositories with their records, can be exchanged.
Exchange == (r1 :> r2) @@ (r2 :> r1) @@ (a :> b) @@ (b :> a)
Symmetry == Permutations(Requests) \cup {p @@ Exchange : p \in Permutations(Requests)}
=============================================================================
