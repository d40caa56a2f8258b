--------------------------- MODULE MCSearchIndex ---------------------------
(* A small instance of SearchIndex. *)
EXTENDS SearchIndex

CONSTANTS a, b, c

ThreeLoaded == <<a, b, c>>

\* Sift selects as SelectSeq does.
ASSUME SiftIsSelectSeq ==
  \A S \in SUBSET (1..3) : \A n \in 0..4 : \A s \in [1..n -> 1..3] :
    Sift(s, S) = SelectSeq(s, LAMBDA x : x \in S)
=============================================================================
