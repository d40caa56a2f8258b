------------------------------ MODULE Sifting ------------------------------
(***************************************************************************)
(* The elements of a sequence that are in a set, in their order: what a    *)
(* query with a condition answers of the rows of a table, and a provider   *)
(* of its records.  It is SelectSeq with a set for the test, written as a  *)
(* recursive function so that its facts can be proved (SiftingProofs).     *)
(***************************************************************************)
EXTENDS Naturals, Sequences

Sift(s, S) ==
  LET kept[n \in 0..Len(s)] ==
        IF n = 0 THEN <<>>
        ELSE IF s[n] \in S THEN Append(kept[n - 1], s[n]) ELSE kept[n - 1]
  IN  kept[Len(s)]
=============================================================================
