---------------------------- MODULE MCFederation ----------------------------
(* Small instances of Federation: who federates whom. *)
EXTENDS Federation

CONSTANTS A, B, C, ra, rb, rc, nx, ny, nz, a, b

\* A federates B and C.
Star == [n \in Servers |-> IF n = A THEN {B, C} ELSE {}]

\* A federates B.
Pair == [n \in Servers |-> IF n = A THEN {B} ELSE {}]

\* A and B federate each other.
Mutual == [n \in Servers |-> IF n = A THEN {B} ELSE {A}]

RepsAt == [r \in Reps |-> CASE r = ra -> A [] r = rb -> B [] r = rc -> C]
NamedApart == [r \in Reps |-> CASE r = ra -> nx [] r = rb -> ny [] r = rc -> nz]

\* Record a is of the repository of B, b of that of C.
FromBC == [id \in Ids |-> IF id = a THEN rb ELSE rc]

\* Both records are of the repository of B.
FromB == [id \in Ids |-> rb]

\* Record a is of the repository of A, b of that of B.
FromAB == [id \in Ids |-> IF id = a THEN ra ELSE rb]
=============================================================================
