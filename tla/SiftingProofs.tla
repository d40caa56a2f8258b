--------------------------- MODULE SiftingProofs ---------------------------
EXTENDS Sifting, TLAPS, WellFoundedInduction, SequenceTheorems

\* A set of natural numbers that is not empty has a least element.
LEMMA LeastNatural ==
  ASSUME NEW T \in SUBSET Nat, T # {}
  PROVE  \E n \in T : \A m \in T : n <= m
<1> DEFINE R == OpToRel(<, Nat)
<1>1. IsWellFoundedOn(R, Nat)
  BY NatLessThanWellFounded
<1>2. \A m, n \in Nat : m < n => <<m, n>> \in R
  BY DEF OpToRel
<1> HIDE DEF R
<1>3. PICK n \in T : \A m \in T : <<m, n>> \notin R
  BY <1>1, WFMin
<1>4. ASSUME NEW m \in T PROVE n <= m
  <2>1. m \in Nat /\ n \in Nat
    OBVIOUS
  <2>2. ~(m < n)
    BY <1>2, <1>3, <2>1
  <2> QED BY <2>1, <2>2
<1> QED BY <1>4

\* Induction over the numbers up to N, for a set instead of a predicate.
LEMMA UpTo ==
  ASSUME NEW N \in Nat, NEW T, 0 \in T,
         \A n \in 0..N : n \in T /\ n + 1 <= N => n + 1 \in T
  PROVE  0..N \subseteq T
<1> SUFFICES ASSUME (0..N) \ T # {} PROVE FALSE
  OBVIOUS
<1>1. PICK n \in (0..N) \ T : \A m \in (0..N) \ T : n <= m
  BY LeastNatural, (0..N) \ T \in SUBSET Nat
<1>2. n # 0 /\ n - 1 \in 0..N
  OBVIOUS
<1>3. n - 1 \in T
  BY <1>1, <1>2
<1> QED BY <1>1, <1>2, <1>3

\* Induction over sequences, from the left.
LEMMA SeqInduction ==
  ASSUME NEW X, NEW T, <<>> \in T,
         \A s \in Seq(X), x \in X : s \in T => Append(s, x) \in T
  PROVE  Seq(X) \subseteq T
<1> SUFFICES ASSUME NEW s \in Seq(X) PROVE s \in T
  OBVIOUS
<1> DEFINE U == {n \in 0..Len(s) : \A t \in Seq(X) : Len(t) = n => t \in T}
<1>1. 0 \in U
  BY EmptySeq, LenProperties
<1>2. ASSUME NEW n \in 0..Len(s), n \in U, n + 1 <= Len(s) PROVE n + 1 \in U
  <2> SUFFICES ASSUME NEW t \in Seq(X), Len(t) = n + 1 PROVE t \in T
    BY <1>2
  <2>0. t # <<>>
    BY EmptySeq
  <2>1. PICK r \in Seq(X), x \in X : t = Append(r, x)
    BY <2>0, SequenceEmptyOrAppend
  <2>2. Len(r) = n
    BY <2>1
  <2> QED BY <1>2, <2>1, <2>2
<1> HIDE DEF U
<1>3. 0..Len(s) \subseteq U
  BY <1>1, <1>2, UpTo
<1> QED BY <1>3 DEF U

\* One step of the recursive function of Sift.
SiftStep(s, S, f, n) == IF n = 0 THEN <<>>
                    ELSE IF s[n] \in S THEN Append(f[n - 1], s[n]) ELSE f[n - 1]

\* The recursive function of Sift exists.
LEMMA SiftExists ==
  ASSUME NEW X, NEW s \in Seq(X), NEW S
  PROVE  \E f : f = [n \in 0..Len(s) |-> SiftStep(s, S, f, n)]
<1> DEFINE T == {N \in 0..Len(s) : \E f : f = [n \in 0..N |-> SiftStep(s, S, f, n)]}
<1>1. 0 \in T
  <2> DEFINE f == [n \in 0..0 |-> <<>>]
  <2>1. f = [n \in 0..0 |-> SiftStep(s, S, f, n)]
    BY DEF SiftStep
  <2> QED BY <2>1
<1>2. ASSUME NEW N \in 0..Len(s), N \in T, N + 1 <= Len(s) PROVE N + 1 \in T
  <2>1. PICK f : f = [n \in 0..N |-> SiftStep(s, S, f, n)]
    BY <1>2
  <2> DEFINE g == [n \in 0..(N + 1) |-> IF n <= N THEN f[n] ELSE SiftStep(s, S, f, n)]
  <2>2. ASSUME NEW n \in 0..(N + 1) PROVE g[n] = SiftStep(s, S, g, n)
    <3>1. CASE n = 0
      BY <2>1, <3>1 DEF SiftStep
    <3>2. CASE n # 0
      <4>1. n - 1 \in 0..N /\ g[n - 1] = f[n - 1]
        BY <3>2
      <4>2. SiftStep(s, S, g, n) = SiftStep(s, S, f, n)
        BY <3>2, <4>1 DEF SiftStep
      <4>3. n <= N => f[n] = SiftStep(s, S, f, n)
        BY <2>1
      <4> QED BY <4>2, <4>3
    <3> QED BY <3>1, <3>2
  <2>3. g = [n \in 0..(N + 1) |-> SiftStep(s, S, g, n)]
    BY <2>2
  <2>4. N + 1 \in 0..Len(s)
    BY <1>2
  <2> HIDE DEF g
  <2> QED BY <2>3, <2>4
<1> HIDE DEF T
<1>3. 0..Len(s) \subseteq T
  BY <1>1, <1>2, UpTo
<1> QED BY <1>3 DEF T

LEMMA SiftIs ==
  ASSUME NEW X, NEW s \in Seq(X), NEW S
  PROVE  \E f : /\ f = [n \in 0..Len(s) |-> SiftStep(s, S, f, n)]
                /\ Sift(s, S) = f[Len(s)]
<1> DEFINE P(f) == f = [n \in 0..Len(s) |->
                          IF n = 0 THEN <<>>
                          ELSE IF s[n] \in S THEN Append(f[n - 1], s[n]) ELSE f[n - 1]]
<1>1. \E f : P(f)
  BY SiftExists DEF SiftStep
<1>2. P(CHOOSE f : P(f))
  BY <1>1
<1>3. Sift(s, S) = (CHOOSE f : P(f))[Len(s)]
  BY DEF Sift
<1> QED BY <1>2, <1>3 DEF SiftStep

\* Sift takes the elements one by one.
LEMMA SiftAppend ==
  ASSUME NEW X, NEW s \in Seq(X), NEW x \in X, NEW S
  PROVE  Sift(Append(s, x), S) = IF x \in S THEN Append(Sift(s, S), x) ELSE Sift(s, S)
<1> DEFINE t == Append(s, x)
<1>1. /\ t \in Seq(X) /\ Len(t) = Len(s) + 1 /\ Len(s) \in Nat
      /\ \A i \in 1..Len(s) : t[i] = s[i]
      /\ t[Len(s) + 1] = x
  BY AppendProperties
<1> HIDE DEF t
<1>2. PICK f : /\ f = [n \in 0..Len(s) |-> SiftStep(s, S, f, n)]
               /\ Sift(s, S) = f[Len(s)]
  BY SiftIs
<1>3. PICK g : /\ g = [n \in 0..Len(t) |-> SiftStep(t, S, g, n)]
               /\ Sift(t, S) = g[Len(t)]
  BY <1>1, SiftIs
<1> DEFINE T == {n \in 0..Len(s) : f[n] = g[n]}
<1>4. 0 \in T
  BY <1>1, <1>2, <1>3 DEF SiftStep
<1>5. ASSUME NEW n \in 0..Len(s), n \in T, n + 1 <= Len(s) PROVE n + 1 \in T
  <2>1. n + 1 \in 0..Len(s) /\ n + 1 \in 0..Len(t) /\ n + 1 # 0 /\ (n + 1) - 1 = n
    BY <1>1, <1>5
  <2>2. f[n] = g[n] /\ t[n + 1] = s[n + 1]
    BY <1>1, <1>5, <2>1
  <2>3. f[n + 1] = SiftStep(s, S, f, n + 1) /\ g[n + 1] = SiftStep(t, S, g, n + 1)
    BY <1>2, <1>3, <2>1
  <2> QED BY <2>1, <2>2, <2>3 DEF SiftStep
<1> HIDE DEF T
<1>6. 0..Len(s) \subseteq T
  BY <1>1, <1>4, <1>5, UpTo
<1>7. f[Len(s)] = g[Len(s)]
  BY <1>1, <1>6 DEF T
<1>8. g[Len(t)] = SiftStep(t, S, g, Len(s) + 1)
  BY <1>1, <1>3
<1>9. Len(s) + 1 # 0 /\ (Len(s) + 1) - 1 = Len(s)
  BY <1>1
<1> QED BY <1>1, <1>2, <1>3, <1>7, <1>8, <1>9 DEF SiftStep, t

LEMMA SiftEmpty ==
  ASSUME NEW S
  PROVE  Sift(<<>>, S) = <<>>
<1>1. <<>> \in Seq({}) /\ Len(<<>>) = 0
  BY EmptySeq
<1>2. PICK f : /\ f = [n \in 0..Len(<<>>) |-> SiftStep(<<>>, S, f, n)]
               /\ Sift(<<>>, S) = f[Len(<<>>)]
  BY <1>1, SiftIs
<1> QED BY <1>1, <1>2 DEF SiftStep

\* What is sifted is a sequence of the elements of S.
LEMMA SiftType ==
  ASSUME NEW X, NEW S
  PROVE  \A s \in Seq(X) : Sift(s, S) \in Seq(X \cap S)
<1> DEFINE T == {s \in Seq(X) : Sift(s, S) \in Seq(X \cap S)}
<1>1. <<>> \in T
  BY SiftEmpty, EmptySeq
<1>2. ASSUME NEW s \in Seq(X), NEW x \in X, s \in T PROVE Append(s, x) \in T
  <2>1. Sift(Append(s, x), S) = IF x \in S THEN Append(Sift(s, S), x) ELSE Sift(s, S)
    BY SiftAppend
  <2>2. Sift(s, S) \in Seq(X \cap S) /\ Append(s, x) \in Seq(X)
    BY <1>2, AppendProperties
  <2>3. x \in S => Append(Sift(s, S), x) \in Seq(X \cap S)
    BY <2>2, AppendProperties
  <2> QED BY <2>1, <2>2, <2>3
<1> HIDE DEF T
<1>3. Seq(X) \subseteq T
  BY <1>1, <1>2, SeqInduction
<1> QED BY <1>3 DEF T

\* The elements of a sequence.
Elements(s) == {s[i] : i \in 1..Len(s)}

LEMMA ElementsAppend ==
  ASSUME NEW X, NEW s \in Seq(X), NEW x \in X
  PROVE  Elements(Append(s, x)) = Elements(s) \cup {x}
<1>1. /\ Len(Append(s, x)) = Len(s) + 1 /\ Len(s) \in Nat
      /\ \A i \in 1..Len(s) : Append(s, x)[i] = s[i]
      /\ Append(s, x)[Len(s) + 1] = x
  BY AppendProperties
<1>2. 1..(Len(s) + 1) = 1..Len(s) \cup {Len(s) + 1}
  BY <1>1
<1>3. \A i \in 1..Len(s) : Append(s, x)[i] \in Elements(s)
  BY <1>1 DEF Elements
<1>4. Elements(Append(s, x)) \subseteq Elements(s) \cup {x}
  BY <1>1, <1>2, <1>3 DEF Elements
<1>5. Elements(s) \subseteq Elements(Append(s, x))
  BY <1>1, <1>2 DEF Elements
<1>6. x \in Elements(Append(s, x))
  BY <1>1, <1>2 DEF Elements
<1> QED BY <1>4, <1>5, <1>6

\* Nothing is lost, and nothing else comes out.
LEMMA SiftElements ==
  ASSUME NEW X, NEW S
  PROVE  \A s \in Seq(X) : Elements(Sift(s, S)) = Elements(s) \cap S
<1> DEFINE T == {s \in Seq(X) : Elements(Sift(s, S)) = Elements(s) \cap S}
<1>1. <<>> \in T
  BY SiftEmpty, EmptySeq DEF Elements
<1>2. ASSUME NEW s \in Seq(X), NEW x \in X, s \in T PROVE Append(s, x) \in T
  <2>1. Append(s, x) \in Seq(X) /\ Elements(Append(s, x)) = Elements(s) \cup {x}
    BY AppendProperties, ElementsAppend
  <2>2. Sift(s, S) \in Seq(X)
    BY SiftType, SeqMonotonic, X \cap S \subseteq X
  <2>3. Elements(Append(Sift(s, S), x)) = Elements(Sift(s, S)) \cup {x}
    BY <2>2, ElementsAppend
  <2>4. Sift(Append(s, x), S) = IF x \in S THEN Append(Sift(s, S), x) ELSE Sift(s, S)
    BY SiftAppend
  <2>5. Elements(Sift(s, S)) = Elements(s) \cap S
    BY <1>2
  <2>6. Elements(Sift(Append(s, x), S)) = Elements(Append(s, x)) \cap S
    BY <2>1, <2>3, <2>4, <2>5
  <2> QED BY <2>1, <2>6
<1> HIDE DEF T
<1>3. Seq(X) \subseteq T
  BY <1>1, <1>2, SeqInduction
<1> QED BY <1>3 DEF T

\* Distinct elements stay distinct.
LEMMA SiftDistinct ==
  ASSUME NEW X, NEW S
  PROVE  \A s \in Seq(X) :
           (\A i, j \in 1..Len(s) : s[i] = s[j] => i = j) =>
             LET t == Sift(s, S)
             IN  \A i, j \in 1..Len(t) : t[i] = t[j] => i = j
<1> DEFINE Distinct(s) == \A i, j \in 1..Len(s) : s[i] = s[j] => i = j
           T == {s \in Seq(X) : Distinct(s) => Distinct(Sift(s, S))}
<1>1. <<>> \in T
  BY SiftEmpty, EmptySeq
<1>2. ASSUME NEW s \in Seq(X), NEW x \in X, s \in T PROVE Append(s, x) \in T
  <2> SUFFICES ASSUME Distinct(Append(s, x)) PROVE Distinct(Sift(Append(s, x), S))
    BY AppendProperties
  <2>1. /\ Len(Append(s, x)) = Len(s) + 1 /\ Len(s) \in Nat
        /\ \A i \in 1..Len(s) : Append(s, x)[i] = s[i]
        /\ Append(s, x)[Len(s) + 1] = x
    BY AppendProperties
  <2>2. Distinct(s) /\ x \notin Elements(s)
    BY <2>1 DEF Elements
  <2>3. Distinct(Sift(s, S)) /\ x \notin Elements(Sift(s, S))
    BY <1>2, <2>2, SiftElements
  <2> DEFINE t == Sift(s, S)
  <2>4. t \in Seq(X)
    BY SiftType, SeqMonotonic, X \cap S \subseteq X
  <2> HIDE DEF t
  <2>5. /\ Len(Append(t, x)) = Len(t) + 1 /\ Len(t) \in Nat
        /\ \A i \in 1..Len(t) : Append(t, x)[i] = t[i]
        /\ Append(t, x)[Len(t) + 1] = x
    BY <2>4, AppendProperties
  <2>6. Distinct(Append(t, x))
    <3>1. Distinct(t) /\ \A i \in 1..Len(t) : t[i] # x
      BY <2>3 DEF t, Elements
    <3>2. ASSUME NEW i \in 1..(Len(t) + 1), NEW j \in 1..(Len(t) + 1),
                 Append(t, x)[i] = Append(t, x)[j]
          PROVE  i = j
      <4>1. CASE i <= Len(t) /\ j <= Len(t)
        BY <2>5, <3>1, <3>2, <4>1
      <4>2. CASE i = Len(t) + 1 /\ j <= Len(t)
        BY <2>5, <3>1, <3>2, <4>2
      <4>3. CASE j = Len(t) + 1 /\ i <= Len(t)
        BY <2>5, <3>1, <3>2, <4>3
      <4> QED BY <2>5, <4>1, <4>2, <4>3
    <3> QED BY <2>5, <3>2
  <2>7. Sift(Append(s, x), S) = IF x \in S THEN Append(t, x) ELSE t
    BY SiftAppend DEF t
  <2> QED BY <2>3, <2>6, <2>7 DEF t
<1> HIDE DEF T
<1>3. Seq(X) \subseteq T
  BY <1>1, <1>2, SeqInduction
<1> QED BY <1>3 DEF T

\* Sifting twice is sifting once.
LEMMA SiftTwice ==
  ASSUME NEW X, NEW R, NEW S
  PROVE  \A s \in Seq(X) : Sift(Sift(s, R), S) = Sift(s, R \cap S)
<1> DEFINE T == {s \in Seq(X) : Sift(Sift(s, R), S) = Sift(s, R \cap S)}
<1>1. <<>> \in T
  BY SiftEmpty, EmptySeq
<1>2. ASSUME NEW s \in Seq(X), NEW x \in X, s \in T PROVE Append(s, x) \in T
  <2>1. Sift(s, R) \in Seq(X)
    BY SiftType, SeqMonotonic, X \cap R \subseteq X
  <2>2. Sift(Append(Sift(s, R), x), S)
          = IF x \in S THEN Append(Sift(Sift(s, R), S), x) ELSE Sift(Sift(s, R), S)
    BY <2>1, SiftAppend
  <2>3. Sift(Append(s, x), R) = IF x \in R THEN Append(Sift(s, R), x) ELSE Sift(s, R)
    BY SiftAppend
  <2>4. Sift(Append(s, x), R \cap S)
          = IF x \in R \cap S THEN Append(Sift(s, R \cap S), x) ELSE Sift(s, R \cap S)
    BY SiftAppend
  <2>5. Sift(Sift(s, R), S) = Sift(s, R \cap S) /\ Append(s, x) \in Seq(X)
    BY <1>2, AppendProperties
  <2>6. Sift(Sift(Append(s, x), R), S) = Sift(Append(s, x), R \cap S)
    <3>1. CASE x \in R /\ x \in S
      BY <2>2, <2>3, <2>4, <2>5, <3>1
    <3>2. CASE x \in R /\ x \notin S
      BY <2>2, <2>3, <2>4, <2>5, <3>2
    <3>3. CASE x \notin R
      BY <2>3, <2>4, <2>5, <3>3
    <3> QED BY <3>1, <3>2, <3>3
  <2> QED BY <2>5, <2>6
<1> HIDE DEF T
<1>3. Seq(X) \subseteq T
  BY <1>1, <1>2, SeqInduction
<1> QED BY <1>3 DEF T

\* What sifts alike in what there is, sifts alike.
LEMMA SiftSame ==
  ASSUME NEW X, NEW R, NEW S, X \cap R = X \cap S
  PROVE  \A s \in Seq(X) : Sift(s, R) = Sift(s, S)
<1> DEFINE T == {s \in Seq(X) : Sift(s, R) = Sift(s, S)}
<1>1. <<>> \in T
  BY SiftEmpty, EmptySeq
<1>2. ASSUME NEW s \in Seq(X), NEW x \in X, s \in T PROVE Append(s, x) \in T
  <2>1. Sift(Append(s, x), R) = IF x \in R THEN Append(Sift(s, R), x) ELSE Sift(s, R)
    BY SiftAppend
  <2>2. Sift(Append(s, x), S) = IF x \in S THEN Append(Sift(s, S), x) ELSE Sift(s, S)
    BY SiftAppend
  <2>3. Sift(s, R) = Sift(s, S) /\ Append(s, x) \in Seq(X) /\ (x \in R <=> x \in S)
    BY <1>2, AppendProperties
  <2> QED BY <2>1, <2>2, <2>3
<1> HIDE DEF T
<1>3. Seq(X) \subseteq T
  BY <1>1, <1>2, SeqInduction
<1> QED BY <1>3 DEF T

\* A sequence of elements of S is sifted whole.
LEMMA SiftAll ==
  ASSUME NEW X, NEW S, X \subseteq S
  PROVE  \A s \in Seq(X) : Sift(s, S) = s
<1> DEFINE T == {s \in Seq(X) : Sift(s, S) = s}
<1>1. <<>> \in T
  BY SiftEmpty, EmptySeq
<1>2. ASSUME NEW s \in Seq(X), NEW x \in X, s \in T PROVE Append(s, x) \in T
  BY <1>2, SiftAppend, AppendProperties
<1> HIDE DEF T
<1>3. Seq(X) \subseteq T
  BY <1>1, <1>2, SeqInduction
<1> QED BY <1>3 DEF T

\* Two sequences can be sifted one after the other.
LEMMA SiftConcat ==
  ASSUME NEW X, NEW S, NEW s \in Seq(X)
  PROVE  \A t \in Seq(X) : Sift(s \o t, S) = Sift(s, S) \o Sift(t, S)
<1> DEFINE T == {t \in Seq(X) : Sift(s \o t, S) = Sift(s, S) \o Sift(t, S)}
<1>0. Sift(s, S) \in Seq(X)
  BY SiftType, SeqMonotonic, X \cap S \subseteq X
<1>1. <<>> \in T
  BY <1>0, SiftEmpty, EmptySeq, ConcatEmptySeq
<1>2. ASSUME NEW t \in Seq(X), NEW x \in X, t \in T PROVE Append(t, x) \in T
  <2>1. Sift(t, S) \in Seq(X)
    BY SiftType, SeqMonotonic, X \cap S \subseteq X
  <2>2. \A a, b \in Seq(X) : a \o Append(b, x) = Append(a \o b, x)
    BY AppendIsConcat, ConcatAssociative, ConcatProperties, <<x>> \in Seq(X)
  <2>3. s \o t \in Seq(X)
    BY ConcatProperties
  <2>4. Sift(Append(s \o t, x), S)
          = IF x \in S THEN Append(Sift(s \o t, S), x) ELSE Sift(s \o t, S)
    BY <2>3, SiftAppend
  <2>5. Sift(Append(t, x), S) = IF x \in S THEN Append(Sift(t, S), x) ELSE Sift(t, S)
    BY SiftAppend
  <2>6. s \o Append(t, x) = Append(s \o t, x)
    BY <2>2
  <2>7. Sift(s, S) \o Append(Sift(t, S), x) = Append(Sift(s, S) \o Sift(t, S), x)
    BY <1>0, <2>1, <2>2
  <2>8. Sift(s \o t, S) = Sift(s, S) \o Sift(t, S) /\ Append(t, x) \in Seq(X)
    BY <1>2, AppendProperties
  <2>9. CASE x \in S
    BY <2>4, <2>5, <2>6, <2>7, <2>8, <2>9
  <2>10. CASE x \notin S
    BY <2>4, <2>5, <2>6, <2>8, <2>10
  <2> QED BY <2>9, <2>10
<1> HIDE DEF T
<1>3. Seq(X) \subseteq T
  BY <1>1, <1>2, SeqInduction
<1> QED BY <1>3 DEF T
=============================================================================
