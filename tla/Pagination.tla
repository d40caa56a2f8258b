----------------------------- MODULE Pagination -----------------------------
(***************************************************************************)
(* The links to the pages of a search result (PaginationDto.getPages):     *)
(* none if one page holds it all; otherwise the current page and divisor   *)
(* pages on each side of it, where what is missing on one side is made up  *)
(* for on the other.                                                       *)
(*                                                                         *)
(* The code compares page numbers with the quotient size / itenToPresent   *)
(* as a float, close enough for the sizes results have.                    *)
(***************************************************************************)
EXTENDS Integers, TLAPS

CONSTANTS
  divisor,        \* ITENS_PAGINATION / 2, for any odd number of links
  itenToPresent   \* results on a page

\* The pages there are: their numbers are those below the quotient.
NumberOfPages(size) == (size + itenToPresent - 1) \div itenToPresent

HasPage(p, n) == 0 <= p /\ p < n

\* How many of the divisor pages on each side do not exist.
SobraEsquerda(page) == IF page < divisor THEN divisor - page ELSE 0
SobraDireita(page, n) == IF n <= page + divisor THEN page + divisor - n + 1 ELSE 0

Around(page, n) == {p \in (page - divisor)..(page + divisor) : HasPage(p, n)}
MoreLeft(page) == {p \in Int : page - divisor > p /\ p >= 0}
MoreRight(page, n) == {p \in Int : page + divisor < p /\ p < n}

Links(page, n) ==
  LET left == SobraEsquerda(page)
      right == SobraDireita(page, n)
      more == {p \in MoreLeft(page) : p >= page - divisor - right}
                \cup {p \in MoreRight(page, n) : p <= page + divisor + left}
  IN  {page} \cup Around(page, n) \cup (IF left = 0 \/ right = 0 THEN more ELSE {})

\* The pages linked to.
GetPages(page, size) ==
  IF size <= itenToPresent THEN {} ELSE Links(page, NumberOfPages(size))

-----------------------------------------------------------------------------
\* The first and the last page a reader expects: 2 * divisor + 1 pages with the
\* current one in the middle, moved so as not to pass either end.
First(page, n) ==
  LET last == n - 1 - 2 * divisor
      middle == IF page - divisor < last THEN page - divisor ELSE last
  IN  IF middle < 0 THEN 0 ELSE middle
Last(page, n) ==
  IF First(page, n) + 2 * divisor < n THEN First(page, n) + 2 * divisor ELSE n - 1

LEMMA Quotient ==
  ASSUME NEW x \in Nat, NEW m \in Nat \ {0}
  PROVE  x \div m \in Nat /\ (x \div m) * m <= x /\ x < (x \div m) * m + m
OBVIOUS

LEMMA Multiples ==
  ASSUME NEW a \in Int, NEW b \in Int, NEW m \in Nat \ {0}
  PROVE  /\ a * m \in Int
         /\ a <= b => a * m <= b * m
         /\ (a + 1) * m = a * m + m
OBVIOUS

\* The numbers of the pages are those below the quotient.
LEMMA BelowTheQuotient ==
  ASSUME itenToPresent \in Nat \ {0}, NEW size \in Nat, NEW p \in Nat
  PROVE  /\ NumberOfPages(size) \in Nat
         /\ p * itenToPresent < size <=> p < NumberOfPages(size)
<1> DEFINE m == itenToPresent
           n == NumberOfPages(size)
           x == n * m
           y == p * m
<1>1. /\ m \in Nat \ {0} /\ n \in Nat /\ x <= size + m - 1 /\ size + m - 1 < x + m
  <2>1. size + m - 1 \in Nat
    OBVIOUS
  <2> QED BY <2>1, Quotient DEF NumberOfPages
<1> HIDE DEF n
<1>2. /\ x \in Int /\ y \in Int /\ (p + 1) * m = y + m
      /\ p + 1 <= n => (p + 1) * m <= x
      /\ n <= p => x <= y
  BY <1>1, Multiples
<1> HIDE DEF m, x, y
<1>3. p < n => y < size
  BY <1>1, <1>2
<1>4. ~(p < n) => ~(y < size)
  BY <1>1, <1>2
<1> QED BY <1>1, <1>3, <1>4 DEF n, y, m

LEMMA LinksAreConsecutive ==
  ASSUME divisor \in Nat, NEW n \in Nat, NEW page \in 0..(n - 1)
  PROVE  Links(page, n) = First(page, n)..Last(page, n)
<1> DEFINE left == SobraEsquerda(page)
           right == SobraDireita(page, n)
<1>1. left \in Nat /\ right \in Nat
  BY DEF SobraEsquerda, SobraDireita
<1>2. ASSUME NEW p \in Int
      PROVE  p \in Links(page, n)
               <=> /\ 0 <= p /\ p < n
                   /\ page - divisor - right <= p /\ p <= page + divisor + left
  <2>1. CASE left = 0 \/ right = 0
    BY <2>1 DEF Links, Around, HasPage, MoreLeft, MoreRight, SobraEsquerda, SobraDireita
  <2>2. CASE left # 0 /\ right # 0
    BY <2>2 DEF Links, Around, HasPage, MoreLeft, MoreRight, SobraEsquerda, SobraDireita
  <2> QED BY <2>1, <2>2
<1>3. ASSUME NEW p \in Int
      PROVE  p \in First(page, n)..Last(page, n)
               <=> /\ 0 <= p /\ p < n
                   /\ page - divisor - right <= p /\ p <= page + divisor + left
  BY DEF First, Last, SobraEsquerda, SobraDireita
<1>4. Links(page, n) \subseteq Int
  BY DEF Links, Around, MoreLeft, MoreRight
<1>5. First(page, n)..Last(page, n) \subseteq Int
  BY DEF First, Last
<1> QED
  BY <1>2, <1>3, <1>4, <1>5

\* There are no links when one page holds the result; otherwise the links of a
\* page that exists are consecutive, hold that page, and are as many as there is
\* room for, at both ends of the result too (getPages).
THEOREM LinksAreTheWindow ==
  ASSUME divisor \in Nat, itenToPresent \in Nat \ {0}, NEW size \in Nat,
         NEW page \in Nat, page * itenToPresent < size
  PROVE  LET n == NumberOfPages(size)
         IN  GetPages(page, size) = IF n <= 1 THEN {} ELSE First(page, n)..Last(page, n)
<1> DEFINE n == NumberOfPages(size)
<1>1. n \in Nat /\ page < n
  BY BelowTheQuotient
<1>2. size <= itenToPresent <=> n <= 1
  <2>1. 1 * itenToPresent < size <=> 1 < n
    BY BelowTheQuotient
  <2> QED BY <1>1, <2>1
<1>3. Links(page, n) = First(page, n)..Last(page, n)
  BY <1>1, LinksAreConsecutive
<1> QED BY <1>2, <1>3 DEF GetPages
=============================================================================
