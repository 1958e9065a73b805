---------------------------- MODULE OrderLemmas ------------------------------
(***************************************************************************)
(* Facts about natural numbers and finite orders that the proofs about     *)
(* scanning, searching and sorting rest on.  The induction principles of   *)
(* the library take an operator; these facts come from theorems that take  *)
(* sets instead: < is well founded on Nat, and a well founded relation has *)
(* a minimum in every set.                                                 *)
(***************************************************************************)
EXTENDS Integers, Sequences, FiniteSetsExt, FiniteSetTheorems, TLAPS

-----------------------------------------------------------------------------
(* Least and greatest numbers.                                              *)

\* A set of natural numbers that is not empty has a least member.
LEMMA LeastNatural ==
  ASSUME NEW S \in SUBSET Nat, S # {}
  PROVE  \E x \in S : \A y \in S : x <= y
<1> DEFINE R == {p \in Nat \X Nat : p[1] < p[2]}
<1>1. IsWellFoundedOn(R, Nat)
  BY NatLessThanWellFounded DEF OpToRel
<1>2. PICK x \in S : \A y \in S : <<y, x>> \notin R
  BY <1>1, WFMin
<1>3. \A y \in S : ~(y < x)
  BY <1>2
<1> QED
  BY <1>3

\* A bounded one has a greatest: the least of its bounds.
LEMMA GreatestNatural ==
  ASSUME NEW S \in SUBSET Nat, S # {}, NEW n \in Nat, \A y \in S : y <= n
  PROVE  \E x \in S : \A y \in S : y <= x
<1> DEFINE U == {u \in Nat : \A y \in S : y <= u}
<1>1. PICK x \in U : \A u \in U : x <= u
  BY LeastNatural, n \in U
<1>2. x \in S
  <2> SUFFICES ASSUME x \notin S
               PROVE  FALSE
    OBVIOUS
  <2>1. \A y \in S : y <= x - 1
    BY <1>1
  <2>2. x - 1 \in U
    <3>1. PICK y \in S : y \in Nat
      OBVIOUS
    <3>2. x \in Nat /\ y <= x - 1
      BY <1>1, <2>1, <3>1
    <3>3. x - 1 \in Nat
      BY <3>1, <3>2
    <3> QED
      BY <2>1, <3>3
  <2> QED
    BY <2>2, <1>1
<1> QED
  BY <1>1, <1>2

\* Min and Max of such sets are what their names say.
LEMMA MinOfNaturals ==
  ASSUME NEW S \in SUBSET Nat, S # {}
  PROVE  Min(S) \in S /\ \A y \in S : Min(S) <= y
BY LeastNatural DEF Min

\* The maximum of a bounded set of natural numbers is what it should be.
LEMMA MaxOfNaturals ==
  ASSUME NEW S \in SUBSET Nat, S # {}, NEW n \in Nat, \A y \in S : y <= n
  PROVE  Max(S) \in S /\ \A y \in S : y <= Max(S)
<1>1. \E x \in S : \A y \in S : x >= y
  BY GreatestNatural
<1> QED
  BY <1>1 DEF Max

\* There are m numbers from 1 to m, and from 0 to m - 1.
LEMMA CountTo ==
  ASSUME NEW m \in Nat
  PROVE  /\ IsFiniteSet(1..m) /\ Cardinality(1..m) = m
         /\ IsFiniteSet(0..(m - 1)) /\ Cardinality(0..(m - 1)) = m
<1>1. IsFiniteSet(1..m) /\ Cardinality(1..m) = IF 1 > m THEN 0 ELSE m - 1 + 1
  <2>1. 1 \in Int /\ m \in Int
    OBVIOUS
  <2> QED
    BY <2>1, FS_Interval
<1>2. IsFiniteSet(0..(m - 1)) /\ Cardinality(0..(m - 1)) = IF 0 > m - 1 THEN 0 ELSE m - 1 - 0 + 1
  <2>1. 0 \in Int /\ m - 1 \in Int
    OBVIOUS
  <2> QED
    BY <2>1, FS_Interval
<1> QED
  BY <1>1, <1>2

-----------------------------------------------------------------------------
(* Finite orders, given as sets of pairs.                                   *)

\* A finite set with a total, transitive relation has a member above all others:
\* one with the most members below it.
LEMMA TopOfFinite ==
  ASSUME NEW S, IsFiniteSet(S), S # {}, NEW R,
         \A x, y \in S : <<x, y>> \in R \/ <<y, x>> \in R,
         \A x, y, z \in S : <<x, y>> \in R /\ <<y, z>> \in R => <<x, z>> \in R
  PROVE  \E x \in S : \A y \in S : <<x, y>> \in R
<1> DEFINE Below(x) == {y \in S : <<x, y>> \in R}
           C == {Cardinality(Below(x)) : x \in S}
<1>1. \A x \in S : IsFiniteSet(Below(x)) /\ Cardinality(Below(x)) \in Nat
                   /\ Cardinality(Below(x)) <= Cardinality(S)
  <2> TAKE x \in S
  <2>1. Below(x) \in SUBSET S
    OBVIOUS
  <2> HIDE DEF Below
  <2> QED
    BY <2>1, FS_Subset, FS_CardinalityType
<1>2. PICK m \in C : \A c \in C : c <= m
  <2> HIDE DEF Below
  <2>1. C \in SUBSET Nat /\ C # {} /\ \A c \in C : c <= Cardinality(S)
    BY <1>1
  <2>2. Cardinality(S) \in Nat
    BY FS_CardinalityType
  <2> HIDE DEF C
  <2> QED
    BY <2>1, <2>2, GreatestNatural
<1>3. PICK x \in S : m = Cardinality(Below(x))
  BY <1>2
<1>4. ASSUME NEW y \in S, <<x, y>> \notin R
      PROVE  FALSE
  <2>1. Below(x) \cup {y} \subseteq Below(y) /\ y \notin Below(x)
    BY <1>4
  <2>2. /\ IsFiniteSet(Below(x)) /\ Cardinality(Below(x)) \in Nat
        /\ IsFiniteSet(Below(y)) /\ Cardinality(Below(y)) \in Nat
    BY <1>1
  <2>3. Cardinality(Below(y)) <= Cardinality(Below(x))
    BY <1>2, <1>3
  <2> HIDE DEF Below
  <2>4. Cardinality(Below(x) \cup {y}) = Cardinality(Below(x)) + 1
    BY <2>1, <2>2, FS_AddElement
  <2>5. Cardinality(Below(x) \cup {y}) <= Cardinality(Below(y))
    BY <2>1, <2>2, FS_Subset
  <2> QED
    BY <2>2, <2>3, <2>4, <2>5
<1> QED
  BY <1>4

\* R puts the members of S in a line.
StrictOrder(R, S) ==
  /\ \A x \in S : <<x, x>> \notin R
  /\ \A x, y \in S : x # y => <<x, y>> \in R \/ <<y, x>> \in R
  /\ \A x, y, z \in S : <<x, y>> \in R /\ <<y, z>> \in R => <<x, z>> \in R

\* How many members come before x.
Rank(R, S, x) == Cardinality({y \in S : <<y, x>> \in R})

\* rank numbers the members of S from 0 to n - 1 in the order R.
Numbering(rank, R, S, n) ==
  /\ rank \in [S -> Nat] /\ \A x \in S : rank[x] < n
  /\ \A x, y \in S : <<x, y>> \in R <=> rank[x] < rank[y]
  /\ \A x, y \in S : rank[x] = rank[y] => x = y
  /\ \A k \in 1..n : \E x \in S : rank[x] = k - 1

\* In a finite set, x comes before y exactly if fewer members come before x, and
\* every position is taken.
LEMMA RankIsPosition ==
  ASSUME NEW S, IsFiniteSet(S), NEW R, StrictOrder(R, S),
         NEW rank, rank = [x \in S |-> Rank(R, S, x)]
  PROVE  Numbering(rank, R, S, Cardinality(S))
<1> DEFINE Before(x) == {y \in S : <<y, x>> \in R}
           n == Cardinality(S)
<1>1. n \in Nat
  BY FS_CardinalityType
<1>2. \A x \in S : /\ IsFiniteSet(Before(x)) /\ Before(x) \in SUBSET S
                   /\ rank[x] = Cardinality(Before(x))
                   /\ rank[x] \in Nat /\ rank[x] \in 0..(n - 1)
                   /\ rank[x] < n
  <2> TAKE x \in S
  <2>1. Before(x) \in SUBSET S /\ x \notin Before(x)
    BY DEF StrictOrder
  <2>2. rank[x] = Cardinality(Before(x))
    BY DEF Rank
  <2> HIDE DEF Before
  <2>3. IsFiniteSet(Before(x)) /\ Cardinality(Before(x)) <= n
        /\ (n = Cardinality(Before(x)) => S = Before(x))
    BY <2>1, FS_Subset
  <2>4. Cardinality(Before(x)) \in Nat
    BY <2>3, FS_CardinalityType
  <2> QED
    BY <1>1, <2>1, <2>2, <2>3, <2>4
<1>3. ASSUME NEW x \in S, NEW y \in S, <<x, y>> \in R
      PROVE  rank[x] < rank[y]
  <2>1. Before(x) \cup {x} \subseteq Before(y) /\ x \notin Before(x)
    BY <1>3 DEF StrictOrder
  <2>2. /\ IsFiniteSet(Before(x)) /\ IsFiniteSet(Before(y))
        /\ rank[x] = Cardinality(Before(x)) /\ rank[y] = Cardinality(Before(y))
        /\ rank[x] \in Nat /\ rank[y] \in Nat
    BY <1>1, <1>2
  <2> HIDE DEF Before
  <2>3. Cardinality(Before(x) \cup {x}) = Cardinality(Before(x)) + 1
    BY <2>1, <2>2, FS_AddElement
  <2>4. Cardinality(Before(x) \cup {x}) <= Cardinality(Before(y))
    BY <2>1, <2>2, FS_Subset
  <2> QED
    BY <2>2, <2>3, <2>4
<1>4. \A x \in S : rank[x] \in Nat
  BY <1>2
<1>5. rank \in [S -> 0..(n - 1)] /\ rank \in [S -> Nat]
  <2>1. \A T : (\A x \in S : rank[x] \in T) => rank \in [S -> T]
    OBVIOUS
  <2>2. \A x \in S : rank[x] \in 0..(n - 1)
    BY <1>2
  <2> HIDE DEF n
  <2>3. rank \in [S -> 0..(n - 1)]
    BY <2>1, <2>2, Zenon
  <2>4. rank \in [S -> Nat]
    BY <1>4, <2>1, Zenon
  <2> QED
    BY <2>3, <2>4
<1>6. \A x, y \in S : rank[x] = rank[y] => x = y
  <2> SUFFICES ASSUME NEW x \in S, NEW y \in S, rank[x] = rank[y], x # y
               PROVE  FALSE
    OBVIOUS
  <2>1. CASE <<x, y>> \in R
    BY <1>3, <1>4, <2>1
  <2>2. CASE <<y, x>> \in R
    BY <1>3, <1>4, <2>2
  <2> QED
    BY <2>1, <2>2 DEF StrictOrder
<1>7. \A x, y \in S : <<x, y>> \in R <=> rank[x] < rank[y]
  <2> SUFFICES ASSUME NEW x \in S, NEW y \in S, rank[x] < rank[y]
               PROVE  <<x, y>> \in R
    BY <1>3
  <2>1. x # y
    BY <1>4
  <2>2. ~(rank[y] < rank[x])
    BY <1>4
  <2> QED
    BY <1>3, <2>1, <2>2 DEF StrictOrder
<1>8. \A k \in 1..n : \E x \in S : rank[x] = k - 1
  <2>1. rank \in Injection(S, 0..(n - 1))
    BY <1>5, <1>6 DEF Injection, IsInjective
  <2>2. IsFiniteSet(0..(n - 1)) /\ Cardinality(0..(n - 1)) = n
    BY <1>1, FS_Interval
  <2>3. rank \in Surjection(S, 0..(n - 1))
    BY <2>1, <2>2, FS_Injection
  <2> QED
    BY <1>1, <2>3 DEF Surjection
<1>9. \A x \in S : rank[x] < n
  BY <1>2
<1> QED
  BY <1>5, <1>6, <1>7, <1>8, <1>9 DEF Numbering

\* The n members of s are those of S, in the order R.
Lists(s, R, S, n) ==
  /\ s \in Seq(S) /\ Len(s) = n
  /\ \A k, l \in 1..n : k < l => <<s[k], s[l]>> \in R
  /\ \A x \in S : \E k \in 1..n : s[k] = x

\* A sequence that has at position k a member that k - 1 others come before lists
\* every member, in the order.
LEMMA ListedByRank ==
  ASSUME NEW S, NEW n \in Nat, NEW R,
         NEW rank, Numbering(rank, R, S, n),
         NEW s, s \in [1..n -> S], \A k \in 1..n : rank[s[k]] = k - 1
  PROVE  Lists(s, R, S, n)
<1>1. s \in Seq(S) /\ Len(s) = n
  OBVIOUS
<1>2. \A k, l \in 1..n : k < l => <<s[k], s[l]>> \in R
  <2> SUFFICES ASSUME NEW k \in 1..n, NEW l \in 1..n, k < l
               PROVE  <<s[k], s[l]>> \in R
    BY DEF Numbering
  <2>1. s[k] \in S /\ s[l] \in S /\ rank[s[k]] = k - 1 /\ rank[s[l]] = l - 1
    BY DEF Numbering
  <2> QED
    BY <2>1 DEF Numbering
<1>3. \A x \in S : \E k \in 1..n : s[k] = x
  <2> TAKE x \in S
  <2>1. rank[x] \in Nat /\ rank[x] + 1 \in 1..n /\ (rank[x] + 1) - 1 = rank[x]
    BY DEF Numbering
  <2>2. rank[s[rank[x] + 1]] = rank[x] /\ s[rank[x] + 1] \in S
    BY <2>1 DEF Numbering
  <2> QED
    BY <2>1, <2>2 DEF Numbering
<1> QED
  BY <1>1, <1>2, <1>3 DEF Lists

\* In a list in order, k - 1 members come before the k-th.
LEMMA ListRank ==
  ASSUME NEW S, NEW R, StrictOrder(R, S), NEW n \in Nat, NEW s, Lists(s, R, S, n)
  PROVE  /\ IsFiniteSet(S) /\ Cardinality(S) = n
         /\ \A k \in 1..n : s[k] \in S /\ Rank(R, S, s[k]) = k - 1
<1>1. /\ s \in [1..n -> S]
      /\ \A k, l \in 1..n : k < l => <<s[k], s[l]>> \in R
      /\ \A x \in S : \E k \in 1..n : s[k] = x
  <2>1. s \in Seq(S) /\ Len(s) = n
    BY DEF Lists
  <2>2. s \in [1..n -> S]
    BY <2>1
  <2> QED
    BY <2>2 DEF Lists
<1>2. \A k \in 1..n : s[k] \in S
  BY <1>1
<1>3. \A k, l \in 1..n : s[k] = s[l] => k = l
  <2> SUFFICES ASSUME NEW k \in 1..n, NEW l \in 1..n, s[k] = s[l], k < l
               PROVE  FALSE
    OBVIOUS
  <2> QED
    BY <1>1, <1>2 DEF StrictOrder
<1>4. IsFiniteSet(S) /\ Cardinality(S) = n
  <2>1. s \in Bijection(1..n, S)
    BY <1>1, <1>3 DEF Bijection, Injection, Surjection, IsInjective
  <2> QED
    BY <2>1, CountTo, FS_Bijection DEF ExistsBijection
<1>5. ASSUME NEW k \in 1..n
      PROVE  Rank(R, S, s[k]) = k - 1
  <2> DEFINE Before == {y \in S : <<y, s[k]>> \in R}
             f == [j \in 1..(k - 1) |-> s[j]]
  <2>1. \A j \in 1..n : <<s[j], s[k]>> \in R <=> j < k
    <3> SUFFICES ASSUME NEW j \in 1..n, <<s[j], s[k]>> \in R
                 PROVE  j < k
      BY <1>1
    <3>1. s[j] \in S /\ s[k] \in S
      BY <1>2
    <3>2. s[j] # s[k]
      BY <1>2 DEF StrictOrder
    <3>3. <<s[k], s[j]>> \notin R
      BY <3>1 DEF StrictOrder
    <3>4. ~(k < j)
      BY <1>1, <3>3
    <3> QED
      BY <3>2, <3>4
  <2>2. f \in [1..(k - 1) -> Before]
    BY <1>2, <2>1
  <2>3. \A y \in Before : \E j \in 1..(k - 1) : f[j] = y
    <3> TAKE y \in Before
    <3>1. PICK j \in 1..n : s[j] = y
      BY <1>1
    <3> QED
      BY <2>1, <3>1
  <2>4. \A i, j \in 1..(k - 1) : f[i] = f[j] => i = j
    BY <1>3
  <2> HIDE DEF f, Before
  <2>5. f \in Bijection(1..(k - 1), Before)
    BY <2>2, <2>3, <2>4 DEF Bijection, Injection, Surjection, IsInjective
  <2>6. IsFiniteSet(1..(k - 1)) /\ Cardinality(1..(k - 1)) = k - 1
    <3>1. k - 1 \in Nat
      OBVIOUS
    <3> QED
      BY <3>1, CountTo
  <2>7. Cardinality(Before) = k - 1
    BY <2>5, <2>6, FS_Bijection DEF ExistsBijection
  <2> QED
    BY <2>7 DEF Rank, Before
<1> QED
  BY <1>2, <1>4, <1>5

\* The sequence that takes for position k the member that k - 1 others come
\* before is such a list.
ByRank(R, S, n) == [k \in 1..n |-> CHOOSE x \in S : Rank(R, S, x) = k - 1]

\* Placing every element at its rank gives the list of the set in order.
LEMMA SortedByRank ==
  ASSUME NEW S, IsFiniteSet(S), NEW R, StrictOrder(R, S),
         NEW n \in Nat, n = Cardinality(S),
         NEW s, s = ByRank(R, S, n)
  PROVE  Lists(s, R, S, n) /\ \A k \in 1..n : s[k] \in S /\ Rank(R, S, s[k]) = k - 1
<1> DEFINE rank == [x \in S |-> Rank(R, S, x)]
           At(k) == CHOOSE x \in S : Rank(R, S, x) = k - 1
<1>1. Numbering(rank, R, S, n)
  <2>1. rank = [x \in S |-> Rank(R, S, x)]
    OBVIOUS
  <2> HIDE DEF rank
  <2> QED
    BY <2>1, RankIsPosition
<1>2. \A k \in 1..n : At(k) \in S /\ rank[At(k)] = k - 1
  <2> TAKE k \in 1..n
  <2>1. PICK x \in S : rank[x] = k - 1
    BY <1>1 DEF Numbering
  <2>2. At(k) \in S /\ Rank(R, S, At(k)) = k - 1
    BY <2>1
  <2> HIDE DEF At
  <2> QED
    BY <2>2
<1>3. \A k \in 1..n : Rank(R, S, At(k)) = k - 1
  BY <1>2
<1>4. s = [k \in 1..n |-> At(k)]
  BY DEF ByRank
<1> HIDE DEF rank, At
<1>5. s \in [1..n -> S] /\ \A k \in 1..n : rank[s[k]] = k - 1
  BY <1>2, <1>4
<1> QED
  BY <1>1, <1>2, <1>3, <1>4, <1>5, ListedByRank

=============================================================================
