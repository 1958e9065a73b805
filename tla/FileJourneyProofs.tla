------------------------- MODULE FileJourneyProofs --------------------------
(***************************************************************************)
(* Proofs about the way of a file through FileJourney.                     *)
(* The provider call (EmbeddingClient): for any number of inputs, any batch*)
(* sizes and any number of attempts, the batches tile the inputs, and a    *)
(* document is stored whole, from one attempt, each chunk with its vector. *)
(* The content (ContentPlan): for any bytes, any budget and any accepted   *)
(* chunk settings, the prefix is exact, the ranges are well formed and cover*)
(* it, both loops end, and the embed job accepts the plan.                 *)
(***************************************************************************)
EXTENDS FileJourney, OrderLemmas, SequenceTheorems, TLAPS

-----------------------------------------------------------------------------
(***************************************************************************)
(* The provider call.                                                      *)
(***************************************************************************)

Batch == [from : Nat, to : Nat]
Item  == [index : Nat, of : Nat, fits : BOOLEAN]

-----------------------------------------------------------------------------
(* The inductive invariant.                                                 *)

CallTypeOK ==
  /\ limit \in Nat /\ inputs \in Nat /\ attempt \in Nat
  /\ call \in {"idle", "sending", "retryable", "permanent", "embedded", "stored"}
  /\ sent \in Seq(Batch) /\ vectors \in Seq({vectors[i] : i \in DOMAIN vectors})

\* Before the call there is nothing; from then on there is something to send.
CallBegun ==
  IF call = "idle" THEN sent = <<>> /\ vectors = <<>> ELSE limit > 0 /\ inputs > 0

\* How far the batches have come.
Reached == IF sent = <<>> THEN 0 ELSE sent[Len(sent)].to

\* The batches lie end to end, full but for the last; what was reached is what the
\* number of the batches says, and no batch was sent after the last input.
BatchesInOrder ==
  /\ \A i \in 1..Len(sent) :
       /\ sent[i].from < sent[i].to /\ sent[i].to <= inputs
       /\ sent[i].to - sent[i].from <= limit
       /\ sent[i].from = IF i = 1 THEN 0 ELSE sent[i - 1].to
  /\ Reached = IF BatchStart < inputs THEN BatchStart ELSE inputs

\* There is one vector for each input reached, of this attempt.
VectorsOfAttempt ==
  /\ call = "sending" => Len(vectors) = Reached
  /\ call \in {"embedded", "stored"} => Len(vectors) = inputs /\ BatchStart >= inputs
  /\ \A i \in 1..Len(vectors) : vectors[i].attempt = attempt
  /\ call = "stored" => rows = [i \in 1..inputs |-> vectors[i]]

\* As long as the answers tell which vector is whose, the i-th vector is that of
\* the i-th input.
VectorsAreOwn == faithful => \A i \in 1..Len(vectors) : vectors[i].of = i

CallInv == CallTypeOK /\ CallBegun /\ BatchesInOrder /\ VectorsOfAttempt /\ VectorsAreOwn

-----------------------------------------------------------------------------
(* Answers.                                                                 *)

\* Whatever the provider answers is a sequence of items.
LEMMA AnswersAreItems ==
  ASSUME NEW lo \in Nat, NEW hi \in Nat, lo > 0, lo <= hi,
         NEW items \in Answers(lo, hi)
  PROVE  items \in Seq(Item)
<1> DEFINE k == hi - lo + 1
<1>1. k \in Nat /\ k > 0
  OBVIOUS
<1>2. ASSUME NEW a \in RightAnswers(lo, hi)
      PROVE  a \in [1..k -> Item] /\ a \in Seq(Item) /\ Len(a) = k
  <2>1. PICK o \in [1..k -> 1..k] : a = Items(lo, hi, o)
    BY DEF RightAnswers, Orders
  <2>2. a = [i \in 1..k |-> [index |-> o[i] - 1, of |-> lo + o[i] - 1, fits |-> TRUE]]
    BY <2>1 DEF Items
  <2>3. \A i \in 1..k : [index |-> o[i] - 1, of |-> lo + o[i] - 1, fits |-> TRUE] \in Item
    <3> SUFFICES ASSUME NEW i \in 1..k
                 PROVE  [index |-> o[i] - 1, of |-> lo + o[i] - 1, fits |-> TRUE] \in Item
      OBVIOUS
    <3>1. o[i] \in 1..k
      BY <2>1
    <3>2. o[i] - 1 \in Nat /\ lo + o[i] - 1 \in Nat
      BY <1>1, <3>1
    <3> QED
      BY <3>2 DEF Item
  <2>4. a \in [1..k -> Item]
    BY <2>2, <2>3
  <2> QED
    BY <1>1, <2>4
<1>3. CASE items \in RightAnswers(lo, hi)
  BY <1>2, <1>3
<1>4. ASSUME NEW a \in RightAnswers(lo, hi), items \in WrongIndex(a)
      PROVE  items \in Seq(Item)
  <2>1. a \in [1..k -> Item] /\ Len(a) = k
    BY <1>2
  <2>2. PICK i \in 1..k, x \in 0..k : items = [a EXCEPT ![i].index = x]
    BY <1>4, <2>1 DEF WrongIndex
  <2>3. items = [a EXCEPT ![i] = [a[i] EXCEPT !.index = x]]
    BY <2>2
  <2>4. [a[i] EXCEPT !.index = x] \in Item
    <3>1. a[i] \in Item /\ x \in Nat
      BY <2>1, <2>2, <1>1
    <3> QED
      BY <3>1 DEF Item
  <2>5. items \in [1..k -> Item]
    BY <2>1, <2>3, <2>4
  <2> QED
    BY <1>1, <2>5
<1>5. ASSUME NEW a \in RightAnswers(lo, hi), items \in WrongSize(a)
      PROVE  items \in Seq(Item)
  <2>1. a \in [1..k -> Item]
    BY <1>2
  <2>2. PICK i \in 1..k : items = [a EXCEPT ![i].fits = FALSE]
    BY <1>5, <2>1 DEF WrongSize
  <2>3. items = [a EXCEPT ![i] = [a[i] EXCEPT !.fits = FALSE]]
    BY <2>2
  <2>4. [a[i] EXCEPT !.fits = FALSE] \in Item
    BY <2>1, <2>2, <1>1 DEF Item
  <2>5. items \in [1..k -> Item]
    BY <2>1, <2>3, <2>4
  <2> QED
    BY <1>1, <2>5
<1>6. ASSUME NEW a \in RightAnswers(lo, hi), items \in WrongNumber(a)
      PROVE  items \in Seq(Item)
  <2>1. a \in Seq(Item) /\ a[1] \in Item /\ a # <<>>
    BY <1>1, <1>2
  <2> QED
    BY <1>6, <2>1 DEF WrongNumber
<1>7. CASE items = Unnumbered(lo, hi)
  <2>1. \A i \in 1..k : [index |-> 0, of |-> lo + i - 1, fits |-> TRUE] \in Item
    BY <1>1 DEF Item
  <2>2. items \in [1..k -> Item]
    BY <1>7, <2>1 DEF Unnumbered
  <2> QED
    BY <1>1, <2>2
<1>8. items \in WrongAnswers(lo, hi) =>
        \E a \in RightAnswers(lo, hi) :
          items \in WrongIndex(a) \cup WrongSize(a) \cup WrongNumber(a)
  BY DEF WrongAnswers
<1> QED
  BY <1>3, <1>4, <1>5, <1>6, <1>7, <1>8 DEF Answers

\* Sorting by index permutes the items: each one goes where as many others go
\* before it.
LEMMA SortedItems ==
  ASSUME NEW items \in Seq(Item)
  PROVE  /\ Len(InIndexOrder(items)) = Len(items)
         /\ \A k \in 1..Len(items) :
              \E a \in 1..Len(items) :
                /\ InIndexOrder(items)[k] = items[a]
                /\ Cardinality({b \in 1..Len(items) : GoesBefore(items, b, a)}) = k - 1
<1> DEFINE n == Len(items)
           D == 1..n
           R == {p \in D \X D : GoesBefore(items, p[1], p[2])}
           s == ByRank(R, D, n)
<1>1. /\ n \in Nat /\ DOMAIN items = D /\ IsFiniteSet(D) /\ Cardinality(D) = n
      /\ \A a \in D : a \in Nat /\ items[a].index \in Nat
  <2>1. n \in Nat /\ DOMAIN items = D
    BY LenProperties
  <2>2. \A a \in D : items[a].index \in Nat
    <3>1. \A a \in D : items[a] \in Item
      <4> HIDE DEF Item
      <4> QED
        BY ElementOfSeq
    <3> QED
      BY <3>1 DEF Item
  <2> QED
    BY <2>1, <2>2, CountTo
<1>2. \A a, b \in D : <<a, b>> \in R <=> GoesBefore(items, a, b)
  OBVIOUS
<1> HIDE DEF n, D, R, s
<1>3. StrictOrder(R, D)
  <2> DEFINE key(a) == items[a].index
  <2>1. \A a, b \in D : <<a, b>> \in R <=> key(a) < key(b) \/ (key(a) = key(b) /\ a < b)
    BY <1>2 DEF GoesBefore
  <2>2. \A a \in D : a \in Nat /\ key(a) \in Nat
    BY <1>1
  <2> HIDE DEF key
  <2> QED
    BY <2>1, <2>2 DEF StrictOrder
<1>4. \A a \in D : Rank(R, D, a) = Cardinality({b \in D : GoesBefore(items, b, a)})
  <2> TAKE a \in D
  <2>1. {b \in D : <<b, a>> \in R} = {b \in D : GoesBefore(items, b, a)}
    BY <1>2
  <2> QED
    BY <2>1 DEF Rank
<1>5. \A k \in 1..n : s[k] \in D /\ Rank(R, D, s[k]) = k - 1
  BY <1>1, <1>3, SortedByRank DEF s
<1>6. \A k \in D : InIndexOrder(items)[k] = items[s[k]]
  <2> DEFINE At(k) == CHOOSE a \in D : Cardinality({b \in D : GoesBefore(items, b, a)}) = k - 1
             Place(k) == CHOOSE a \in D : Rank(R, D, a) = k - 1
  <2>1. \A k \in D : At(k) = Place(k)
    BY <1>4
  <2>2. InIndexOrder(items) = [k \in D |-> items[At(k)]] /\ s = [k \in D |-> Place(k)]
    BY <1>1 DEF InIndexOrder, s, ByRank, D
  <2> HIDE DEF At, Place
  <2> QED
    BY <2>1, <2>2
<1>7. Len(InIndexOrder(items)) = n
  <2> DEFINE At(k) == items[CHOOSE a \in D : Cardinality({b \in D : GoesBefore(items, b, a)}) = k - 1]
  <2>1. InIndexOrder(items) = [k \in 1..n |-> At(k)]
    BY <1>1 DEF InIndexOrder, D
  <2> HIDE DEF At
  <2> QED
    BY <1>1, <2>1
<1> QED
  BY <1>4, <1>5, <1>6, <1>7 DEF n, D

\* Numbers 0 to k - 1 on k places: each is on one place only, and as many places
\* have smaller numbers as the number says.
LEMMA AllNumbersUsed ==
  ASSUME NEW k \in Nat, NEW f \in [1..k -> Nat],
         \A x \in 0..(k - 1) : \E j \in 1..k : f[j] = x
  PROVE  /\ f \in [1..k -> 0..(k - 1)]
         /\ \A i, j \in 1..k : f[i] = f[j] => i = j
         /\ \A j \in 1..k : Cardinality({i \in 1..k : f[i] < f[j]}) = f[j]
<1> DEFINE T == {f[j] : j \in 1..k}
           N == 0..(k - 1)
<1>1. IsFiniteSet(1..k) /\ Cardinality(1..k) = k /\ IsFiniteSet(N) /\ Cardinality(N) = k
  BY CountTo
<1>2. f \in Surjection(1..k, T)
  BY DEF Surjection
<1>3. IsFiniteSet(T) /\ Cardinality(T) <= k
  BY <1>1, <1>2, FS_Surjection
<1>4. N \in SUBSET T
  OBVIOUS
<1>5. T = N
  <2> HIDE DEF T, N
  <2>1. Cardinality(N) <= Cardinality(T) /\ Cardinality(T) \in Nat
    BY <1>3, <1>4, FS_Subset, FS_CardinalityType
  <2>2. Cardinality(N) = Cardinality(T)
    BY <1>1, <1>3, <2>1
  <2> QED
    BY <1>3, <1>4, <2>2, FS_Subset
<1>6. f \in Surjection(1..k, N)
  BY <1>2, <1>5
<1>7. f \in Injection(1..k, N)
  <2> HIDE DEF N
  <2> QED
    BY <1>1, <1>6, FS_SurjSameCardinalityImpliesInj
<1>8. f \in [1..k -> N] /\ \A i, j \in 1..k : f[i] = f[j] => i = j
  BY <1>7 DEF Injection, IsInjective
<1>9. ASSUME NEW j \in 1..k
      PROVE  Cardinality({i \in 1..k : f[i] < f[j]}) = f[j]
  <2> DEFINE B == {i \in 1..k : f[i] < f[j]}
             C == 0..(f[j] - 1)
             g == [i \in B |-> f[i]]
  <2>1. f[j] \in Nat /\ f[j] < k
    BY <1>8
  <2>2. IsFiniteSet(B) /\ B \in SUBSET (1..k)
    BY <1>1, FS_Subset
  <2>3. \A i \in B : f[i] \in C
    <3> TAKE i \in B
    <3>1. f[i] \in N /\ f[i] < f[j]
      BY <1>8
    <3> QED
      BY <2>1, <3>1
  <2>4. \A x \in C : \E i \in B : f[i] = x
    <3> TAKE x \in C
    <3>1. x \in 0..(k - 1) /\ x < f[j]
      BY <2>1
    <3> QED
      BY <3>1
  <2>5. g \in Injection(B, C) /\ g \in Surjection(B, C)
    <3> HIDE DEF B, C
    <3>1. g \in [B -> C]
      BY <2>3
    <3>2. \A a, b \in B : g[a] = g[b] => a = b
      BY <1>8, <2>2
    <3>3. \A x \in C : \E i \in B : g[i] = x
      BY <2>4
    <3> HIDE DEF g
    <3> QED
      BY <3>1, <3>2, <3>3 DEF Injection, IsInjective, Surjection
  <2>6. Cardinality(C) = Cardinality(B)
    <3> HIDE DEF B, C, g
    <3> QED
      BY <2>2, <2>5, FS_Surjection
  <2>7. Cardinality(C) = f[j]
    BY <2>1, CountTo
  <2> QED
    BY <2>6, <2>7
<1> QED
  BY <1>8, <1>9

\* If the answer tells which vector is whose, sorting puts the vector of the
\* p-th input of the batch at place p.
LEMMA SortedAreOwn ==
  ASSUME NEW lo \in Nat, NEW hi \in Nat, lo > 0, lo <= hi,
         NEW items \in Seq(Item), Len(items) = hi - lo + 1,
         SaysWhoseIsWhose(items, lo, hi)
  PROVE  \A p \in 1..Len(items) : InIndexOrder(items)[p].of = lo + p - 1
<1> DEFINE n == Len(items)
<1>0. n \in Nat /\ n = hi - lo + 1 /\ DOMAIN items = 1..n
  BY LenProperties
<1> SUFFICES ASSUME NEW p \in 1..n
             PROVE  InIndexOrder(items)[p].of = lo + p - 1
  OBVIOUS
<1>1. PICK a \in 1..n :
        /\ InIndexOrder(items)[p] = items[a]
        /\ Cardinality({b \in 1..n : GoesBefore(items, b, a)}) = p - 1
  BY SortedItems
<1> HIDE DEF n
<1>2. CASE \A i \in lo..hi : \E j \in DOMAIN items : items[j].index = i - lo /\ items[j].of = i
  <2> DEFINE f == [j \in 1..n |-> items[j].index]
  <2>1. \A x \in 0..(n - 1) : \E j \in 1..n : items[j].index = x /\ items[j].of = lo + x
    <3> TAKE x \in 0..(n - 1)
    <3>1. lo + x \in lo..hi /\ (lo + x) - lo = x
      BY <1>0
    <3> QED
      BY <1>0, <1>2, <3>1
  <2>2. \A x \in 0..(n - 1) : \E j \in 1..n : f[j] = x
    BY <2>1
  <2>3. f \in [1..n -> Nat]
    <3>1. \A j \in 1..n : items[j] \in Item
      <4> HIDE DEF Item
      <4> QED
        BY <1>0, ElementOfSeq
    <3> QED
      BY <3>1 DEF Item
  <2>4. \A j \in 1..n : f[j] = items[j].index
    OBVIOUS
  <2> HIDE DEF f
  <2>5. /\ f \in [1..n -> 0..(n - 1)]
        /\ \A i, j \in 1..n : f[i] = f[j] => i = j
        /\ \A j \in 1..n : Cardinality({i \in 1..n : f[i] < f[j]}) = f[j]
    BY <1>0, <2>2, <2>3, AllNumbersUsed
  <2>6. \A b \in 1..n : GoesBefore(items, b, a) <=> f[b] < f[a]
    <3> TAKE b \in 1..n
    <3>1. f[a] \in 0..(n - 1) /\ f[b] \in 0..(n - 1) /\ (f[a] = f[b] => a = b)
      BY <2>5
    <3> QED
      BY <1>0, <2>4, <3>1 DEF GoesBefore
  <2>7. {b \in 1..n : GoesBefore(items, b, a)} = {b \in 1..n : f[b] < f[a]}
    BY <2>6
  <2>8. f[a] = p - 1
    BY <1>1, <2>5, <2>7
  <2>9. f[a] \in 0..(n - 1)
    BY <2>5
  <2>10. PICK j \in 1..n : items[j].index = f[a] /\ items[j].of = lo + f[a]
    BY <2>1, <2>9
  <2>11. j = a
    BY <2>4, <2>5, <2>10
  <2> QED
    BY <1>0, <1>1, <2>8, <2>10, <2>11
<1>3. CASE \A j \in DOMAIN items : items[j].index = 0 /\ items[j].of = lo + j - 1
  <2>1. \A b \in 1..n : GoesBefore(items, b, a) <=> b < a
    BY <1>0, <1>3 DEF GoesBefore
  <2>2. {b \in 1..n : GoesBefore(items, b, a)} = 1..(a - 1)
    BY <1>0, <2>1
  <2>3. Cardinality(1..(a - 1)) = a - 1
    BY <1>0, CountTo
  <2>4. a = p
    <3>1. a - 1 = p - 1
      BY <1>1, <2>2, <2>3
    <3>2. a \in Nat /\ p \in Nat
      BY <1>0
    <3> QED
      BY <3>1, <3>2
  <2> QED
    BY <1>0, <1>1, <1>3, <2>4
<1> QED
  BY <1>2, <1>3 DEF SaysWhoseIsWhose

-----------------------------------------------------------------------------
(* Steps.                                                                   *)

\* Z3 does not see this by itself when x is a bound variable.
LEMMA ZeroTimes == \A x \in Nat : 0 * x = 0
OBVIOUS

\* Nothing is sent before the job is claimed.
LEMMA InitCall == EmbedInit => CallInv
<1> SUFFICES ASSUME EmbedInit PROVE CallInv
  OBVIOUS
<1>1. sent = <<>> /\ vectors = <<>> /\ Len(sent) = 0 /\ Len(vectors) = 0
  BY DEF EmbedInit
<1>2. CallTypeOK
  BY <1>1 DEF EmbedInit, CallTypeOK
<1>3. BatchesInOrder
  BY <1>1 DEF EmbedInit, BatchesInOrder, Reached, BatchStart
<1> QED
  BY <1>1, <1>2, <1>3 DEF EmbedInit, CallInv, CallBegun, VectorsOfAttempt, VectorsAreOwn

\* The handler calls the client with the prepared chunks.
LEMMA BeginStep ==
  ASSUME CallInv, NEW n, BeginCall(n)
  PROVE  CallInv'
<1>1. sent = <<>> /\ vectors = <<>> /\ Len(sent) = 0 /\ Len(vectors) = 0
  BY DEF BeginCall, CallInv, CallBegun
<1>2. /\ inputs' \in Nat \ {0} /\ limit' \in Nat \ {0} /\ attempt' = attempt + 1
      /\ call' = "sending" /\ sent' = sent /\ vectors' = vectors
  BY BatchAssumption DEF BeginCall
<1>3. CallTypeOK'
  BY <1>2 DEF CallInv, CallTypeOK
<1>4. BatchesInOrder'
  <2>1. Len(sent') = 0 /\ 0 * limit' = 0
    BY <1>1, <1>2, ZeroTimes
  <2>2. BatchStart' = 0
    BY <2>1 DEF BatchStart
  <2>3. Reached' = 0
    BY <1>1, <1>2 DEF Reached
  <2>4. inputs' \in Nat /\ inputs' > 0
    BY <1>1, <1>2
  <2> QED
    BY <2>1, <2>2, <2>3, <2>4 DEF BatchesInOrder
<1> QED
  BY <1>1, <1>2, <1>3, <1>4 DEF CallInv, CallBegun, VectorsOfAttempt, VectorsAreOwn, Reached

\* The job starts over.
LEMMA RetryStep ==
  ASSUME CallInv, Retry
  PROVE  CallInv'
<1>1. /\ sent' = <<>> /\ vectors' = <<>> /\ Len(sent') = 0 /\ Len(vectors') = 0
      /\ call' = "sending" /\ limit' \in Nat \ {0} /\ inputs' = inputs
      /\ attempt' = attempt + 1 /\ inputs > 0
  BY BatchAssumption DEF Retry, CallInv, CallBegun
<1>2. CallTypeOK'
  BY <1>1 DEF CallInv, CallTypeOK
<1>3. BatchesInOrder'
  <2>1. Len(sent') = 0 /\ 0 * limit' = 0
    BY <1>1, ZeroTimes
  <2>2. BatchStart' = 0
    BY <2>1 DEF BatchStart
  <2>3. Reached' = 0
    BY <1>1 DEF Reached
  <2>4. inputs' \in Nat /\ inputs' > 0
    BY <1>1 DEF CallInv, CallTypeOK
  <2> QED
    BY <2>1, <2>2, <2>3, <2>4 DEF BatchesInOrder
<1> QED
  BY <1>1, <1>2, <1>3 DEF CallInv, CallBegun, VectorsOfAttempt, VectorsAreOwn, Reached

\* A batch that is answered follows the batches before it.
LEMMA AnsweredStep ==
  ASSUME CallInv, BatchAnswered
  PROVE  CallInv'
<1> DEFINE from == BatchStart
           to == BatchEnd(from)
           n == Len(sent)
<1>0. /\ CallTypeOK /\ limit > 0 /\ inputs > 0 /\ call = "sending" /\ n \in Nat
      /\ BatchesInOrder /\ VectorsOfAttempt
  BY DEF CallInv, CallBegun, BatchAnswered
<1>1. /\ from \in Nat /\ from < inputs /\ from = n * limit
      /\ (n + 1) * limit = from + limit
  <2>1. n \in Nat /\ limit \in Nat
    BY <1>0 DEF CallTypeOK
  <2>2. n * limit \in Nat /\ (n + 1) * limit = n * limit + limit
    BY <2>1
  <2> QED
    BY <2>2 DEF BatchAnswered, BatchStart
<1>2. /\ to \in Nat /\ from < to /\ to <= inputs /\ to - from <= limit
      /\ to = IF from + limit < inputs THEN from + limit ELSE inputs
  BY <1>0, <1>1 DEF BatchEnd, CallTypeOK
<1>3. Reached = from
  BY <1>0, <1>1 DEF BatchesInOrder
<1>4. PICK items \in Answers(from + 1, to) :
        /\ sent' = Append(sent, [from |-> from, to |-> to])
        /\ faithful' = (faithful /\ SaysWhoseIsWhose(items, from + 1, to))
        /\ IF Accepted(InIndexOrder(items), to - from)
           THEN /\ vectors' = vectors \o [i \in DOMAIN items |->
                     [of |-> InIndexOrder(items)[i].of, attempt |-> attempt]]
                /\ UNCHANGED call
           ELSE call' = "permanent" /\ UNCHANGED vectors
  BY DEF BatchAnswered
<1>5. UNCHANGED <<limit, inputs, attempt, rows>>
  BY DEF BatchAnswered
<1> DEFINE batch == [from |-> from, to |-> to]
<1> HIDE DEF from, to, n
<1>6. batch \in Batch
  BY <1>1, <1>2 DEF Batch
<1>7. /\ sent' \in Seq(Batch) /\ Len(sent') = n + 1
      /\ \A i \in 1..n : sent'[i] = sent[i]
      /\ sent'[n + 1] = batch
  BY <1>0, <1>4, <1>6, AppendProperties DEF CallTypeOK, n
<1>8. items \in Seq(Item)
  BY <1>1, <1>2, <1>4, AnswersAreItems
<1>9. /\ BatchesInOrder'
      /\ Reached' = to
  <2>1. Reached' = to
    BY <1>0, <1>7, AppendProperties DEF Reached, batch
  <2>2. to = IF BatchStart' < inputs' THEN BatchStart' ELSE inputs'
    BY <1>0, <1>1, <1>2, <1>5, <1>7 DEF BatchStart, CallTypeOK
  <2>3. ASSUME NEW i \in 1..Len(sent')
        PROVE  /\ sent'[i].from < sent'[i].to /\ sent'[i].to <= inputs'
               /\ sent'[i].to - sent'[i].from <= limit'
               /\ sent'[i].from = IF i = 1 THEN 0 ELSE sent'[i - 1].to
    <3>1. CASE i \in 1..n
      <4>1. sent'[i] = sent[i] /\ (i # 1 => sent'[i - 1] = sent[i - 1])
        BY <1>0, <1>7, <3>1
      <4> QED
        BY <1>0, <1>5, <3>1, <4>1 DEF BatchesInOrder, n
    <3>2. CASE i = n + 1
      <4>1. sent'[i].from = from /\ sent'[i].to = to
        BY <1>7, <3>2 DEF batch
      <4>2. from = IF i = 1 THEN 0 ELSE sent'[i - 1].to
        <5>1. CASE n = 0
          BY <1>0, <1>1, <3>2, <5>1, ZeroTimes DEF CallTypeOK
        <5>2. CASE n > 0
          <6>1. sent # <<>> /\ sent'[n] = sent[n]
            BY <1>0, <1>7, <5>2 DEF n
          <6> QED
            BY <1>0, <1>3, <3>2, <5>2, <6>1 DEF Reached, n
        <5> QED
          BY <1>0, <5>1, <5>2
      <4> QED
        BY <1>2, <1>5, <4>1, <4>2
    <3> QED
      BY <1>0, <1>7, <3>1, <3>2
  <2> QED
    BY <2>1, <2>2, <2>3 DEF BatchesInOrder
<1>10. CASE Accepted(InIndexOrder(items), to - from)
  <2> DEFINE extra == [i \in DOMAIN items |->
                         [of |-> InIndexOrder(items)[i].of, attempt |-> attempt]]
             S == {vectors[i] : i \in DOMAIN vectors} \cup {extra[i] : i \in DOMAIN extra}
  <2>1. Len(items) = to - from /\ DOMAIN items = 1..(to - from)
    BY <1>8, <1>10, SortedItems DEF Accepted
  <2>2. \A i \in 1..(to - from) : extra[i].attempt = attempt
    BY <2>1
  <2>3. extra \in [1..(to - from) -> S]
    BY <2>1
  <2> HIDE DEF extra
  <2>4. /\ vectors \in Seq(S) /\ extra \in Seq(S)
        /\ Len(vectors) \in Nat /\ Len(extra) = to - from
    <3>1. vectors \in Seq(S)
      BY <1>0, SeqMonotonic DEF CallTypeOK
    <3>2. to - from \in Nat
      BY <1>1, <1>2
    <3> QED
      BY <2>3, <3>1, <3>2
  <2> HIDE DEF S
  <2>5. vectors' = vectors \o extra /\ call' = "sending"
    BY <1>0, <1>4, <1>10 DEF extra
  <2>c. /\ vectors \o extra \in Seq(S)
        /\ Len(vectors \o extra) = Len(vectors) + Len(extra)
        /\ \A i \in 1..(Len(vectors) + Len(extra)) :
             (vectors \o extra)[i] =
               IF i <= Len(vectors) THEN vectors[i] ELSE extra[i - Len(vectors)]
    BY <2>4, ConcatProperties
  <2>6. /\ vectors' \in Seq(S) /\ Len(vectors') = Len(vectors) + (to - from)
        /\ \A i \in 1..Len(vectors') :
             vectors'[i] = IF i <= Len(vectors) THEN vectors[i] ELSE extra[i - Len(vectors)]
    BY <2>4, <2>5, <2>c
  <2>7. Len(vectors') = to
    BY <1>0, <1>1, <1>2, <1>3, <2>4, <2>6 DEF VectorsOfAttempt
  <2>8. \A i \in 1..Len(vectors') : vectors'[i].attempt = attempt
    <3> SUFFICES ASSUME NEW i \in 1..Len(vectors') PROVE vectors'[i].attempt = attempt
      OBVIOUS
    <3>1. CASE i <= Len(vectors)
      BY <1>0, <2>4, <2>6, <3>1 DEF VectorsOfAttempt
    <3>2. CASE ~(i <= Len(vectors))
      <4>1. i - Len(vectors) \in 1..(to - from)
        BY <1>1, <1>2, <2>4, <2>6, <3>2
      <4> QED
        BY <2>2, <2>6, <3>2, <4>1
    <3> QED
      BY <3>1, <3>2
  <2>9. vectors' \in Seq({vectors'[i] : i \in DOMAIN vectors'})
    BY <2>6
  <2>10. CallTypeOK'
    BY <1>0, <1>5, <1>7, <2>5, <2>9 DEF CallTypeOK
  <2>11. VectorsOfAttempt'
    BY <1>5, <1>9, <2>5, <2>7, <2>8 DEF VectorsOfAttempt
  <2>12. VectorsAreOwn'
    <3> SUFFICES ASSUME faithful, SaysWhoseIsWhose(items, from + 1, to),
                        NEW i \in 1..Len(vectors')
                 PROVE  vectors'[i].of = i
      BY <1>4 DEF VectorsAreOwn
    <3>1. CASE i <= Len(vectors)
      BY <1>0, <2>4, <2>6, <3>1 DEF CallInv, VectorsAreOwn
    <3>2. CASE ~(i <= Len(vectors))
      <4>1. Len(vectors) = from
        BY <1>0, <1>3 DEF VectorsOfAttempt
      <4>2. i - from \in 1..(to - from) /\ i \in Nat
        BY <1>1, <1>2, <2>7, <3>2, <4>1
      <4>3. vectors'[i] = extra[i - from]
        BY <2>6, <3>2, <4>1
      <4>4. extra[i - from].of = InIndexOrder(items)[i - from].of
        BY <2>1, <4>2 DEF extra
      <4>5. InIndexOrder(items)[i - from].of = (from + 1) + (i - from) - 1
        <5>1. from + 1 \in Nat /\ from + 1 > 0 /\ from + 1 <= to
              /\ Len(items) = to - (from + 1) + 1
          BY <1>1, <1>2, <2>1
        <5>2. \A p \in 1..Len(items) : InIndexOrder(items)[p].of = (from + 1) + p - 1
          BY <1>2, <1>8, <5>1, SortedAreOwn
        <5>3. i - from \in 1..Len(items)
          BY <2>1, <4>2
        <5> QED
          BY <5>2, <5>3
      <4>6. (from + 1) + (i - from) - 1 = i
        BY <1>1, <4>2
      <4> QED
        BY <4>3, <4>4, <4>5, <4>6
    <3> QED
      BY <3>1, <3>2
  <2> QED
    BY <1>0, <1>5, <1>9, <2>5, <2>10, <2>11, <2>12 DEF CallInv, CallBegun
<1>11. CASE ~Accepted(InIndexOrder(items), to - from)
  <2>1. call' = "permanent" /\ vectors' = vectors
    BY <1>4, <1>11
  <2>2. CallTypeOK'
    BY <1>0, <1>5, <1>7, <2>1 DEF CallTypeOK
  <2>3. VectorsAreOwn'
    BY <1>4, <2>1 DEF CallInv, VectorsAreOwn
  <2> QED
    BY <1>0, <1>5, <1>9, <2>1, <2>2, <2>3 DEF CallInv, CallBegun, VectorsOfAttempt
<1> QED
  BY <1>10, <1>11

\* Failures end the attempt and leave what it sent and collected.
LEMMA FailedStep ==
  ASSUME CallInv,
         \/ \E c \in {"connect", "timeout", "request", "send_body", "answer_body", "decode"} :
              BatchFails(c)
         \/ \E s \in {"4xx", "5xx"} : BatchRefused(s)
  PROVE  CallInv'
<1>1. /\ call = "sending" /\ call' \in {"retryable", "permanent"}
      /\ UNCHANGED <<limit, inputs, attempt, sent, vectors, faithful, rows>>
  BY DEF BatchFails, BatchRefused
<1> QED
  BY <1>1 DEF CallInv, CallTypeOK, CallBegun, BatchesInOrder, Reached, BatchStart,
              VectorsOfAttempt, VectorsAreOwn

\* The call returns when the last batch is answered.
LEMMA ReturnStep ==
  ASSUME CallInv, CallReturns
  PROVE  CallInv'
<1>1. /\ call = "sending" /\ BatchStart >= inputs
      /\ UNCHANGED <<limit, inputs, attempt, sent, vectors, faithful, rows>>
  BY DEF CallReturns
<1>2. \/ call' = "embedded" /\ Len(vectors) = inputs
      \/ call' = "permanent"
  BY DEF CallReturns
<1> QED
  BY <1>1, <1>2 DEF CallInv, CallTypeOK, CallBegun, BatchesInOrder, Reached, BatchStart,
                    VectorsOfAttempt, VectorsAreOwn

\* The rows are what was collected.
LEMMA StoreStep ==
  ASSUME CallInv, StoreRows
  PROVE  CallInv'
<1>1. /\ call = "embedded" /\ call' = "stored" /\ rows' = [i \in 1..inputs |-> vectors[i]]
      /\ UNCHANGED <<limit, inputs, attempt, sent, vectors, faithful>>
  BY DEF StoreRows
<1> QED
  BY <1>1 DEF CallInv, CallTypeOK, CallBegun, BatchesInOrder, Reached, BatchStart,
              VectorsOfAttempt, VectorsAreOwn

\* The other parts of the journey leave the call alone.
LEMMA CallFrame ==
  ASSUME CallInv, UNCHANGED embedVars
  PROVE  CallInv'
BY DEF embedVars, CallInv, CallTypeOK, CallBegun, BatchesInOrder, Reached, BatchStart,
       VectorsOfAttempt, VectorsAreOwn

\* Every step keeps the invariant of the call.
LEMMA NextCall == CallInv /\ [JourneyNext]_journeyVars => CallInv'
<1> SUFFICES ASSUME CallInv, [JourneyNext]_journeyVars PROVE CallInv'
  OBVIOUS
<1>1. CASE HandOff
  BY <1>1, BeginStep DEF HandOff
<1>2. CASE EmbedNext
  BY <1>2, AnsweredStep, FailedStep, ReturnStep, StoreStep, RetryStep DEF EmbedNext
<1>3. CASE UNCHANGED embedVars
  BY <1>3, CallFrame
<1> QED
  BY <1>1, <1>2, <1>3 DEF JourneyNext, PlanDone, ReadCandidate, journeyVars

-----------------------------------------------------------------------------
(* Theorems.                                                                *)

\* The invariant of the call holds throughout the journey of a file.
THEOREM CallInvariant == JourneySpec => []CallInv
<1>1. JourneyInit => CallInv
  BY InitCall DEF JourneyInit
<1> QED
  BY <1>1, NextCall, PTL DEF JourneySpec

\* A stored document has one vector per chunk, all of the last attempt, however
\* often the job failed half-way before.
THEOREM DocumentsAreStoredWhole == JourneySpec => []StoredWholeFromOneAttempt
<1>1. CallInv => StoredWholeFromOneAttempt
  BY DEF CallInv, VectorsOfAttempt, StoredWholeFromOneAttempt
<1> QED
  BY <1>1, CallInvariant, PTL

\* Sorting, batching and pairing keep every chunk with the vector of its own text,
\* in whatever order the provider lists its items (parse_response_vectors).
THEOREM ChunksGetTheirVectors == JourneySpec => []ChunkGetsOwnVector
<1>1. CallInv => ChunkGetsOwnVector
  <2> SUFFICES ASSUME CallInv, call = "stored", faithful, NEW i \in DOMAIN rows
               PROVE  rows[i].of = i
    BY DEF ChunkGetsOwnVector
  <2>1. rows = [j \in 1..inputs |-> vectors[j]] /\ Len(vectors) = inputs
    BY DEF CallInv, VectorsOfAttempt
  <2>2. i \in 1..Len(vectors) /\ rows[i] = vectors[i]
    BY <2>1
  <2> QED
    BY <2>2 DEF CallInv, VectorsAreOwn
<1> QED
  BY <1>1, CallInvariant, PTL

\* Batches are consecutive, not empty, not too large, and cover the inputs.
THEOREM BatchesCoverInputs == JourneySpec => []BatchesTileInputs
<1>1. CallInv => BatchesTileInputs
  <2> SUFFICES ASSUME CallInv PROVE BatchesTileInputs
    OBVIOUS
  <2>1. DOMAIN sent = 1..Len(sent)
    BY DEF CallInv, CallTypeOK
  <2>2. call \in {"embedded", "stored"} => sent # <<>> /\ sent[Len(sent)].to = inputs
    <3> SUFFICES ASSUME call \in {"embedded", "stored"}
                 PROVE  sent # <<>> /\ sent[Len(sent)].to = inputs
      OBVIOUS
    <3>1. inputs \in Nat /\ inputs > 0 /\ BatchStart >= inputs
      BY DEF CallInv, CallTypeOK, CallBegun, VectorsOfAttempt
    <3>2. BatchStart \in Nat
      BY DEF CallInv, CallTypeOK, BatchStart
    <3>3. Reached = inputs
      BY <3>1, <3>2 DEF CallInv, BatchesInOrder
    <3> QED
      BY <3>1, <3>3 DEF Reached
  <2> QED
    BY <2>1, <2>2 DEF CallInv, BatchesInOrder, BatchesTileInputs, Last
<1> QED
  BY <1>1, CallInvariant, PTL

-----------------------------------------------------------------------------
(***************************************************************************)
(* The content.                                                            *)
(***************************************************************************)

-----------------------------------------------------------------------------
(* UTF-8.                                                                   *)

\* Valid text taken apart: scalars are not broken inside the first n bytes, no
\* continuation byte is on its own, and the last scalar ends within them.
Whole(n) == \A i \in 1..n : file[i] # "c" =>
              \A j \in (i + 1)..(i + Width(file[i]) - 1) : j <= n => file[j] = "c"
Owned(n) == \A i \in 1..n : file[i] = "c" =>
              \E j \in 1..i : file[j] # "c" /\ i < j + Width(file[j])
Full(n)  == \A i \in 1..n : file[i] # "c" => i + Width(file[i]) - 1 <= n

\* A scalar of the model has one to three bytes.
LEMMA WidthRange == \A b : Width(b) \in 1..3
BY DEF Width

\* str::from_utf8 accepts n bytes exactly if all three conditions hold.
LEMMA ValidParts ==
  ASSUME NEW n \in Nat
  PROVE  ValidUtf8(n) <=> Whole(n) /\ Owned(n) /\ Full(n)
<1> DEFINE Own(i) == \E j \in 1..(i - 1) : /\ file[j] # "c" /\ i < j + Width(file[j])
                                           /\ \A k \in (j + 1)..i : file[k] = "c"
           Lead(i) == /\ i + Width(file[i]) - 1 <= n
                      /\ \A j \in (i + 1)..(i + Width(file[i]) - 1) : file[j] = "c"
<1>1. ValidUtf8(n) <=> /\ \A i \in 1..n : file[i] # "c" => Lead(i)
                       /\ \A i \in 1..n : file[i] = "c" => Own(i)
  BY DEF ValidUtf8
<1>2. (\A i \in 1..n : file[i] # "c" => Lead(i)) <=> Whole(n) /\ Full(n)
  BY WidthRange DEF Whole, Full
<1>3. (\A i \in 1..n : file[i] = "c" => Own(i)) => Owned(n)
  <2> SUFFICES ASSUME NEW i \in 1..n, Own(i)
               PROVE  \E j \in 1..i : file[j] # "c" /\ i < j + Width(file[j])
    BY DEF Owned
  <2> QED
    OBVIOUS
<1>4. ASSUME Whole(n), Owned(n), NEW i \in 1..n, file[i] = "c"
      PROVE  Own(i)
  <2>1. PICK j \in 1..i : file[j] # "c" /\ i < j + Width(file[j])
    BY <1>4 DEF Owned
  <2>2. j \in 1..(i - 1)
    BY <1>4, <2>1
  <2>3. \A k \in (j + 1)..i : file[k] = "c"
    BY <1>4, <2>1, <2>2, WidthRange DEF Whole
  <2> QED
    BY <2>1, <2>2, <2>3
<1> QED
  BY <1>1, <1>2, <1>3, <1>4

\* The conditions that do not look at the end hold of every shorter prefix.
LEMMA ShorterPrefix ==
  ASSUME NEW n \in Nat, NEW m \in 0..n
  PROVE  (Whole(n) => Whole(m)) /\ (Owned(n) => Owned(m))
<1>1. Whole(n) => Whole(m)
  <2> SUFFICES ASSUME Whole(n), NEW i \in 1..m, file[i] # "c",
                      NEW j \in (i + 1)..(i + Width(file[i]) - 1), j <= m
               PROVE  file[j] = "c"
    BY DEF Whole
  <2> QED
    BY WidthRange DEF Whole
<1>2. Owned(n) => Owned(m)
  BY DEF Owned
<1> QED
  BY <1>1, <1>2

\* In valid text, the prefixes that end on a boundary are the valid ones.
LEMMA BoundaryIsValid ==
  ASSUME NEW n \in Nat, ValidUtf8(n), NEW k \in 0..n
  PROVE  IsBoundary(k, n) <=> ValidUtf8(k)
<1>1. Whole(n) /\ Owned(n) /\ Full(n) /\ Whole(k) /\ Owned(k)
  BY ValidParts, ShorterPrefix
<1>2. ASSUME IsBoundary(k, n)
      PROVE  Full(k)
  <2>1. CASE k = 0 \/ k = n
    BY <1>1, <2>1 DEF Full
  <2>2. CASE k < n /\ file[k + 1] # "c"
    <3> SUFFICES ASSUME NEW i \in 1..k, file[i] # "c", ~(i + Width(file[i]) - 1 <= k)
                 PROVE  FALSE
      BY DEF Full
    <3>1. k + 1 \in (i + 1)..(i + Width(file[i]) - 1)
      BY WidthRange
    <3> QED
      BY <1>1, <2>2, <3>1 DEF Whole
  <2> QED
    BY <1>2, <2>1, <2>2 DEF IsBoundary
<1>3. ASSUME Full(k), k # 0, k # n, file[k + 1] = "c"
      PROVE  FALSE
  <2>1. PICK j \in 1..(k + 1) : file[j] # "c" /\ k + 1 < j + Width(file[j])
    BY <1>1, <1>3 DEF Owned
  <2>2. j \in 1..k
    BY <1>3, <2>1
  <2> QED
    BY <1>3, <2>1, <2>2, WidthRange DEF Full
<1> QED
  BY <1>1, <1>2, <1>3, ValidParts DEF IsBoundary

\* The empty prefix is valid.
LEMMA NothingIsValid == ValidUtf8(0)
BY DEF ValidUtf8

\* Utf8Error::valid_up_to is the longest valid prefix.
LEMMA ValidUpToFacts ==
  ASSUME NEW n \in Nat
  PROVE  /\ ValidUpTo(n) \in 0..n /\ ValidUtf8(ValidUpTo(n))
         /\ \A m \in 0..n : ValidUtf8(m) => m <= ValidUpTo(n)
<1> DEFINE S == {m \in 0..n : ValidUtf8(m)}
<1>1. S \in SUBSET Nat /\ S # {} /\ \A m \in S : m <= n
  BY NothingIsValid
<1>2. Max(S) \in S /\ \A m \in S : m <= Max(S)
  <2> HIDE DEF S
  <2> QED
    BY <1>1, MaxOfNaturals
<1>3. ValidUpTo(n) = Max(S)
  BY DEF ValidUpTo
<1> QED
  BY <1>2, <1>3

\* Bytes that are valid but for their end stop inside a scalar, and conversely.
LEMMA CutInsideScalar ==
  ASSUME NEW n \in Nat, ~ValidUtf8(n)
  PROVE  EndsInsideScalar(n) <=> Whole(n) /\ Owned(n)
<1> DEFINE v == ValidUpTo(n)
<1>1. /\ v \in 0..n /\ ValidUtf8(v)
      /\ \A m \in 0..n : ValidUtf8(m) => m <= v
  BY ValidUpToFacts
<1>2. Whole(v) /\ Owned(v) /\ Full(v)
  BY <1>1, ValidParts
<1>3. EndsInsideScalar(n) <=> /\ v < n /\ file[v + 1] # "c" /\ n - v < Width(file[v + 1])
                              /\ \A j \in (v + 2)..n : file[j] = "c"
  BY DEF EndsInsideScalar
<1> HIDE DEF v
<1>4. ASSUME EndsInsideScalar(n)
      PROVE  Whole(n) /\ Owned(n)
  <2>1. Whole(n)
    <3> SUFFICES ASSUME NEW i \in 1..n, file[i] # "c",
                        NEW j \in (i + 1)..(i + Width(file[i]) - 1), j <= n
                 PROVE  file[j] = "c"
      BY DEF Whole
    <3>1. CASE i <= v
      <4>1. i \in 1..v /\ j <= v
        BY <1>1, <1>2, <3>1, WidthRange DEF Full
      <4> QED
        BY <1>2, <4>1 DEF Whole
    <3>2. CASE i > v
      BY <1>1, <1>3, <1>4, <3>2, WidthRange
    <3> QED
      BY <1>1, <3>1, <3>2
  <2>2. Owned(n)
    <3> SUFFICES ASSUME NEW i \in 1..n, file[i] = "c"
                 PROVE  \E j \in 1..i : file[j] # "c" /\ i < j + Width(file[j])
      BY DEF Owned
    <3>1. CASE i <= v
      BY <1>1, <1>2, <3>1 DEF Owned
    <3>2. CASE i > v
      <4>1. /\ v + 1 \in 1..i /\ file[v + 1] # "c" /\ i < v + 1 + Width(file[v + 1])
        BY <1>1, <1>3, <1>4, <3>2, WidthRange
      <4> QED
        BY <4>1
    <3> QED
      BY <1>1, <3>1, <3>2
  <2> QED
    BY <2>1, <2>2
<1>5. ASSUME Whole(n), Owned(n)
      PROVE  EndsInsideScalar(n)
  <2>1. PICK i \in 1..n : file[i] # "c" /\ ~(i + Width(file[i]) - 1 <= n)
    BY <1>5, ValidParts DEF Full
  <2>2. Full(i - 1)
    <3> SUFFICES ASSUME NEW h \in 1..(i - 1), file[h] # "c",
                        ~(h + Width(file[h]) - 1 <= i - 1)
                 PROVE  FALSE
      BY DEF Full
    <3>1. h \in 1..n /\ i \in (h + 1)..(h + Width(file[h]) - 1) /\ i <= n
      BY WidthRange
    <3> QED
      BY <1>5, <2>1, <3>1 DEF Whole
  <2>3. ValidUtf8(i - 1)
    <3>1. i - 1 \in 0..n /\ i - 1 \in Nat
      OBVIOUS
    <3> QED
      BY <1>5, <2>2, <3>1, ShorterPrefix, ValidParts
  <2>4. \A m \in 0..n : ValidUtf8(m) => m <= i - 1
    <3> SUFFICES ASSUME NEW m \in 0..n, Full(m), m > i - 1
                 PROVE  FALSE
      BY ValidParts
    <3>1. i \in 1..m
      OBVIOUS
    <3> QED
      BY <2>1, <3>1, WidthRange DEF Full
  <2>5. v = i - 1
    BY <1>1, <2>3, <2>4
  <2>6. \A j \in (i + 1)..n : file[j] = "c"
    BY <1>5, <2>1, WidthRange DEF Whole
  <2> QED
    BY <1>3, <2>1, <2>5, <2>6, WidthRange
<1> QED
  BY <1>4, <1>5

\* Rounding to scalar boundaries.
LEMMA FloorFacts ==
  ASSUME NEW n \in Nat, NEW i \in Nat
  PROVE  /\ FloorCharBoundary(i, n) \in 0..n /\ FloorCharBoundary(i, n) <= i
         /\ IsBoundary(FloorCharBoundary(i, n), n)
         /\ \A k \in 0..n : k <= i /\ IsBoundary(k, n) => k <= FloorCharBoundary(i, n)
<1> DEFINE S == {k \in 0..n : k <= i /\ IsBoundary(k, n)}
<1>1. S \in SUBSET Nat /\ S # {} /\ \A k \in S : k <= n
  BY DEF IsBoundary
<1>2. Max(S) \in S /\ \A k \in S : k <= Max(S)
  <2> HIDE DEF S
  <2> QED
    BY <1>1, MaxOfNaturals
<1>3. FloorCharBoundary(i, n) = Max(S)
  BY DEF FloorCharBoundary
<1> QED
  BY <1>2, <1>3

\* The next boundary at or after i, i itself if it is one.
LEMMA CeilFacts ==
  ASSUME NEW n \in Nat, NEW i \in 0..n
  PROVE  /\ CeilCharBoundary(i, n) \in i..n /\ IsBoundary(CeilCharBoundary(i, n), n)
         /\ \A k \in i..n : IsBoundary(k, n) => CeilCharBoundary(i, n) <= k
<1> DEFINE S == {k \in 0..n : IsBoundary(k, n) /\ (k >= i \/ k = n)}
<1>1. S \in SUBSET Nat /\ n \in S
  BY DEF IsBoundary
<1>2. Min(S) \in S /\ \A k \in S : Min(S) <= k
  <2> HIDE DEF S
  <2> QED
    BY <1>1, MinOfNaturals
<1>3. CeilCharBoundary(i, n) = Min(S)
  BY DEF CeilCharBoundary
<1> QED
  BY <1>2, <1>3

-----------------------------------------------------------------------------
(* The prefix.                                                              *)

\* The right-hand side of PrefixIsExact.
Got(b) == Least(Len(file), b + Utf8MaxScalarBytes - 1)
Binary(b) == \E i \in 1..Least(Got(b), Probe) : file[i] = "0"
MayBeginValid(b) == /\ Whole(Got(b)) /\ Owned(Got(b))
                    /\ Full(Got(b)) \/ Got(b) < Len(file)
ValidWithin(b) == {m \in 0..Least(Got(b), b) : ValidUtf8(m)}
ExactPrefix(b) == IF Binary(b) \/ ~MayBeginValid(b) THEN 0 ELSE Max(ValidWithin(b))

\* How many bytes File::take delivers under budget b.
LEMMA GotFacts ==
  ASSUME file \in Seq(Bytes), NEW b \in Nat
  PROVE  /\ Got(b) \in Nat /\ Got(b) <= Len(file) /\ Got(b) <= b + 3
         /\ Got(b) = Len(file) \/ Got(b) = b + 3
         /\ Least(Got(b), b) \in Nat /\ Least(Got(b), b) <= b /\ Least(Got(b), b) <= Got(b)
         /\ Len(file) \in Nat
<1>1. Len(file) \in Nat
  OBVIOUS
<1> QED
  BY <1>1 DEF Got, Least, Utf8MaxScalarBytes

\* There is a longest valid prefix within the budget.
LEMMA ValidWithinFacts ==
  ASSUME file \in Seq(Bytes), NEW b \in Nat
  PROVE  /\ Max(ValidWithin(b)) \in ValidWithin(b)
         /\ \A m \in ValidWithin(b) : m <= Max(ValidWithin(b))
<1>1. Least(Got(b), b) \in Nat /\ Least(Got(b), b) <= b
  BY GotFacts
<1>2. 0 \in ValidWithin(b)
  BY <1>1, NothingIsValid DEF ValidWithin
<1>3. ValidWithin(b) \in SUBSET Nat /\ \A m \in ValidWithin(b) : m <= b
  BY <1>1 DEF ValidWithin
<1> QED
  BY <1>2, <1>3, MaxOfNaturals

\* What read_content_prefix_with_budget keeps is the longest valid run of whole
\* scalars within the budget, for every file and budget.
LEMMA ReadPrefixExact ==
  ASSUME file \in Seq(Bytes), NEW b \in Nat
  PROVE  ReadPrefix(b) = ExactPrefix(b)
<1> DEFINE got == Got(b)
           cap == Least(got, b)
<1>1. /\ got \in Nat /\ got <= Len(file) /\ Len(file) \in Nat
      /\ cap \in Nat /\ cap <= b /\ cap <= got
  BY GotFacts
<1>2. ReadPrefix(b) =
        IF Binary(b) THEN 0 ELSE IF b = 0 THEN 0
        ELSE IF ValidUtf8(got) THEN FloorCharBoundary(cap, got)
        ELSE IF EndsInsideScalar(got) /\ Len(file) > got
             THEN FloorCharBoundary(Least(ValidUpTo(got), b), ValidUpTo(got))
        ELSE 0
  BY DEF ReadPrefix, Binary, Got
<1>3. /\ Max(ValidWithin(b)) \in 0..cap /\ ValidUtf8(Max(ValidWithin(b)))
      /\ \A m \in 0..cap : ValidUtf8(m) => m <= Max(ValidWithin(b))
  BY ValidWithinFacts DEF ValidWithin
<1>4. MayBeginValid(b) <=> Whole(got) /\ Owned(got) /\ (Full(got) \/ got < Len(file))
  BY DEF MayBeginValid
<1> HIDE DEF got, cap
<1>5. CASE Binary(b)
  BY <1>2, <1>5 DEF ExactPrefix
<1>6. CASE b = 0
  BY <1>1, <1>2, <1>3, <1>6 DEF ExactPrefix
<1>7. CASE ~Binary(b) /\ b # 0 /\ ValidUtf8(got)
  <2>1. MayBeginValid(b)
    BY <1>1, <1>4, <1>7, ValidParts
  <2>2. /\ FloorCharBoundary(cap, got) \in 0..got /\ FloorCharBoundary(cap, got) <= cap
        /\ IsBoundary(FloorCharBoundary(cap, got), got)
        /\ \A k \in 0..got : k <= cap /\ IsBoundary(k, got) => k <= FloorCharBoundary(cap, got)
    BY <1>1, FloorFacts
  <2>3. \A k \in 0..got : IsBoundary(k, got) <=> ValidUtf8(k)
    BY <1>1, <1>7, BoundaryIsValid
  <2>4. FloorCharBoundary(cap, got) = Max(ValidWithin(b))
    BY <1>1, <1>3, <2>2, <2>3
  <2> QED
    BY <1>2, <1>7, <2>1, <2>4 DEF ExactPrefix
<1>8. CASE ~Binary(b) /\ b # 0 /\ ~ValidUtf8(got) /\ EndsInsideScalar(got) /\ Len(file) > got
  <2> DEFINE v == ValidUpTo(got)
             w == Least(v, b)
  <2>1. MayBeginValid(b)
    BY <1>1, <1>4, <1>8, CutInsideScalar
  <2>2. v \in 0..got /\ ValidUtf8(v) /\ \A m \in 0..got : ValidUtf8(m) => m <= v
    BY <1>1, ValidUpToFacts
  <2> HIDE DEF v
  <2>3. w \in Nat /\ w <= v /\ w <= b /\ (w = v \/ w = b)
    BY <1>1, <2>2 DEF Least
  <2> HIDE DEF w
  <2>4. /\ FloorCharBoundary(w, v) \in 0..v /\ FloorCharBoundary(w, v) <= w
        /\ IsBoundary(FloorCharBoundary(w, v), v)
        /\ \A k \in 0..v : k <= w /\ IsBoundary(k, v) => k <= FloorCharBoundary(w, v)
    <3>1. v \in Nat
      BY <1>1, <2>2
    <3> QED
      BY <2>3, <3>1, FloorFacts
  <2>5. \A k \in 0..v : IsBoundary(k, v) <=> ValidUtf8(k)
    BY <1>1, <2>2, BoundaryIsValid
  <2>6. cap = got \/ cap = b
    BY <1>1 DEF cap, Least
  <2>7. FloorCharBoundary(w, v) = Max(ValidWithin(b))
    BY <1>1, <1>3, <2>2, <2>3, <2>4, <2>5, <2>6
  <2>8. ReadPrefix(b) = FloorCharBoundary(w, v)
    BY <1>2, <1>8 DEF v, w
  <2> QED
    BY <1>8, <2>1, <2>7, <2>8 DEF ExactPrefix
<1>9. CASE ~Binary(b) /\ b # 0 /\ ~ValidUtf8(got) /\ ~(EndsInsideScalar(got) /\ Len(file) > got)
  <2>1. ~MayBeginValid(b)
    BY <1>1, <1>4, <1>9, CutInsideScalar, ValidParts
  <2> QED
    BY <1>2, <1>9, <2>1 DEF ExactPrefix
<1> QED
  BY <1>5, <1>6, <1>7, <1>8, <1>9

\* What is kept is a valid prefix of the file, within the budget.
LEMMA ReadPrefixFacts ==
  ASSUME file \in Seq(Bytes), NEW b \in Nat
  PROVE  ReadPrefix(b) \in 0..Len(file) /\ ReadPrefix(b) <= b /\ ValidUtf8(ReadPrefix(b))
<1>1. Max(ValidWithin(b)) \in 0..Least(Got(b), b) /\ ValidUtf8(Max(ValidWithin(b)))
  BY ValidWithinFacts DEF ValidWithin
<1>2. ReadPrefix(b) = 0 \/ ReadPrefix(b) = Max(ValidWithin(b))
  BY ReadPrefixExact DEF ExactPrefix
<1>3. /\ Got(b) \in Nat /\ Got(b) <= Len(file) /\ Len(file) \in Nat
      /\ Least(Got(b), b) \in Nat /\ Least(Got(b), b) <= b /\ Least(Got(b), b) <= Got(b)
  BY GotFacts
<1> QED
  BY <1>1, <1>2, <1>3, NothingIsValid

\* Reading the same file with the length of a prefix as the budget gives the prefix.
LEMMA RereadIsSame ==
  ASSUME file \in Seq(Bytes), NEW b \in Nat, ReadPrefix(b) > 0
  PROVE  ReadPrefix(ReadPrefix(b)) = ReadPrefix(b)
<1> DEFINE r == ReadPrefix(b)
<1>1. r \in Nat /\ r <= Len(file) /\ r <= b /\ ValidUtf8(r) /\ r > 0
  <2>1. Len(file) \in Nat
    OBVIOUS
  <2> QED
    BY <2>1, ReadPrefixFacts
<1>2. ~Binary(b) /\ MayBeginValid(b)
  BY ReadPrefixExact DEF ExactPrefix
<1> HIDE DEF r
<1>3. /\ Got(b) \in Nat /\ Got(r) \in 0..Got(b) /\ Got(b) <= Len(file) /\ Len(file) \in Nat
      /\ Got(r) = Len(file) => Got(b) = Len(file)
  <2>1. /\ Got(b) \in Nat /\ Got(b) <= Len(file) /\ Len(file) \in Nat
        /\ Got(b) = Len(file) \/ Got(b) = b + 3
    BY GotFacts
  <2>2. Got(r) \in Nat /\ Got(r) <= Len(file) /\ Got(r) <= r + 3
    BY <1>1, GotFacts
  <2> QED
    BY <1>1, <2>1, <2>2
<1>4. ~Binary(r)
  BY <1>2, <1>3, FilesAssumption, ChunkingAssumption DEF Binary, Least
<1>5. MayBeginValid(r)
  BY <1>2, <1>3, ShorterPrefix DEF MayBeginValid
<1>6. Least(Got(r), r) = r
  BY <1>1, GotFacts DEF Least, Got, Utf8MaxScalarBytes
<1>7. r \in ValidWithin(r) /\ \A m \in ValidWithin(r) : m <= r
  BY <1>1, <1>6 DEF ValidWithin
<1>8. Max(ValidWithin(r)) = r
  <2>1. /\ Max(ValidWithin(r)) \in ValidWithin(r) /\ ValidWithin(r) \subseteq Nat
        /\ \A m \in ValidWithin(r) : m <= Max(ValidWithin(r))
    BY <1>1, <1>6, ValidWithinFacts DEF ValidWithin
  <2> QED
    BY <1>1, <1>7, <2>1
<1>9. ReadPrefix(r) = r
  BY <1>1, <1>4, <1>5, <1>8, ReadPrefixExact DEF ExactPrefix
<1> QED
  BY <1>9 DEF r

-----------------------------------------------------------------------------
(* The ends of a chunk.                                                     *)

\* What the scanning and splitting loops know of the content.
Splitting ==
  /\ file \in Seq(Bytes) /\ len \in Nat
  /\ chunking.size \in Nat \ {0} /\ chunking.overlap \in Nat
  /\ IsFiniteSet(breaks)
  /\ \A b \in breaks : /\ b.pos \in 1..(len - 1) /\ IsBoundary(b.pos, len)
                       /\ b.score \in Nat \ {0}

\* Multiplication by a natural number keeps the order.
LEMMA TimesMonotone ==
  ASSUME NEW a \in Nat, NEW b \in Nat, a >= b, NEW k \in Nat
  PROVE  a * k \in Nat /\ b * k \in Nat /\ a * k >= b * k
<1> DEFINE d == a - b
<1>1. d \in Nat /\ a = b + d
  OBVIOUS
<1> HIDE DEF d
<1>2. d * k \in Nat /\ b * k \in Nat
  BY <1>1
<1>3. (b + d) * k = b * k + d * k
  BY <1>1
<1> QED
  BY <1>1, <1>2, <1>3

\* A positive factor on both sides can be dropped.
LEMMA TimesCancels ==
  ASSUME NEW a \in Nat, NEW b \in Nat, NEW k \in Nat \ {0}, a * k >= b * k
  PROVE  a >= b
<1> SUFFICES ASSUME b >= a + 1
             PROVE  FALSE
  OBVIOUS
<1>1. b * k >= (a + 1) * k
  BY TimesMonotone
<1>2. (a + 1) * k = a * k + k
  OBVIOUS
<1>3. a * k \in Nat /\ b * k \in Nat
  BY TimesMonotone
<1> QED
  BY <1>1, <1>2, <1>3

\* Fractions p/d compared by their cross products.
LEMMA FractionsTransitive ==
  ASSUME NEW p \in Nat, NEW q \in Nat, NEW r \in Nat,
         NEW dp \in Nat \ {0}, NEW dq \in Nat \ {0}, NEW dr \in Nat \ {0},
         p * dq >= q * dp, q * dr >= r * dq
  PROVE  p * dr >= r * dp
<1>1. p * dq \in Nat /\ q * dp \in Nat /\ q * dr \in Nat /\ r * dq \in Nat
      /\ p * dr \in Nat /\ r * dp \in Nat
  OBVIOUS
<1>2. (p * dq) * dr >= (q * dp) * dr
  BY <1>1, TimesMonotone
<1>3. (q * dr) * dp >= (r * dq) * dp
  BY <1>1, TimesMonotone
<1>4. /\ (p * dq) * dr = (p * dr) * dq /\ (r * dq) * dp = (r * dp) * dq
      /\ (q * dp) * dr = (q * dr) * dp
  OBVIOUS
<1>5. (p * dr) * dq >= (r * dp) * dq
  <2>1. (p * dq) * dr \in Nat /\ (q * dp) * dr \in Nat /\ (r * dq) * dp \in Nat
    BY <1>1
  <2> QED
    BY <1>2, <1>3, <1>4, <2>1
<1> QED
  BY <1>1, <1>5, TimesCancels

\* A square is not negative.
LEMMA SquareNatural == \A x \in Int : x * x \in Nat
<1> TAKE x \in Int
<1>1. CASE x >= 0
  BY <1>1
<1>2. CASE x < 0
  <2>1. (-x) \in Nat /\ (-x) * (-x) = x * x
    BY <1>2
  <2>2. \A y \in Nat : y * y \in Nat
    OBVIOUS
  <2> QED
    BY <2>1, <2>2
<1> QED
  BY <1>1, <1>2

\* The window of best_breakpoint is at least one byte wide.
LEMMA BreakWindowFacts ==
  ASSUME chunking.size \in Nat \ {0}
  PROVE  BreakWindow \in Nat \ {0}
<1> DEFINE h == chunking.size \div 2
<1>1. h \in Nat
  OBVIOUS
<1> HIDE DEF h
<1>2. {h, 1} \in SUBSET Nat /\ {h, 1} # {} /\ \A x \in {h, 1} : x <= h + 1
  BY <1>1
<1>3. h + 1 \in Nat
  BY <1>1
<1>4. Max({h, 1}) \in {h, 1} /\ \A x \in {h, 1} : x <= Max({h, 1})
  BY <1>2, <1>3, MaxOfNaturals
<1>5. Max({h, 1}) \in Nat \ {0}
  BY <1>1, <1>4
<1> QED
  BY <1>5 DEF BreakWindow, h

\* best_breakpoint, if there are candidates, returns the place of one of them:
\* comparing decayed scores is a total order, so max_by has a maximum.
LEMMA BestBreakpointIsCandidate ==
  ASSUME Splitting, NEW s \in Nat, NEW target \in Nat, Candidates(s, target) # {}
  PROVE  \E b \in Candidates(s, target) : BestBreakpoint(s, target) = b.pos
<1> DEFINE C == Candidates(s, target)
           Decay(x) == 10 * BreakWindow * BreakWindow + 7 * (target - x.pos) * (target - x.pos)
           R == {p \in C \X C : ScoreAtLeast(p[1], p[2], target)}
           best == {x \in C : \A y \in C : ScoreAtLeast(x, y, target)}
           places == {b.pos : b \in best}
<1>1. C \subseteq breaks /\ \A b \in C : b.pos \in Nat /\ b.pos <= len /\ b.score \in Nat
  BY DEF Candidates, Splitting
<1>2. \A b \in C : Decay(b) \in Nat \ {0}
  <2> TAKE b \in C
  <2>1. (target - b.pos) \in Int
    BY <1>1
  <2>2. (target - b.pos) * (target - b.pos) \in Nat
    BY <2>1, SquareNatural
  <2>3. BreakWindow \in Nat \ {0}
    BY BreakWindowFacts DEF Splitting
  <2>4. BreakWindow * BreakWindow \in Nat \ {0}
    BY <2>3
  <2>5. /\ 10 * BreakWindow * BreakWindow = 10 * (BreakWindow * BreakWindow)
        /\ 7 * (target - b.pos) * (target - b.pos) = 7 * ((target - b.pos) * (target - b.pos))
    BY <2>1, <2>3
  <2> QED
    BY <2>2, <2>4, <2>5
<1>3. \A x, y \in C : ScoreAtLeast(x, y, target) <=> x.score * Decay(y) >= y.score * Decay(x)
  BY DEF ScoreAtLeast
<1> HIDE DEF C, Decay
<1>4. \A x, y \in C : <<x, y>> \in R \/ <<y, x>> \in R
  <2> TAKE x \in C, y \in C
  <2>1. x.score * Decay(y) \in Nat /\ y.score * Decay(x) \in Nat
    BY <1>1, <1>2
  <2> QED
    BY <1>3, <2>1
<1>5. \A x, y, z \in C : <<x, y>> \in R /\ <<y, z>> \in R => <<x, z>> \in R
  <2> SUFFICES ASSUME NEW x \in C, NEW y \in C, NEW z \in C,
                      ScoreAtLeast(x, y, target), ScoreAtLeast(y, z, target)
               PROVE  ScoreAtLeast(x, z, target)
    OBVIOUS
  <2>1. x.score * Decay(z) >= z.score * Decay(x)
    <3>1. x.score \in Nat /\ y.score \in Nat /\ z.score \in Nat
      BY <1>1
    <3>2. Decay(x) \in Nat \ {0} /\ Decay(y) \in Nat \ {0} /\ Decay(z) \in Nat \ {0}
      BY <1>2
    <3>3. x.score * Decay(y) >= y.score * Decay(x) /\ y.score * Decay(z) >= z.score * Decay(y)
      BY <1>3
    <3> QED
      BY <3>1, <3>2, <3>3, FractionsTransitive
  <2> QED
    BY <1>3, <2>1
<1>6. IsFiniteSet(C)
  BY <1>1, FS_Subset DEF Splitting
<1>7. \E x \in C : \A y \in C : <<x, y>> \in R
  <2>1. C # {}
    BY DEF C
  <2> HIDE DEF R
  <2> QED
    BY <1>4, <1>5, <1>6, <2>1, TopOfFinite
<1>8. places \in SUBSET Nat /\ places # {} /\ \A p \in places : p <= len
  BY <1>1, <1>7
<1>9. Max(places) \in places
  <2>1. len \in Nat
    BY DEF Splitting
  <2> HIDE DEF places
  <2> QED
    BY <1>8, <2>1, MaxOfNaturals
<1>10. BestBreakpoint(s, target) = Max(places)
  BY DEF BestBreakpoint, C
<1> QED
  BY <1>9, <1>10 DEF C

\* The end of a fixed-size chunk.
LEMMA FixedEndFacts ==
  ASSUME Splitting, NEW s \in Nat, s < len
  PROVE  /\ FixedEnd(s) \in (s + 1)..len /\ IsBoundary(FixedEnd(s), len)
         /\ FixedEnd(s) - s <= chunking.size \/ FixedEnd(s) = CeilCharBoundary(s + 1, len)
<1> DEFINE e == FloorCharBoundary(Least(s + chunking.size, len), len)
<1>1. Least(s + chunking.size, len) \in Nat /\ Least(s + chunking.size, len) <= s + chunking.size
  BY DEF Splitting, Least
<1>2. e \in 0..len /\ e <= Least(s + chunking.size, len) /\ IsBoundary(e, len)
  BY <1>1, FloorFacts DEF Splitting
<1>3. CeilCharBoundary(s + 1, len) \in (s + 1)..len /\ IsBoundary(CeilCharBoundary(s + 1, len), len)
  <2>1. len \in Nat /\ s + 1 \in 0..len
    BY DEF Splitting
  <2> QED
    BY <2>1, CeilFacts
<1>4. FixedEnd(s) = IF e > s THEN e ELSE CeilCharBoundary(s + 1, len)
  BY DEF FixedEnd
<1> HIDE DEF e
<1>5. chunking.size \in Nat /\ len \in Nat
  BY DEF Splitting
<1> QED
  BY <1>1, <1>2, <1>3, <1>4, <1>5

\* Any chunk ends after it starts, on a boundary, and is longer than chunk_size
\* only if it is one scalar.
LEMMA ChunkEndFacts ==
  ASSUME Splitting, NEW s \in Nat, s < len
  PROVE  /\ ChunkEnd(s) \in (s + 1)..len /\ IsBoundary(ChunkEnd(s), len)
         /\ ChunkEnd(s) - s <= chunking.size \/ ChunkEnd(s) = CeilCharBoundary(s + 1, len)
<1> DEFINE target == Least(s + chunking.size, len)
<1>1. /\ len \in Nat /\ chunking.size \in Nat
      /\ target \in Nat /\ target <= s + chunking.size /\ target <= len
  BY DEF Splitting, Least
<1>2. IsBoundary(len, len)
  BY DEF IsBoundary
<1>3. StructureEnd(s) = IF target >= len THEN len
                        ELSE IF Candidates(s, target) # {} THEN BestBreakpoint(s, target)
                        ELSE FixedEnd(s)
  BY DEF StructureEnd
<1> HIDE DEF target
<1>4. CASE breaks = {}
  BY <1>4, FixedEndFacts DEF ChunkEnd
<1>5. CASE breaks # {} /\ target >= len
  BY <1>1, <1>2, <1>3, <1>5 DEF ChunkEnd
<1>6. CASE breaks # {} /\ target < len /\ Candidates(s, target) # {}
  <2>1. PICK b \in Candidates(s, target) : BestBreakpoint(s, target) = b.pos
    BY <1>1, <1>6, BestBreakpointIsCandidate
  <2>2. b.pos > s /\ b.pos <= target /\ b.pos \in 1..(len - 1) /\ IsBoundary(b.pos, len)
    BY <2>1 DEF Candidates, Splitting
  <2>3. ChunkEnd(s) = b.pos
    BY <1>1, <1>3, <1>6, <2>1 DEF ChunkEnd
  <2> QED
    BY <1>1, <2>2, <2>3
<1>7. CASE breaks # {} /\ target < len /\ Candidates(s, target) = {}
  BY <1>1, <1>3, <1>7, FixedEndFacts DEF ChunkEnd
<1> QED
  BY <1>1, <1>4, <1>5, <1>6, <1>7

\* The next chunk starts after this one's start, and not after its end.
LEMMA NextStartFacts ==
  ASSUME Splitting, NEW s \in Nat, NEW e \in (s + 1)..len, IsBoundary(e, len)
  PROVE  NextStart(s, e) \in (s + 1)..e /\ IsBoundary(NextStart(s, e), len)
<1> DEFINE n == FloorCharBoundary(SatSub(e, chunking.overlap), len)
<1>1. len \in Nat /\ e \in Nat /\ s + 1 \in 0..len
  BY DEF Splitting
<1>2. SatSub(e, chunking.overlap) \in Nat /\ SatSub(e, chunking.overlap) <= e
  BY <1>1 DEF Splitting, SatSub
<1>3. n \in 0..len /\ n <= SatSub(e, chunking.overlap) /\ IsBoundary(n, len)
  BY <1>1, <1>2, FloorFacts
<1>4. /\ CeilCharBoundary(s + 1, len) \in (s + 1)..len
      /\ IsBoundary(CeilCharBoundary(s + 1, len), len)
      /\ CeilCharBoundary(s + 1, len) <= e
  BY <1>1, CeilFacts
<1>5. NextStart(s, e) = IF n > s THEN n ELSE CeilCharBoundary(s + 1, len)
  BY DEF NextStart
<1> HIDE DEF n
<1> QED
  BY <1>1, <1>2, <1>3, <1>4, <1>5

-----------------------------------------------------------------------------
(* The lines.                                                               *)

\* A continuation byte does not follow a newline.
LEMMA LineStartsOnBoundary ==
  ASSUME NEW n \in Nat, ValidUtf8(n), NEW p \in 1..n, file[p] = "n"
  PROVE  IsBoundary(p, n)
<1> SUFFICES ASSUME p < n, file[p + 1] = "c"
             PROVE  FALSE
  BY DEF IsBoundary
<1>1. p + 1 \in 1..n /\ Owned(n) /\ Whole(n)
  BY ValidParts
<1>2. PICK j \in 1..(p + 1) : file[j] # "c" /\ p + 1 < j + Width(file[j])
  BY <1>1 DEF Owned
<1>3. CASE j = p
  BY <1>2, <1>3 DEF Width
<1>4. CASE j < p
  BY <1>1, <1>2, <1>4, WidthRange DEF Whole
<1> QED
  BY <1>2, <1>3, <1>4

\* The next line begins further on, at most at the end, on a boundary.
LEMMA NextLineFacts ==
  ASSUME len \in Nat, ValidUtf8(len), NEW l \in Nat, l < len
  PROVE  LineEnd(l) \in l..len /\ NextLine(l) \in (l + 1)..len /\ IsBoundary(NextLine(l), len)
<1> DEFINE S == {k \in l..len : k = len \/ file[k + 1] = "n"}
<1>1. S \in SUBSET Nat /\ len \in S
  OBVIOUS
<1>2. Min(S) \in S
  <2> HIDE DEF S
  <2> QED
    BY <1>1, MinOfNaturals
<1>3. LineEnd(l) \in S
  BY <1>2 DEF LineEnd
<1>4. LineEnd(l) \in l..len /\ (LineEnd(l) = len \/ file[LineEnd(l) + 1] = "n")
  BY <1>3
<1>5. CASE LineEnd(l) = len
  BY <1>4, <1>5 DEF NextLine, Least, IsBoundary
<1>6. CASE LineEnd(l) < len
  <2>1. NextLine(l) = LineEnd(l) + 1 /\ NextLine(l) \in 1..len
    BY <1>4, <1>6 DEF NextLine, Least
  <2>2. file[NextLine(l)] = "n"
    BY <1>4, <1>6, <2>1
  <2> QED
    BY <1>4, <1>6, <2>1, <2>2, LineStartsOnBoundary
<1> QED
  BY <1>4, <1>5, <1>6

-----------------------------------------------------------------------------
(* The invariant of reading, scanning and splitting.                        *)

ContentTypeOK ==
  /\ file \in Seq(Bytes) /\ budget \in Nat
  /\ chunking.size \in Nat \ {0} /\ chunking.overlap \in Nat
  /\ pc \in {"waiting", "read", "scan", "split", "planned", "prepared", "rejected", "embedding"}
  /\ len \in Nat /\ line \in 0..len /\ start \in 0..len /\ inFence \in BOOLEAN
  /\ spans \in Seq([from : Nat, to : Nat])

Unread == pc \in {"waiting", "read", "embedding"}

\* Before a file is read there is nothing; afterwards the content is the prefix.
ContentIsPrefix ==
  /\ pc \in {"waiting", "embedding"} => budget = 0
  /\ Unread => len = 0 /\ spans = <<>> /\ breaks = {} /\ line = 0 /\ start = 0
  /\ ~Unread => len = ReadPrefix(budget)

\* Lines and breakpoints begin on scalar boundaries, within the content.
BreaksOnBoundaries ==
  /\ IsBoundary(line, len)
  /\ IsFiniteSet(breaks)
  /\ \A b \in breaks : /\ b.pos \in 1..(len - 1) /\ IsBoundary(b.pos, len)
                       /\ b.score \in Nat \ {0}

Covered(k) == \E i \in DOMAIN spans : spans[i].from <= k /\ k < spans[i].to

\* The ranges so far reach from the beginning to the next start or beyond.
SplitReached ==
  /\ pc = "scan" => spans = <<>> /\ start = 0
  /\ pc = "split" => /\ start < len /\ IsBoundary(start, len)
                     /\ \A k \in 0..(start - 1) : Covered(k)
                     /\ \A i \in DOMAIN spans : spans[i].from < start
  /\ pc \in {"scan", "split"} => chunking.size < len
  /\ len = 0 => spans = <<>>

ContentInv ==
  /\ ContentTypeOK /\ ContentIsPrefix /\ BreaksOnBoundaries /\ SplitReached
  /\ RangesWellFormed /\ RangesCoverContent /\ PlanSurvivesReread

\* What is said about a content stays true while the file and the length do.
LEMMA ContentFrame ==
  ASSUME UNCHANGED <<file, budget, len>>
  PROVE  /\ \A x : IsBoundary(x, len)' <=> IsBoundary(x, len)
         /\ \A x : CeilCharBoundary(x, len)' = CeilCharBoundary(x, len)
         /\ ReadPrefix(budget)' = ReadPrefix(budget)
<1>1. \A x : IsBoundary(x, len)' <=> IsBoundary(x, len)
  BY DEF IsBoundary
<1>2. \A x : CeilCharBoundary(x, len)' = CeilCharBoundary(x, len)
  BY DEF CeilCharBoundary, IsBoundary
<1>3. ReadPrefix(budget)' = ReadPrefix(budget)
  BY DEF ReadPrefix, FloorCharBoundary, ValidUpTo, EndsInsideScalar, ValidUtf8, IsBoundary
<1> QED
  BY <1>1, <1>2, <1>3

\* The invariant gives what the facts about chunk ends assume.
LEMMA ContentIsValid ==
  ASSUME ContentInv
  PROVE  ValidUtf8(len) /\ Splitting
BY ReadPrefixFacts, NothingIsValid
   DEF ContentInv, ContentTypeOK, ContentIsPrefix, BreaksOnBoundaries, Splitting

\* The ends of a range are natural numbers.
LEMMA SpanTypes ==
  ASSUME spans \in Seq([from : Nat, to : Nat]), NEW i \in DOMAIN spans
  PROVE  /\ spans[i] \in [from : Nat, to : Nat]
         /\ spans[i].from \in Nat /\ spans[i].to \in Nat
<1>1. spans[i] \in [from : Nat, to : Nat]
  <2> DEFINE Span == [from : Nat, to : Nat]
  <2>1. spans \in Seq(Span) /\ i \in 1..Len(spans)
    OBVIOUS
  <2> HIDE DEF Span
  <2> SUFFICES spans[i] \in Span
    BY DEF Span
  <2> QED
    BY <2>1, ElementOfSeq
<1> QED
  BY <1>1

\* Nothing but the control point and the ranges' future changes: used for the steps
\* that leave file, content, lines and ranges alone.
LEMMA ContentKept ==
  ASSUME ContentInv, UNCHANGED <<file, budget, chunking, len, line, inFence, breaks, start, spans>>,
         ContentTypeOK', SplitReached', Unread' <=> Unread, PlanSurvivesReread',
         pc' \in {"waiting", "embedding"} => pc' = pc,
         pc' \in {"planned", "prepared", "rejected"} => RangesCoverContent'
  PROVE  ContentInv'
<1>1. ContentIsPrefix'
  BY ContentFrame DEF ContentInv, ContentIsPrefix
<1>2. BreaksOnBoundaries'
  BY ContentFrame DEF ContentInv, BreaksOnBoundaries
<1>3. RangesWellFormed'
  BY ContentFrame DEF ContentInv, RangesWellFormed
<1>4. RangesCoverContent'
  BY DEF RangesCoverContent
<1> QED
  BY <1>1, <1>2, <1>3, <1>4 DEF ContentInv

\* Reading fixes the content: the invariant's parts for it hold afresh.
LEMMA ReadContentStep ==
  ASSUME ContentInv, ReadContent
  PROVE  ContentInv'
<1>1. /\ pc = "read" /\ Unread /\ UNCHANGED <<file, budget, chunking, line, inFence, breaks, start>>
      /\ len' = ReadPrefix(budget) /\ spans = <<>> /\ breaks = {} /\ line = 0 /\ start = 0
      /\ file \in Seq(Bytes) /\ budget \in Nat
  BY DEF ReadContent, input, ContentInv, ContentIsPrefix, ContentTypeOK, Unread
<1>2. len' \in Nat /\ ReadPrefix(budget)' = ReadPrefix(budget)
  <2>1. ReadPrefix(budget)' = ReadPrefix(budget)
    BY <1>1 DEF ReadPrefix, FloorCharBoundary, ValidUpTo, EndsInsideScalar, ValidUtf8, IsBoundary
  <2>2. Len(file) \in Nat
    BY <1>1
  <2> QED
    BY <1>1, <2>1, <2>2, ReadPrefixFacts
<1>3. IsBoundary(0, len)' /\ IsBoundary(len, len)'
  BY DEF IsBoundary
<1>4. /\ pc' \in {"planned", "scan"}
      /\ \/ len' = 0 /\ pc' = "planned" /\ spans' = <<>>
         \/ len' > 0 /\ chunking.size >= len' /\ pc' = "planned" /\ spans' = <<[from |-> 0, to |-> len']>>
         \/ len' > 0 /\ chunking.size < len' /\ pc' = "scan" /\ spans' = <<>>
  BY <1>1, <1>2 DEF ReadContent, ContentInv, ContentTypeOK
<1>5. ContentTypeOK'
  <2>1. spans' \in Seq([from : Nat, to : Nat])
    <3>1. CASE spans' = <<>>
      BY <3>1
    <3>2. CASE spans' = <<[from |-> 0, to |-> len']>>
      <4>1. [from |-> 0, to |-> len'] \in [from : Nat, to : Nat]
        BY <1>2
      <4> QED
        BY <3>2, <4>1
    <3> QED
      BY <1>4, <3>1, <3>2
  <2> QED
    BY <1>1, <1>2, <1>4, <2>1 DEF ContentInv, ContentTypeOK
<1>6. ContentIsPrefix'
  BY <1>1, <1>2, <1>4 DEF ContentIsPrefix, Unread
<1>7. BreaksOnBoundaries'
  BY <1>1, <1>3, FS_EmptySet DEF BreaksOnBoundaries
<1>8. SplitReached'
  BY <1>1, <1>2, <1>4 DEF SplitReached
<1>9. RangesWellFormed' /\ RangesCoverContent'
  <2>1. CASE spans' = <<>>
    BY <1>2, <1>4, <2>1 DEF RangesWellFormed, RangesCoverContent
  <2>2. CASE spans' = <<[from |-> 0, to |-> len']>>
    <3>1. /\ DOMAIN spans' = {1} /\ spans'[1].from = 0 /\ spans'[1].to = len'
          /\ len' > 0 /\ chunking'.size >= len'
      BY <1>1, <1>2, <1>4, <2>2
    <3>2. RangesWellFormed'
      BY <1>2, <1>3, <3>1 DEF RangesWellFormed
    <3>3. \A k \in 0..(len' - 1) :
            1 \in DOMAIN spans' /\ spans'[1].from <= k /\ k < spans'[1].to
      <4>1. PICK n \in Nat : n = len'
        BY <1>2
      <4>2. \A k \in 0..(n - 1) : 0 <= k /\ k < n
        OBVIOUS
      <4>3. \A k \in 0..(n - 1) :
              1 \in DOMAIN spans' /\ spans'[1].from <= k /\ k < spans'[1].to
        BY <3>1, <4>1, <4>2
      <4> QED
        BY <4>1, <4>3
    <3>4. RangesCoverContent'
      BY <3>3 DEF RangesCoverContent
    <3> QED
      BY <3>2, <3>4
  <2> QED
    BY <1>4, <2>1, <2>2
<1> QED
  BY <1>4, <1>5, <1>6, <1>7, <1>8, <1>9 DEF ContentInv, PlanSurvivesReread

\* What push_breakpoint adds is within the content.
LEMMA PushKeeps ==
  ASSUME len \in Nat, NEW B, IsFiniteSet(B),
         \A b \in B : b.pos \in 1..(len - 1) /\ IsBoundary(b.pos, len) /\ b.score \in Nat \ {0},
         NEW p \in Nat, IsBoundary(p, len), NEW s \in Nat \ {0}
  PROVE  /\ IsFiniteSet(Push(B, p, s))
         /\ \A b \in Push(B, p, s) :
              b.pos \in 1..(len - 1) /\ IsBoundary(b.pos, len) /\ b.score \in Nat \ {0}
<1>1. IsFiniteSet(Push(B, p, s))
  BY FS_AddElement DEF Push
<1> QED
  BY <1>1 DEF Push

\* A step of the scan moves to the next line and pushes breakpoints at the start
\* of this line or of the next.
LEMMA ScanStep ==
  ASSUME ContentInv, ScanFence \/ ScanLine
  PROVE  ContentInv' /\ line' > line
<1>1. /\ pc = "scan" /\ line < len /\ line' = NextLine(line)
      /\ UNCHANGED <<file, budget, chunking, pc, len, start, spans>>
      /\ len \in Nat /\ line \in Nat /\ inFence \in BOOLEAN
  BY DEF ScanFence, ScanLine, input, ContentInv, ContentTypeOK
<1>2. /\ LineEnd(line) \in line..len /\ line' \in (line + 1)..len /\ IsBoundary(line', len)
  BY <1>1, ContentIsValid, NextLineFacts
<1>3. inFence' \in BOOLEAN
  BY <1>1 DEF ScanFence, ScanLine
<1>4. /\ IsFiniteSet(breaks')
      /\ \A b \in breaks' : b.pos \in 1..(len - 1) /\ IsBoundary(b.pos, len) /\ b.score \in Nat \ {0}
  <2> DEFINE OK(B) == /\ IsFiniteSet(B)
                      /\ \A b \in B : /\ b.pos \in 1..(len - 1) /\ IsBoundary(b.pos, len)
                                       /\ b.score \in Nat \ {0}
  <2>1. OK(breaks) /\ IsBoundary(line, len)
    BY DEF ContentInv, BreaksOnBoundaries
  <2>2. \A B, p, s : OK(B) /\ p \in {line, line'} /\ s \in {100, 80, 20, 5, 1} => OK(Push(B, p, s))
    <3> SUFFICES ASSUME NEW B, NEW p, NEW s, OK(B), p \in {line, line'},
                        s \in {100, 80, 20, 5, 1}
                 PROVE  OK(Push(B, p, s))
      OBVIOUS
    <3>1. p \in Nat /\ IsBoundary(p, len) /\ s \in Nat \ {0}
      BY <1>1, <1>2, <2>1
    <3> QED
      BY <1>1, <3>1, PushKeeps
  <2>3. CASE ScanFence
    <3>1. breaks' = Push(breaks, line, 80)
      BY <2>3 DEF ScanFence
    <3> HIDE DEF OK
    <3>2. OK(breaks')
      BY <2>1, <2>2, <3>1
    <3> QED
      BY <3>2 DEF OK
  <2>4. CASE ScanLine
    <3>1. \/ breaks' = breaks
          \/ \E M \in {breaks, Push(breaks, line, 100), Push(breaks, line, 5),
                       Push(breaks, line', 20)} : breaks' = Push(M, line', 1)
      BY <1>1, <2>4 DEF ScanLine
    <3> HIDE DEF OK
    <3>2. OK(breaks')
      BY <2>1, <2>2, <3>1
    <3> QED
      BY <3>2 DEF OK
  <2> QED
    BY <2>3, <2>4
<1>5. ContentTypeOK'
  BY <1>1, <1>2, <1>3 DEF ContentInv, ContentTypeOK
<1>6. ContentIsPrefix'
  BY <1>1, ContentFrame DEF ContentInv, ContentIsPrefix, Unread
<1>7. BreaksOnBoundaries'
  BY <1>1, <1>2, <1>4, ContentFrame DEF BreaksOnBoundaries
<1>8. SplitReached'
  BY <1>1 DEF ContentInv, SplitReached
<1>9. RangesWellFormed' /\ RangesCoverContent' /\ PlanSurvivesReread'
  BY <1>1 DEF ContentInv, SplitReached, RangesWellFormed, RangesCoverContent, PlanSurvivesReread
<1> QED
  BY <1>1, <1>2, <1>5, <1>6, <1>7, <1>8, <1>9 DEF ContentInv

\* The scan is over: nothing is split yet.
LEMMA ScanDoneStep ==
  ASSUME ContentInv, ScanDone
  PROVE  ContentInv'
<1>1. /\ pc = "scan" /\ pc' = "split" /\ spans = <<>> /\ start = 0 /\ chunking.size < len
      /\ UNCHANGED <<file, budget, chunking, len, line, inFence, breaks, start, spans>>
  BY DEF ScanDone, input, ContentInv, SplitReached
<1>2. ContentTypeOK'
  BY <1>1 DEF ContentInv, ContentTypeOK
<1>3. SplitReached'
  BY <1>1 DEF ContentInv, ContentTypeOK, SplitReached, IsBoundary
<1> QED
  BY <1>1, <1>2, <1>3, ContentKept DEF Unread, PlanSurvivesReread

\* One iteration of the splitting loop appends a range that begins at `start` and,
\* unless it reaches the end, moves `start` forward, to the range's end at most.
LEMMA SplitStep ==
  ASSUME ContentInv, Split
  PROVE  ContentInv' /\ (pc' = "split" => start' > start)
<1> DEFINE e == ChunkEnd(start)
           r == [from |-> start, to |-> e]
           n == Len(spans)
<1>1. /\ pc = "split" /\ UNCHANGED <<file, budget, chunking, len, line, inFence, breaks>>
      /\ spans' = Append(spans, r)
      /\ \/ e >= len /\ pc' = "planned" /\ start' = start
         \/ ~(e >= len) /\ start' = NextStart(start, e) /\ pc' = "split"
  BY DEF Split, input
<1>2. /\ Splitting /\ len \in Nat /\ start \in Nat /\ start < len /\ IsBoundary(start, len)
      /\ chunking.size \in Nat /\ chunking.size < len
      /\ spans \in Seq([from : Nat, to : Nat])
      /\ \A k \in 0..(start - 1) : Covered(k)
      /\ \A i \in DOMAIN spans : spans[i].from < start
  BY <1>1, ContentIsValid DEF ContentInv, ContentTypeOK, SplitReached
<1>3. /\ e \in (start + 1)..len /\ IsBoundary(e, len)
      /\ e - start <= chunking.size \/ e = CeilCharBoundary(start + 1, len)
  BY <1>2, ChunkEndFacts
<1>4. NextStart(start, e) \in (start + 1)..e /\ IsBoundary(NextStart(start, e), len)
  BY <1>2, <1>3, NextStartFacts
<1>5. r \in [from : Nat, to : Nat] /\ r.from = start /\ r.to = e
  BY <1>2, <1>3
<1> HIDE DEF e, r
<1>6. PICK t \in Nat : start' = t
  BY <1>1, <1>2, <1>3, <1>4
<1>7. /\ n \in Nat /\ DOMAIN spans = 1..n /\ DOMAIN spans' = 1..(n + 1)
      /\ spans'[n + 1] = r /\ \A i \in 1..n : spans'[i] = spans[i]
      /\ spans' \in Seq([from : Nat, to : Nat])
  BY <1>1, <1>2, <1>5
<1> HIDE DEF n
<1>8. \A k \in 0..(e - 1) : Covered(k)'
  <2> SUFFICES ASSUME NEW k \in 0..(e - 1)
               PROVE  \E i \in DOMAIN spans' : spans'[i].from <= k /\ k < spans'[i].to
    BY DEF Covered
  <2>1. CASE k < start
    <3>0. k \in 0..(start - 1)
      BY <1>2, <1>3, <2>1
    <3>1. PICK i \in DOMAIN spans : spans[i].from <= k /\ k < spans[i].to
      BY <1>2, <3>0 DEF Covered
    <3>2. i \in DOMAIN spans' /\ spans'[i] = spans[i]
      BY <1>7
    <3> QED
      BY <3>1, <3>2
  <2>2. CASE k >= start
    <3>1. n + 1 \in DOMAIN spans' /\ start <= k /\ k < e
      BY <1>2, <1>3, <1>7, <2>2
    <3> QED
      BY <1>5, <1>7, <3>1
  <2> QED
    BY <1>2, <1>3, <2>1, <2>2
<1>9. RangesWellFormed'
  <2> SUFFICES
        /\ \A i \in 1..(n + 1) :
             /\ spans'[i].from < spans'[i].to /\ spans'[i].to <= len
             /\ IsBoundary(spans'[i].from, len) /\ IsBoundary(spans'[i].to, len)
             /\ \/ spans'[i].to - spans'[i].from <= chunking.size
                \/ spans'[i].to = CeilCharBoundary(spans'[i].from + 1, len)
        /\ \A i, j \in 1..(n + 1) : i < j => spans'[i].from < spans'[j].from
    BY <1>1, <1>7, ContentFrame DEF RangesWellFormed
  <2>1. \A i \in 1..n :
             /\ spans[i].from < spans[i].to /\ spans[i].to <= len
             /\ IsBoundary(spans[i].from, len) /\ IsBoundary(spans[i].to, len)
             /\ \/ spans[i].to - spans[i].from <= chunking.size
                \/ spans[i].to = CeilCharBoundary(spans[i].from + 1, len)
    BY <1>7 DEF ContentInv, RangesWellFormed
  <2>2. /\ r.from < r.to /\ r.to <= len
        /\ IsBoundary(r.from, len) /\ IsBoundary(r.to, len)
        /\ r.to - r.from <= chunking.size \/ r.to = CeilCharBoundary(r.from + 1, len)
    BY <1>2, <1>3, <1>5
  <2>3. \A i \in 1..(n + 1) : i \in 1..n \/ i = n + 1
    BY <1>7
  <2>4. \A i \in 1..(n + 1) :
             /\ spans'[i].from < spans'[i].to /\ spans'[i].to <= len
             /\ IsBoundary(spans'[i].from, len) /\ IsBoundary(spans'[i].to, len)
             /\ \/ spans'[i].to - spans'[i].from <= chunking.size
                \/ spans'[i].to = CeilCharBoundary(spans'[i].from + 1, len)
    BY <1>7, <2>1, <2>2, <2>3
  <2>5. ASSUME NEW i \in 1..(n + 1), NEW j \in 1..(n + 1), i < j
        PROVE  spans'[i].from < spans'[j].from
    <3>1. i \in 1..n
      BY <1>7, <2>5
    <3>2. CASE j \in 1..n
      BY <1>7, <2>5, <3>1, <3>2 DEF ContentInv, RangesWellFormed
    <3>3. CASE j = n + 1
      BY <1>2, <1>5, <1>7, <3>1, <3>3
    <3> QED
      BY <2>3, <3>2, <3>3
  <2> QED
    BY <2>4, <2>5
<1>10. /\ t \in 0..len /\ IsBoundary(t, len)
       /\ pc' = "split" => t < len /\ start < t /\ t <= e
  BY <1>1, <1>2, <1>3, <1>4, <1>6
<1>11. ContentTypeOK'
  BY <1>1, <1>6, <1>7, <1>10 DEF ContentInv, ContentTypeOK
<1>12. ContentIsPrefix' /\ BreaksOnBoundaries'
  BY <1>1, ContentFrame DEF ContentInv, ContentIsPrefix, BreaksOnBoundaries, Unread
<1>13. SplitReached'
  <2>1. pc' = "split" => \A k \in 0..(t - 1) : Covered(k)'
    BY <1>2, <1>3, <1>8, <1>10
  <2>2. pc' = "split" => \A i \in DOMAIN spans' : spans'[i].from < t
    <3> SUFFICES ASSUME pc' = "split", NEW i \in 1..(n + 1)
                 PROVE  spans'[i].from < t
      BY <1>7
    <3>1. CASE i \in 1..n
      <4>1. spans[i].from \in Nat /\ spans[i].from < start
        BY <1>2, <1>7, <3>1, SpanTypes
      <4> QED
        BY <1>2, <1>7, <1>10, <3>1, <4>1
    <3>2. CASE i = n + 1
      BY <1>5, <1>7, <1>10, <3>2
    <3> QED
      BY <1>7, <3>1, <3>2
  <2>3. pc' # "scan" /\ len # 0 /\ chunking.size < len
    BY <1>1, <1>2
  <2> QED
    BY <1>1, <1>6, <1>10, <2>1, <2>2, <2>3, ContentFrame DEF SplitReached
<1>14. RangesCoverContent' /\ PlanSurvivesReread'
  <2>1. pc' = "planned" => e = len
    BY <1>1, <1>2, <1>3
  <2> QED
    BY <1>1, <1>8, <2>1 DEF RangesCoverContent, PlanSurvivesReread, Covered
<1> QED
  BY <1>6, <1>9, <1>10, <1>11, <1>12, <1>13, <1>14 DEF ContentInv

\* Reading as far as the last range ends gives the content that was planned, and
\* every range lies on its boundaries.
LEMMA PrepareStep ==
  ASSUME ContentInv, Prepare
  PROVE  ContentInv'
<1> DEFINE tos == {spans[i].to : i \in DOMAIN spans}
           n == IF spans = <<>> THEN 0 ELSE ReadPrefix(Max(tos))
<1>1. /\ pc = "planned" /\ UNCHANGED <<file, budget, chunking, len, line, inFence, breaks, start, spans>>
      /\ pc' = IF \A i \in DOMAIN spans :
                    n > 0 /\ /\ spans[i].from <= spans[i].to /\ spans[i].to <= n
                             /\ IsBoundary(spans[i].from, n) /\ IsBoundary(spans[i].to, n)
               THEN "prepared" ELSE "rejected"
  BY DEF Prepare, input
<1>2. /\ len \in Nat /\ len = ReadPrefix(budget) /\ file \in Seq(Bytes) /\ budget \in Nat
      /\ spans \in Seq([from : Nat, to : Nat])
      /\ RangesWellFormed
      /\ len > 0 => \A k \in 0..(len - 1) : Covered(k)
  BY <1>1 DEF ContentInv, ContentTypeOK, ContentIsPrefix, Unread, RangesCoverContent, Covered
<1>3. \A i \in DOMAIN spans :
        /\ spans[i].from \in Nat /\ spans[i].to \in Nat
        /\ spans[i].from < spans[i].to /\ spans[i].to <= len
        /\ IsBoundary(spans[i].from, len) /\ IsBoundary(spans[i].to, len)
  BY <1>2, SpanTypes DEF RangesWellFormed
<1>4. spans # <<>> => n = len /\ len > 0
  <2> SUFFICES ASSUME spans # <<>>
               PROVE  n = len /\ len > 0
    OBVIOUS
  <2>1. len > 0
    BY <1>2 DEF ContentInv, SplitReached
  <2>2. PICK i \in DOMAIN spans : spans[i].from <= len - 1 /\ len - 1 < spans[i].to
    <3>1. len - 1 \in 0..(len - 1)
      BY <1>2, <2>1
    <3>2. Covered(len - 1)
      BY <1>2, <2>1, <3>1
    <3> QED
      BY <3>2 DEF Covered
  <2>3. spans[i].to = len
    BY <1>2, <1>3, <2>2
  <2>4. tos \in SUBSET Nat /\ len \in tos /\ \A x \in tos : x <= len
    BY <1>3, <2>3
  <2>5. Max(tos) \in tos /\ \A x \in tos : x <= Max(tos)
    <3> HIDE DEF tos
    <3> QED
      BY <1>2, <2>4, MaxOfNaturals
  <2>6. Max(tos) = len
    <3> HIDE DEF tos
    <3>1. Max(tos) \in Nat /\ Max(tos) <= len /\ len <= Max(tos)
      BY <2>4, <2>5
    <3> QED
      BY <1>2, <3>1
  <2>7. ReadPrefix(len) = len
    BY <1>2, <2>1, RereadIsSame
  <2> QED
    BY <2>1, <2>6, <2>7
<1> HIDE DEF n
<1>5. pc' = "prepared"
  <2>1. CASE spans = <<>>
    BY <1>1, <2>1
  <2>2. CASE spans # <<>>
    BY <1>1, <1>2, <1>3, <1>4, <2>2
  <2> QED
    BY <2>1, <2>2
<1>6. ContentTypeOK' /\ SplitReached' /\ RangesCoverContent'
  BY <1>1, <1>5 DEF ContentInv, ContentTypeOK, SplitReached, RangesCoverContent
<1> QED
  BY <1>1, <1>5, <1>6, ContentKept DEF Unread, PlanSurvivesReread

-----------------------------------------------------------------------------
(* The journey.                                                             *)

\* Before the first file there is no content.
LEMMA ContentInit ==
  ASSUME JourneyInit
  PROVE  ContentInv
<1>1. /\ file = <<>> /\ budget = 0 /\ chunking = [size |-> 1, overlap |-> 0] /\ pc = "waiting"
      /\ len = 0 /\ line = 0 /\ inFence = FALSE /\ breaks = {} /\ start = 0 /\ spans = <<>>
  BY DEF JourneyInit
<1>2. ContentTypeOK
  <2>1. /\ file \in Seq(Bytes) /\ spans \in Seq([from : Nat, to : Nat])
        /\ chunking.size = 1 /\ chunking.overlap = 0
    BY <1>1
  <2>2. budget \in Nat /\ len \in Nat /\ line \in 0..len /\ start \in 0..len
    BY <1>1
  <2>3. inFence \in BOOLEAN /\ pc \in {"waiting"}
    BY <1>1
  <2>4. chunking.size \in Nat \ {0} /\ chunking.overlap \in Nat
    BY <2>1
  <2> QED
    BY <2>1, <2>2, <2>3, <2>4 DEF ContentTypeOK
<1>3. BreaksOnBoundaries
  BY <1>1, FS_EmptySet DEF BreaksOnBoundaries, IsBoundary
<1> QED
  BY <1>1, <1>2, <1>3
     DEF ContentInv, ContentIsPrefix, SplitReached, RangesWellFormed, RangesCoverContent,
         PlanSurvivesReread, Unread

\* The state before a file is read.
LEMMA ContentFresh ==
  ASSUME file' \in Seq(Bytes), budget' \in Nat,
         chunking'.size \in Nat \ {0}, chunking'.overlap \in Nat,
         pc' \in {"read", "embedding"}, inFence' \in BOOLEAN,
         pc' = "embedding" => budget' = 0,
         len' = 0, line' = 0, breaks' = {}, start' = 0, spans' = <<>>
  PROVE  ContentInv'
<1>1. ContentTypeOK'
  BY DEF ContentTypeOK
<1>2. BreaksOnBoundaries'
  BY FS_EmptySet DEF BreaksOnBoundaries, IsBoundary
<1> QED
  BY <1>1, <1>2
     DEF ContentInv, ContentIsPrefix, SplitReached, RangesWellFormed, RangesCoverContent,
         PlanSurvivesReread, Unread

\* Steps of the other parts leave the plan alone.
LEMMA ContentStutter ==
  ASSUME ContentInv, UNCHANGED vars
  PROVE  ContentInv'
<1>1. UNCHANGED <<file, budget, chunking, pc, len, line, inFence, breaks, start, spans>>
  BY DEF vars
<1>2. ContentTypeOK' /\ SplitReached' /\ RangesCoverContent' /\ PlanSurvivesReread'
  BY <1>1, ContentFrame
     DEF ContentInv, ContentTypeOK, SplitReached, RangesCoverContent, PlanSurvivesReread, Covered
<1> QED
  BY <1>1, <1>2, ContentKept DEF Unread

\* Every step keeps the invariant, and an iteration of a loop moves on.
LEMMA ContentNext ==
  ASSUME ContentInv, [JourneyNext]_journeyVars
  PROVE  /\ ContentInv'
         /\ pc = "scan" /\ pc' = "scan" => line' > line \/ UNCHANGED vars
         /\ pc = "split" /\ pc' = "split" => start' > start \/ UNCHANGED vars
<1>1. CASE UNCHANGED vars
  BY <1>1, ContentStutter
<1>2. CASE ReadCandidate
  <2>1. /\ pc = "waiting" /\ pc' = "read"
        /\ file' \in Files /\ budget' \in Budgets /\ chunking' \in Chunkings
        /\ UNCHANGED <<len, line, inFence, breaks, start, spans>>
    BY <1>2 DEF ReadCandidate
  <2>2. /\ len = 0 /\ line = 0 /\ breaks = {} /\ start = 0 /\ spans = <<>> /\ inFence \in BOOLEAN
    BY <2>1 DEF ContentInv, ContentIsPrefix, ContentTypeOK, Unread
  <2>3. /\ file' \in Seq(Bytes) /\ budget' \in Nat
        /\ chunking'.size \in Nat \ {0} /\ chunking'.overlap \in Nat
    BY <2>1, FilesAssumption, ChunkingAssumption
  <2> QED
    BY <2>1, <2>2, <2>3, ContentFresh
<1>3. CASE HandOff
  <2>1. /\ pc' = "embedding" /\ file' = <<>> /\ budget' = 0
        /\ chunking' = [size |-> 1, overlap |-> 0] /\ inFence' = FALSE
        /\ len' = 0 /\ line' = 0 /\ breaks' = {} /\ start' = 0 /\ spans' = <<>>
    BY <1>3 DEF HandOff
  <2>2. file' \in Seq(Bytes) /\ chunking'.size \in Nat \ {0} /\ chunking'.overlap \in Nat
    BY <2>1
  <2> QED
    BY <2>1, <2>2, ContentFresh
<1>4. CASE Next
  <2>1. CASE ReadContent
    BY <2>1, ReadContentStep DEF ReadContent
  <2>2. CASE ScanFence \/ ScanLine
    BY <2>2, ScanStep DEF ScanFence, ScanLine
  <2>3. CASE ScanDone
    BY <2>3, ScanDoneStep DEF ScanDone
  <2>4. CASE Split
    BY <2>4, SplitStep DEF Split
  <2>5. CASE Prepare
    BY <2>5, PrepareStep DEF Prepare
  <2>6. CASE Finished
    BY <2>6, ContentStutter DEF Finished
  <2> QED
    BY <1>4, <2>1, <2>2, <2>3, <2>4, <2>5, <2>6 DEF Next
<1> QED
  BY <1>1, <1>2, <1>3, <1>4 DEF JourneyNext, journeyVars, PlanDone

\* Whatever the files, the budgets and the chunk settings: the content is a prefix
\* as ReadPrefix cuts it, breakpoints lie on its boundaries, and ranges reach from
\* its beginning to where the splitting loop has come (ingest.rs and chunking.rs).
THEOREM ContentAlways == JourneySpec => []ContentInv
<1>1. ContentInv /\ [JourneyNext]_journeyVars => ContentInv'
  BY ContentNext
<1> QED
  BY ContentInit, <1>1, PTL DEF JourneySpec

\* read_content_prefix_with_budget keeps the longest run of whole scalars within
\* the budget, for every file and every budget: a read limit that falls inside a
\* scalar neither rejects the file nor leaves half a scalar in the content.
THEOREM PrefixAlwaysExact == JourneySpec => []PrefixIsExact
<1>1. ASSUME ContentInv, pc # "read"
      PROVE  len = ExactPrefix(budget)
  <2>1. file \in Seq(Bytes) /\ budget \in Nat /\ len \in Nat
    BY <1>1 DEF ContentInv, ContentTypeOK
  <2>2. len = ReadPrefix(budget)
    <3>1. CASE Unread
      <4>1. budget = 0 /\ len = 0
        BY <1>1, <3>1 DEF ContentInv, ContentIsPrefix, Unread
      <4>2. ReadPrefix(0) \in 0..Len(file) /\ ReadPrefix(0) <= 0
        BY <2>1, ReadPrefixFacts
      <4> QED
        BY <4>1, <4>2
    <3>2. CASE ~Unread
      BY <1>1, <3>2 DEF ContentInv, ContentIsPrefix
    <3> QED
      BY <3>1, <3>2
  <2> QED
    BY <2>1, <2>2, ReadPrefixExact
<1>2. ASSUME ContentInv
      PROVE  MayBeginValid(budget) <=>
               /\ \A i \in 1..Got(budget) : file[i] # "c" =>
                    \A j \in (i + 1)..(i + Width(file[i]) - 1) :
                      IF j <= Got(budget) THEN file[j] = "c" ELSE Got(budget) < Len(file)
               /\ Owned(Got(budget))
  <2> DEFINE got == Got(budget)
             whole == \A i \in 1..got : file[i] # "c" =>
                        \A j \in (i + 1)..(i + Width(file[i]) - 1) :
                          IF j <= got THEN file[j] = "c" ELSE got < Len(file)
  <2>1. got \in Nat
    BY <1>2, GotFacts DEF ContentInv, ContentTypeOK
  <2>2. MayBeginValid(budget) <=> Whole(got) /\ Owned(got) /\ (Full(got) \/ got < Len(file))
    BY DEF MayBeginValid
  <2> HIDE DEF got
  <2>3. whole => Whole(got)
    BY <2>1 DEF Whole
  <2>4. ASSUME whole, ~Full(got)
        PROVE  got < Len(file)
    <3>1. PICK i \in 1..got : file[i] # "c" /\ ~(i + Width(file[i]) - 1 <= got)
      BY <2>4 DEF Full
    <3>2. /\ i + Width(file[i]) - 1 \in (i + 1)..(i + Width(file[i]) - 1)
          /\ ~(i + Width(file[i]) - 1 <= got)
      BY <2>1, <3>1, WidthRange
    <3> QED
      BY <2>4, <3>1, <3>2
  <2>5. Whole(got) /\ (Full(got) \/ got < Len(file)) => whole
    BY <2>1, WidthRange DEF Whole, Full
  <2> QED
    BY <2>2, <2>3, <2>4, <2>5 DEF got
<1>3. ContentInv => PrefixIsExact
  BY <1>1, <1>2 DEF PrefixIsExact, ExactPrefix, Binary, ValidWithin, Got, Owned
<1> QED
  BY ContentAlways, <1>3, PTL

\* The ranges structure_chunks and fixed_utf8_chunks produce are not empty, lie on
\* scalar boundaries, are longer than chunk_size only for one wide scalar, and have
\* strictly increasing starts, for every content, size and smaller overlap.
THEOREM RangesAlwaysWellFormed == JourneySpec => []RangesWellFormed
<1>1. ContentInv => RangesWellFormed
  BY DEF ContentInv
<1> QED
  BY ContentAlways, <1>1, PTL

\* The ranges leave no byte of the content out.
THEOREM RangesAlwaysCover == JourneySpec => []RangesCoverContent
<1>1. ContentInv => RangesCoverContent
  BY DEF ContentInv
<1> QED
  BY ContentAlways, <1>1, PTL

\* prepare_embedded_chunks, which rereads the file up to the end of its last range
\* and not up to ingest's budget, accepts every plan while the file is unchanged.
THEOREM PlanAlwaysSurvives == JourneySpec => []PlanSurvivesReread
<1>1. ContentInv => PlanSurvivesReread
  BY DEF ContentInv
<1> QED
  BY ContentAlways, <1>1, PTL

\* Both loops of the chunker move forward in every iteration, so they end for every
\* content and every configuration config.rs accepts.
THEOREM LoopsAlwaysAdvance == JourneySpec => LoopsAdvance
<1>1. ContentInv /\ [JourneyNext]_journeyVars =>
        [/\ pc = "scan" /\ pc' = "scan" => line' > line
         /\ pc = "split" /\ pc' = "split" => start' > start]_vars
  BY ContentNext
<1> QED
  BY ContentAlways, <1>1, PTL DEF JourneySpec, LoopsAdvance

=============================================================================
