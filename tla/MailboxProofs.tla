--------------------------- MODULE MailboxProofs ---------------------------
(***************************************************************************)
(* Proofs about Mailbox, for every number of messages, sessions, commands  *)
(* and crashes: types whatever overlaps, and, when the operations of       *)
(* sessions do not overlap, UIDs, the index, the numbers clients count     *)
(* with and what a client that comes back can learn.                       *)
(***************************************************************************)
EXTENDS Mailbox, FiniteSetTheorems, WellFoundedInduction, TLAPS

(***************************************************************************)
(* Numbers and sorted sequences.                                           *)
(***************************************************************************)
\* A set of numbers has a least one.
LEMMA LeastExists ==
  ASSUME NEW S, S \subseteq Nat, S # {}
  PROVE  \E x \in S : \A y \in S : x <= y
<1> DEFINE R == {ss \in Nat \X Nat : ss[1] < ss[2]}
<1>1. IsWellFoundedOn(R, Nat)
  BY NatLessThanWellFounded DEF OpToRel
<1>2. \E x \in S : \A y \in S : ~(<<y, x>> \in R)
  <2> HIDE DEF R
  <2> QED BY <1>1, WFMin
<1>3. PICK x \in S : \A y \in S : ~(<<y, x>> \in R)
  BY <1>2
<1>4. ASSUME NEW y \in S PROVE x <= y
  <2>1. ~(<<y, x>> \in R)
    BY <1>3
  <2> QED BY <2>1
<1> QED BY <1>4

\* Min, which the scan and the removal take of the ids left, is in the set.
LEMMA MinIn ==
  ASSUME NEW S, S \subseteq Nat, S # {}
  PROVE  Min(S) \in S
BY LeastExists DEF Min

\* A finite set of numbers is bounded, so it has a largest one.
LEMMA GreatestExists ==
  ASSUME NEW S, S \subseteq Nat, IsFiniteSet(S), S # {}
  PROVE  \E x \in S : \A y \in S : y <= x
<1> DEFINE Bad == {n \in Nat : \E T \in SUBSET Nat : /\ IsFiniteSet(T) /\ T # {} /\ Cardinality(T) = n
                                                     /\ \A x \in T : \E y \in T : x < y}
<1>1. SUFFICES Bad = {}
  <2>1. Cardinality(S) \in Nat
    BY FS_CardinalityType
  <2>2. Cardinality(S) \notin Bad
    BY <1>1
  <2>3. ~\A x \in S : \E y \in S : x < y
    BY <2>1, <2>2
  <2>4. PICK x \in S : \A y \in S : ~(x < y)
    BY <2>3
  <2>5. \A y \in S : y <= x
    BY <2>4
  <2> QED BY <2>5
<1>2. SUFFICES ASSUME Bad # {} PROVE FALSE
  OBVIOUS
<1>3. PICK n \in Bad : \A m \in Bad : n <= m
  <2>1. Bad \subseteq Nat
    OBVIOUS
  <2> HIDE DEF Bad
  <2> QED BY <1>2, <2>1, LeastExists
<1>4. PICK T \in SUBSET Nat : IsFiniteSet(T) /\ T # {} /\ Cardinality(T) = n /\ \A x \in T : \E y \in T : x < y
  OBVIOUS
<1>5. PICK a \in T : TRUE
  BY <1>4
<1>6. IsFiniteSet(T \ {a}) /\ Cardinality(T \ {a}) = n - 1 /\ n \in Nat /\ Cardinality(T \ {a}) \in Nat
  BY <1>4, <1>5, FS_RemoveElement, FS_CardinalityType
<1>7. PICK b \in T : a < b
  BY <1>4, <1>5
<1>8. n - 1 \notin Bad
  BY <1>3, <1>6
<1>9. T \ {a} # {} /\ T \ {a} \in SUBSET Nat
  BY <1>7
<1>10. ~\A x \in T \ {a} : \E y \in T \ {a} : x < y
  BY <1>6, <1>8, <1>9
<1>11. PICK x \in T \ {a} : \A y \in T \ {a} : ~(x < y)
  BY <1>10
<1>12. PICK y \in T : x < y
  BY <1>4, <1>11
<1>13. y = a
  BY <1>11, <1>12
<1>14. x < b
  BY <1>7, <1>11, <1>12, <1>13
<1>15. b # a
  BY <1>7
<1> QED BY <1>7, <1>11, <1>14, <1>15

\* Ascending lists of the elements of S.
Increasing(q) == \A m, n \in DOMAIN q : m < n => q[m] < q[n]
IsSorted(q, S) == /\ q \in [1..Cardinality(S) -> S] /\ Increasing(q)
                  /\ \A x \in S : \E n \in DOMAIN q : q[n] = x

\* Every finite set of numbers can be listed in ascending order.
LEMMA SortedExists ==
  ASSUME NEW S, S \subseteq Nat, IsFiniteSet(S)
  PROVE  \E q : IsSorted(q, S)
<1> DEFINE Bad == {n \in Nat : \E T \in SUBSET Nat : /\ IsFiniteSet(T) /\ Cardinality(T) = n
                                                     /\ ~\E q : IsSorted(q, T)}
<1>1. SUFFICES Bad = {}
  <2>1. Cardinality(S) \in Nat
    BY FS_CardinalityType
  <2> QED BY <1>1, <2>1
<1>2. SUFFICES ASSUME Bad # {} PROVE FALSE
  OBVIOUS
<1>3. PICK n \in Bad : \A m \in Bad : n <= m
  <2>1. Bad \subseteq Nat
    OBVIOUS
  <2> HIDE DEF Bad
  <2> QED BY <1>2, <2>1, LeastExists
<1>4. PICK T \in SUBSET Nat : IsFiniteSet(T) /\ Cardinality(T) = n /\ ~\E q : IsSorted(q, T)
  OBVIOUS
<1>5. n \in Nat
  OBVIOUS
<1>6. CASE T = {}
  <2>1. Cardinality(T) = 0
    BY <1>6, FS_EmptySet
  <2>2. IsSorted([i \in 1..0 |-> 0], T)
    BY <1>6, <2>1 DEF IsSorted, Increasing
  <2> QED BY <1>4, <2>2
<1>7. CASE T # {}
  <2>1. PICK b \in T : \A y \in T : y <= b
    BY <1>4, <1>7, GreatestExists
  <2> DEFINE U == T \ {b}
  <2>2. IsFiniteSet(U) /\ Cardinality(U) = n - 1 /\ Cardinality(U) \in Nat /\ U \in SUBSET Nat
    BY <1>4, <2>1, FS_RemoveElement, FS_CardinalityType
  <2>3. n - 1 \notin Bad
    BY <1>3, <1>5, <2>2
  <2>4. \E q : IsSorted(q, U)
    BY <2>2, <2>3
  <2>5. PICK q : IsSorted(q, U)
    BY <2>4
  <2> DEFINE p == [i \in 1..n |-> IF i = n THEN b ELSE q[i]]
  <2>6. q \in [1..(n - 1) -> U] /\ Increasing(q) /\ \A x \in U : \E i \in 1..(n - 1) : q[i] = x
    BY <2>2, <2>5 DEF IsSorted
  <2>7. n > 0 /\ \A i \in 1..(n - 1) : q[i] \in Nat /\ q[i] < b
    <3>1. n - 1 \in Nat
      BY <2>2
    <3>2. n > 0
      BY <1>5, <3>1
    <3>3. ASSUME NEW i \in 1..(n - 1) PROVE q[i] \in Nat /\ q[i] < b
      <4>1. q[i] \in T /\ q[i] # b
        BY <2>6
      <4>2. q[i] \in Nat /\ b \in Nat /\ q[i] <= b
        BY <2>1, <4>1
      <4> QED BY <4>1, <4>2
    <3> QED BY <3>2, <3>3
  <2>8. p \in [1..n -> T] /\ \A i \in 1..(n - 1) : p[i] = q[i]
    BY <2>1, <2>6, <2>7
  <2>9. p[n] = b
    BY <2>7
  <2>10. Increasing(p)
    <3> SUFFICES ASSUME NEW i \in 1..n, NEW j \in 1..n, i < j PROVE p[i] < p[j]
      BY DEF Increasing
    <3>1. i \in 1..(n - 1) /\ p[i] = q[i]
      BY <1>5, <2>8
    <3>2. CASE j = n
      BY <2>7, <2>9, <3>1, <3>2
    <3>3. CASE j # n
      <4>1. j \in 1..(n - 1) /\ p[j] = q[j]
        BY <1>5, <2>8, <3>3
      <4> QED BY <2>6, <3>1, <4>1 DEF Increasing
    <3> QED BY <3>2, <3>3
  <2>11. ASSUME NEW x \in T PROVE \E i \in 1..n : p[i] = x
    <3>1. CASE x = b
      BY <1>5, <2>7, <2>9, <3>1
    <3>2. CASE x # b
      <4>1. PICK i \in 1..(n - 1) : q[i] = x
        BY <2>6, <3>2
      <4> QED BY <1>5, <2>8, <4>1
    <3> QED BY <3>1, <3>2
  <2> HIDE DEF p
  <2>12. IsSorted(p, T)
    BY <1>4, <2>8, <2>10, <2>11 DEF IsSorted
  <2> QED BY <1>4, <2>12
<1> QED BY <1>6, <1>7

\* Functions that agree everywhere are one.
LEMMA SameFunction ==
  ASSUME NEW A, NEW f, NEW g, f = [x \in A |-> f[x]], g = [x \in A |-> g[x]], \A x \in A : f[x] = g[x]
  PROVE  f = g
<1>1. [x \in A |-> f[x]] = [x \in A |-> g[x]]
  OBVIOUS
<1> QED BY <1>1, Zenon

\* In one way only.
LEMMA SortedUnique ==
  ASSUME NEW S, S \subseteq Nat, IsFiniteSet(S), NEW p, NEW q, IsSorted(p, S),
         q \in [1..Cardinality(S) -> S], Increasing(q), \A x \in S : \E n \in DOMAIN q : q[n] = x
  PROVE  p = q
<1> DEFINE N == Cardinality(S)
<1>1. N \in Nat
  BY FS_CardinalityType
<1>2. p \in [1..N -> S] /\ q \in [1..N -> S] /\ Increasing(p) /\ Increasing(q)
  BY DEF IsSorted
<1>3. \A x \in S : (\E n \in 1..N : p[n] = x) /\ (\E n \in 1..N : q[n] = x)
  BY <1>2 DEF IsSorted
<1> DEFINE D == {n \in 1..N : p[n] # q[n]}
<1> HIDE DEF N
<1>4. SUFFICES ASSUME D # {} PROVE FALSE
  <2>1. D = {}
    BY <1>4
  <2>2. \A n \in 1..N : p[n] = q[n]
    BY <2>1
  <2>3. p = [n \in 1..N |-> p[n]] /\ q = [n \in 1..N |-> q[n]]
    BY <1>2
  <2> QED BY <2>2, <2>3, SameFunction
<1>5. PICK m \in 1..N : p[m] # q[m] /\ \A k \in 1..N : p[k] # q[k] => m <= k
  <2>1. D \subseteq Nat
    OBVIOUS
  <2>2. \E x \in D : \A y \in D : x <= y
    <3> HIDE DEF D
    <3> QED BY <1>4, <2>1, LeastExists
  <2> QED BY <2>2
<1>6. p[m] \in Nat /\ q[m] \in Nat /\ p[m] \in S /\ q[m] \in S
  BY <1>2
<1>7. CASE p[m] < q[m]
  <2>1. PICK k \in 1..N : q[k] = p[m]
    BY <1>3, <1>6
  <2>2. CASE k < m
    <3>1. p[k] = q[k]
      BY <1>1, <1>5, <2>2
    <3>2. p[k] < p[m]
      BY <1>2, <2>2 DEF Increasing
    <3> QED BY <1>6, <2>1, <3>1, <3>2
  <2>3. CASE m < k
    <3>1. q[m] < q[k]
      BY <1>2, <2>3 DEF Increasing
    <3> QED BY <1>6, <1>7, <2>1, <3>1
  <2>4. CASE m = k
    BY <1>6, <1>7, <2>1, <2>4
  <2> QED BY <1>1, <2>2, <2>3, <2>4
<1>8. CASE q[m] < p[m]
  <2>1. PICK k \in 1..N : p[k] = q[m]
    BY <1>3, <1>6
  <2>2. CASE k < m
    <3>1. p[k] = q[k]
      BY <1>1, <1>5, <2>2
    <3>2. q[k] < q[m]
      BY <1>2, <2>2 DEF Increasing
    <3> QED BY <1>6, <2>1, <3>1, <3>2
  <2>3. CASE m < k
    <3>1. p[m] < p[k]
      BY <1>2, <2>3 DEF Increasing
    <3> QED BY <1>6, <1>8, <2>1, <3>1
  <2>4. CASE m = k
    BY <1>6, <1>8, <2>1, <2>4
  <2> QED BY <1>1, <2>2, <2>3, <2>4
<1> QED BY <1>5, <1>6, <1>7, <1>8

\* The model's Ascending lists every element, once, in order.
LEMMA AscendingSorted ==
  ASSUME NEW S, S \subseteq Nat, IsFiniteSet(S)
  PROVE  IsSorted(Ascending(S), S)
<1> DEFINE N == Cardinality(S)
           q == Ascending(S)
<1>1. N \in Nat
  BY FS_CardinalityType
<1>2. q \in [1..N -> S] /\ Increasing(q)
  <2>1. \E r \in [1..N -> S] : \A m, n \in DOMAIN r : m < n => r[m] < r[n]
    BY SortedExists DEF IsSorted, Increasing
  <2> QED BY <2>1 DEF Ascending, Increasing
<1> HIDE DEF q
<1>3. ASSUME NEW x \in S, \A n \in 1..N : q[n] # x PROVE FALSE
  <2>1. IsFiniteSet(S \ {x}) /\ Cardinality(S \ {x}) = N - 1
    BY FS_RemoveElement
  <2>2. IsFiniteSet(1..N) /\ Cardinality(1..N) = N
    BY <1>1, FS_Interval
  <2> HIDE DEF N
  <2>3. q \in [1..N -> S \ {x}]
    BY <1>2, <1>3
  <2>4. Cardinality(S \ {x}) < Cardinality(1..N)
    BY <1>1, <2>1, <2>2
  <2>5. PICK m \in 1..N, n \in 1..N : m # n /\ q[m] = q[n]
    <3> DEFINE A == 1..N
               B == S \ {x}
    <3>1. IsFiniteSet(A) /\ IsFiniteSet(B) /\ Cardinality(B) < Cardinality(A) /\ q \in [A -> B]
      BY <2>1, <2>2, <2>3, <2>4
    <3>2. \E m, n \in A : m # n /\ q[m] = q[n]
      <4> HIDE DEF A, B
      <4> QED BY <3>1, FS_PigeonHole
    <3> QED BY <3>2
  <2>6. q[m] \in Nat
    BY <1>2
  <2>7. m < n \/ n < m
    BY <2>5
  <2>8. DOMAIN q = 1..N
    BY <1>2
  <2>9. q[m] < q[n] \/ q[n] < q[m]
    BY <1>2, <2>7, <2>8 DEF Increasing
  <2> QED BY <2>5, <2>6, <2>9
<1>4. DOMAIN q = 1..N
  BY <1>2
<1> QED BY <1>2, <1>3, <1>4 DEF IsSorted, q

\* So any ascending list of all elements of S is Ascending(S).
LEMMA AscendingIs ==
  ASSUME NEW S, S \subseteq Nat, IsFiniteSet(S), NEW n \in Nat, NEW q, q \in [1..n -> S], Increasing(q),
         \A x \in S : \E m \in 1..n : q[m] = x
  PROVE  q = Ascending(S)
<1>1. IsFiniteSet(1..n) /\ Cardinality(1..n) = n
  BY FS_Interval
<1>2. Cardinality(S) \in Nat
  BY FS_CardinalityType
<1>3. DOMAIN q = 1..n
  OBVIOUS
<1>4. q \in Surjection(1..n, S)
  BY DEF Surjection
<1>5. q \in Injection(1..n, S)
  <2> SUFFICES ASSUME NEW a \in 1..n, NEW b \in 1..n, a # b PROVE q[a] # q[b]
    BY DEF Injection, IsInjective
  <2>1. a < b \/ b < a
    OBVIOUS
  <2>2. q[a] < q[b] \/ q[b] < q[a]
    BY <1>3, <2>1 DEF Increasing
  <2>3. q[a] \in Nat /\ q[b] \in Nat
    OBVIOUS
  <2> QED BY <2>2, <2>3
<1>6. Cardinality(S) = n
  BY <1>1, <1>4, <1>5, FS_Surjection
<1>7. IsSorted(Ascending(S), S)
  BY AscendingSorted
<1> QED BY <1>3, <1>6, <1>7, SortedUnique

\* It is a sequence of elements of S, as long as S is large.
LEMMA AscendingType ==
  ASSUME NEW S, S \subseteq Nat, IsFiniteSet(S)
  PROVE  /\ Ascending(S) \in Seq(S) /\ Len(Ascending(S)) = Cardinality(S)
         /\ DOMAIN Ascending(S) = 1..Cardinality(S) /\ Cardinality(S) \in Nat
<1>1. Cardinality(S) \in Nat
  BY FS_CardinalityType
<1>2. Ascending(S) \in [1..Cardinality(S) -> S]
  BY AscendingSorted DEF IsSorted
<1> QED BY <1>1, <1>2

\* What the proofs below use of it.
LEMMA AscendingFacts ==
  ASSUME NEW S, S \subseteq Nat, IsFiniteSet(S)
  PROVE  \E n \in Nat : /\ Ascending(S) \in [1..n -> S] /\ Increasing(Ascending(S))
                        /\ \A x \in S : \E i \in 1..n : Ascending(S)[i] = x
<1>1. Cardinality(S) \in Nat
  BY FS_CardinalityType
<1>2. IsSorted(Ascending(S), S)
  BY AscendingSorted
<1>3. DOMAIN Ascending(S) = 1..Cardinality(S)
  BY <1>2 DEF IsSorted
<1> QED BY <1>1, <1>2, <1>3 DEF IsSorted

\* Two lists of which the first stays below the second make one list.
LEMMA AscendingJoin ==
  ASSUME NEW A, A \subseteq Nat, IsFiniteSet(A), NEW B, B \subseteq Nat, IsFiniteSet(B),
         \A a \in A, b \in B : a < b
  PROVE  Ascending(A \cup B) = Ascending(A) \o Ascending(B)
<1> DEFINE p == Ascending(A)
           q == Ascending(B)
           c == p \o q
<1>1. PICK m \in Nat : p \in [1..m -> A] /\ Increasing(p) /\ \A x \in A : \E i \in 1..m : p[i] = x
  BY AscendingFacts
<1>2. PICK n \in Nat : q \in [1..n -> B] /\ Increasing(q) /\ \A x \in B : \E i \in 1..n : q[i] = x
  BY AscendingFacts
<1> HIDE DEF p, q
<1>3. p \in Seq(A) /\ q \in Seq(B) /\ Len(p) = m /\ Len(q) = n
  BY <1>1, <1>2
<1>4. /\ Len(c) = m + n /\ DOMAIN c = 1..(m + n)
      /\ \A i \in 1..(m + n) : c[i] = IF i <= m THEN p[i] ELSE q[i - m]
  BY <1>3
<1> HIDE DEF c
<1>5. \A i \in 1..(m + n) : \/ i \in 1..m /\ c[i] = p[i] /\ c[i] \in A
                            \/ i > m /\ i - m \in 1..n /\ c[i] = q[i - m] /\ c[i] \in B
  BY <1>1, <1>2, <1>4
<1>6. c \in [1..(m + n) -> A \cup B]
  <2>1. A \subseteq A \cup B /\ B \subseteq A \cup B
    OBVIOUS
  <2>2. p \in Seq(A \cup B) /\ q \in Seq(A \cup B)
    BY <1>1, <1>2, <1>3, <2>1
  <2>3. c \in Seq(A \cup B)
    BY <2>2 DEF c
  <2> QED BY <1>4, <2>3
<1>7. Increasing(c)
  <2> SUFFICES ASSUME NEW i \in 1..(m + n), NEW j \in 1..(m + n), i < j PROVE c[i] < c[j]
    BY <1>4 DEF Increasing
  <2>1. CASE i \in 1..m /\ j \in 1..m
    <3>1. c[i] = p[i] /\ c[j] = p[j]
      BY <1>4, <2>1
    <3> QED BY <1>1, <2>1, <3>1 DEF Increasing
  <2>2. CASE i \in 1..m /\ j > m
    <3>1. c[i] \in A /\ c[j] \in B
      BY <1>5, <2>2
    <3> QED BY <3>1
  <2>3. CASE i > m
    <3>1. i - m \in 1..n /\ j - m \in 1..n /\ c[i] = q[i - m] /\ c[j] = q[j - m] /\ i - m < j - m
      BY <1>5, <2>3
    <3> QED BY <1>2, <3>1 DEF Increasing
  <2> QED BY <2>1, <2>2, <2>3
<1>8. ASSUME NEW x \in A \cup B PROVE \E i \in 1..(m + n) : c[i] = x
  <2>1. CASE x \in A
    <3>1. PICK i \in 1..m : p[i] = x
      BY <1>1, <2>1
    <3>2. i \in 1..(m + n) /\ c[i] = x
      BY <1>4, <3>1
    <3> QED BY <3>2
  <2>2. CASE x \in B
    <3>1. PICK i \in 1..n : q[i] = x
      BY <1>2, <2>2
    <3>2. i + m \in 1..(m + n) /\ ~(i + m <= m) /\ (i + m) - m = i
      OBVIOUS
    <3>3. c[i + m] = x
      BY <1>4, <3>1, <3>2
    <3> QED BY <3>2, <3>3
  <2> QED BY <2>1, <2>2
<1>9. IsFiniteSet(A \cup B) /\ A \cup B \subseteq Nat /\ m + n \in Nat
  <2>1. IsFiniteSet(A \cup B)
    BY FS_Union
  <2> QED BY <2>1
<1>10. c = Ascending(A \cup B)
  BY <1>6, <1>7, <1>8, <1>9, AscendingIs
<1> QED BY <1>10 DEF c, p, q

\* EXPUNGE lines for the positions of `gone` take exactly those messages out
\* of the client's numbers.
LEMMA DroppedAscending ==
  ASSUME NEW known, DOMAIN known \subseteq Nat, IsFiniteSet(DOMAIN known), NEW gone
  PROVE  Dropped(Ascending(DOMAIN known), known, gone) = Ascending(DOMAIN known \ gone)
<1> DEFINE K == DOMAIN known
           at == Ascending(K)
           P == {n \in DOMAIN at : at[n] \notin gone /\ n \in DOMAIN at}
           kept == Ascending(P)
           r == [n \in DOMAIN kept |-> at[kept[n]]]
<1>1. PICK N \in Nat : at \in [1..N -> K] /\ Increasing(at) /\ \A x \in K : \E i \in 1..N : at[i] = x
  BY AscendingFacts
<1>2. Dropped(at, known, gone) = r
  BY DEF Dropped
<1> HIDE DEF at
<1>3. P \subseteq 1..N
  BY <1>1
<1>4. P \subseteq Nat /\ IsFiniteSet(P) /\ DOMAIN at = 1..N
  BY <1>1, <1>3, FS_Interval, FS_Subset
<1>5. PICK M \in Nat : kept \in [1..M -> P] /\ Increasing(kept) /\ \A x \in P : \E i \in 1..M : kept[i] = x
  <2> HIDE DEF P
  <2> QED BY <1>4, AscendingFacts
<1> HIDE DEF kept
<1>6. r \in [1..M -> K \ gone]
  BY <1>1, <1>4, <1>5
<1>7. Increasing(r)
  <2> SUFFICES ASSUME NEW i \in 1..M, NEW j \in 1..M, i < j PROVE at[kept[i]] < at[kept[j]]
    BY <1>5 DEF Increasing
  <2>1. kept[i] \in 1..N /\ kept[j] \in 1..N
    BY <1>3, <1>5
  <2>2. kept[i] < kept[j]
    BY <1>5 DEF Increasing
  <2> QED BY <1>4, <1>1, <2>1, <2>2 DEF Increasing
<1>8. ASSUME NEW x \in K \ gone PROVE \E i \in 1..M : r[i] = x
  <2>1. PICK n \in 1..N : at[n] = x
    BY <1>1
  <2>2. n \in P
    BY <1>4, <2>1
  <2>3. PICK i \in 1..M : kept[i] = n
    BY <1>5, <2>2
  <2>4. i \in DOMAIN kept
    BY <1>5
  <2> QED BY <2>1, <2>3, <2>4
<1>9. K \ gone \subseteq Nat /\ IsFiniteSet(K \ gone)
  BY FS_Subset
<1> HIDE DEF r, K
<1>10. r = Ascending(K \ gone)
  BY <1>6, <1>7, <1>8, <1>9, AscendingIs
<1> QED BY <1>2, <1>10 DEF at, K

\* EXPUNGE and EXISTS together tell a client exactly the new list, when the
\* messages that left are those whose UIDs are gone and the new ones come last.
LEMMA ChangesAscending ==
  ASSUME NEW known, DOMAIN known \subseteq Nat, IsFiniteSet(DOMAIN known),
         NEW fresh, DOMAIN fresh \subseteq Nat, IsFiniteSet(DOMAIN fresh),
         \A i \in DOMAIN known : i \notin DOMAIN fresh <=> \A j \in DOMAIN fresh : fresh[j].uid # known[i].uid,
         \A k \in DOMAIN known \cap DOMAIN fresh : \A x \in DOMAIN fresh \ DOMAIN known : k < x
  PROVE  Changes(Ascending(DOMAIN known), known, fresh) = Ascending(DOMAIN fresh)
<1> DEFINE gone == {i \in DOMAIN known : \A j \in DOMAIN fresh : fresh[j].uid # known[i].uid}
           A == DOMAIN known \cap DOMAIN fresh
           B == DOMAIN fresh \ DOMAIN known
           kept == Dropped(Ascending(DOMAIN known), known, gone)
           now == Ascending(DOMAIN fresh)
<1>1. DOMAIN known \ gone = A
  OBVIOUS
<1>2. kept = Ascending(A)
  <2> HIDE DEF gone, A
  <2> QED BY <1>1, DroppedAscending
<1>3. A \subseteq Nat /\ B \subseteq Nat /\ IsFiniteSet(A) /\ IsFiniteSet(B) /\ A \cup B = DOMAIN fresh
  BY FS_Subset
<1>4. \A a \in A, b \in B : a < b
  OBVIOUS
<1>5. Changes(Ascending(DOMAIN known), known, fresh) = kept \o SubSeq(now, Len(kept) + 1, Len(now))
  BY DEF Changes
<1> HIDE DEF A, B, kept, now, gone
<1>6. now = Ascending(A) \o Ascending(B)
  BY <1>3, <1>4, AscendingJoin DEF now
<1> DEFINE p == Ascending(A)
           q == Ascending(B)
<1>7. p \in Seq(Nat) /\ q \in Seq(Nat)
  <2>1. p \in Seq(A) /\ q \in Seq(B)
    BY <1>3, AscendingType
  <2> QED BY <1>3, <2>1
<1>8. now = p \o q /\ kept = p
  BY <1>2, <1>6
<1> HIDE DEF p, q
<1>9. SubSeq(p \o q, Len(p) + 1, Len(p \o q)) = q
  <2> DEFINE r == SubSeq(p \o q, Len(p) + 1, Len(p \o q))
  <2>1. Len(p \o q) = Len(p) + Len(q) /\ Len(p) \in Nat /\ Len(q) \in Nat
    BY <1>7
  <2>2. r = [i \in 1..Len(q) |-> (p \o q)[i + Len(p)]]
    BY <1>7, <2>1
  <2>3. \A i \in 1..Len(q) : r[i] = q[i]
    BY <1>7, <2>1, <2>2
  <2>4. r = [i \in 1..Len(q) |-> r[i]]
    BY <2>2
  <2>5. q = [i \in 1..Len(q) |-> q[i]]
    BY <1>7
  <2> HIDE DEF r
  <2>6. r = q
    BY <2>3, <2>4, <2>5, SameFunction
  <2> QED BY <2>6 DEF r
<1> QED BY <1>5, <1>8, <1>9 DEF now

(***************************************************************************)
(* Types.                                                                  *)
(***************************************************************************)
\* The messages and every set of them are finite sets of numbers.
LEMMA MsgSets ==
  /\ Msgs \subseteq Nat /\ IsFiniteSet(Msgs)
  /\ \A S \in SUBSET Msgs : S \subseteq Nat /\ IsFiniteSet(S) /\ Cardinality(S) \in Nat
<1>1. Msgs \subseteq Nat /\ IsFiniteSet(Msgs)
  BY MailboxAssumption
<1>2. ASSUME NEW S \in SUBSET Msgs PROVE S \subseteq Nat /\ IsFiniteSet(S) /\ Cardinality(S) \in Nat
  <2>1. IsFiniteSet(S)
    BY <1>1, FS_Subset
  <2> QED BY <1>1, <2>1, FS_CardinalityType
<1> QED BY <1>1, <1>2

\* The numbers a client has left after EXPUNGE are numbers it had.
LEMMA DroppedType ==
  ASSUME NEW numbers \in Seq(Msgs), NEW known, DOMAIN known \subseteq Msgs, NEW gone
  PROVE  Dropped(numbers, known, gone) \in Seq(Msgs)
<1> DEFINE at == Ascending(DOMAIN known)
           P == {n \in DOMAIN at : at[n] \notin gone /\ n \in DOMAIN numbers}
           kept == Ascending(P)
<1>1. DOMAIN known \subseteq Nat /\ IsFiniteSet(DOMAIN known)
  BY MsgSets
<1>2. DOMAIN at = 1..Cardinality(DOMAIN known) /\ Cardinality(DOMAIN known) \in Nat
  BY <1>1, AscendingType
<1> HIDE DEF at
<1>3. P \subseteq 1..Cardinality(DOMAIN known) /\ P \subseteq DOMAIN numbers
  BY <1>2
<1>4. P \subseteq Nat /\ IsFiniteSet(P)
  <2> DEFINE I == 1..Cardinality(DOMAIN known)
  <2>1. IsFiniteSet(I)
    BY <1>2, FS_Interval
  <2>2. I \subseteq Nat /\ P \in SUBSET I
    BY <1>2, <1>3
  <2> HIDE DEF I, P
  <2> QED BY <2>1, <2>2, FS_Subset
<1>5. Dropped(numbers, known, gone) = [n \in DOMAIN kept |-> numbers[kept[n]]]
  BY DEF Dropped, at
<1> HIDE DEF P
<1>6. PICK N \in Nat : kept \in [1..N -> P]
  BY <1>4, AscendingFacts
<1> HIDE DEF kept
<1>7. [n \in DOMAIN kept |-> numbers[kept[n]]] \in [1..N -> Msgs]
  <2>1. \A i \in DOMAIN numbers : numbers[i] \in Msgs
    OBVIOUS
  <2> QED BY <1>3, <1>6, <2>1
<1> QED BY <1>5, <1>7

\* Changes leaves the client a list of messages.
LEMMA ChangesType ==
  ASSUME NEW numbers \in Seq(Msgs), NEW known, DOMAIN known \subseteq Msgs,
         NEW fresh, DOMAIN fresh \subseteq Msgs
  PROVE  Changes(numbers, known, fresh) \in Seq(Msgs)
<1> DEFINE gone == {i \in DOMAIN known : \A j \in DOMAIN fresh : fresh[j].uid # known[i].uid}
           kept == Dropped(numbers, known, gone)
           now == Ascending(DOMAIN fresh)
<1>1. kept \in Seq(Msgs)
  <2> HIDE DEF gone
  <2> QED BY DroppedType
<1>2. now \in Seq(Msgs)
  <2>1. DOMAIN fresh \subseteq Nat /\ IsFiniteSet(DOMAIN fresh)
    BY MsgSets
  <2>2. now \in Seq(DOMAIN fresh)
    BY <2>1, AscendingType
  <2> QED BY <2>2
<1>3. Changes(numbers, known, fresh) = kept \o SubSeq(now, Len(kept) + 1, Len(now))
  BY DEF Changes
<1> HIDE DEF kept, now
<1>4. Len(kept) \in Nat /\ Len(now) \in Nat
  BY <1>1, <1>2
<1>5. SubSeq(now, Len(kept) + 1, Len(now)) \in Seq(Msgs)
  BY <1>2, <1>4
<1> QED BY <1>1, <1>3, <1>5

\* keep_flags_of keeps the messages and their UIDs.
LEMMA KeepFlagsType ==
  ASSUME NEW fresh, IsSnapshot(fresh), NEW known, IsSnapshot(known)
  PROVE  /\ IsSnapshot(KeepFlagsOf(fresh, known)) /\ DOMAIN KeepFlagsOf(fresh, known) = DOMAIN fresh
         /\ \A i \in DOMAIN fresh : KeepFlagsOf(fresh, known)[i].uid = fresh[i].uid
<1> DEFINE f == KeepFlagsOf(fresh, known)
<1>1. DOMAIN f = DOMAIN fresh
  BY DEF KeepFlagsOf
<1>2. ASSUME NEW i \in DOMAIN fresh PROVE f[i] \in Ref /\ f[i].uid = fresh[i].uid
  <2> DEFINE told == {j \in DOMAIN known : known[j].uid = fresh[i].uid}
  <2>1. f[i] = IF told = {} THEN fresh[i]
               ELSE [fresh[i] EXCEPT !.flags = known[Max(told)].flags, !.modseq = known[Max(told)].modseq]
    BY DEF KeepFlagsOf
  <2>2. fresh[i] \in Ref
    BY DEF IsSnapshot
  <2>3. CASE told = {}
    BY <2>1, <2>2, <2>3
  <2>4. CASE told # {}
    <3>1. told \in SUBSET Msgs
      BY DEF IsSnapshot
    <3>2. told \subseteq Nat /\ IsFiniteSet(told)
      BY <3>1, MsgSets
    <3>3. \E x \in told : \A y \in told : x >= y
      <4> HIDE DEF told
      <4>1. PICK x \in told : \A y \in told : y <= x
        BY <2>4, <3>2, GreatestExists
      <4>2. \A y \in told : x >= y
        BY <3>2, <4>1
      <4> QED BY <4>2
    <3>4. Max(told) \in told
      BY <3>3 DEF Max
    <3>5. known[Max(told)] \in Ref
      BY <3>4 DEF IsSnapshot
    <3> HIDE DEF told
    <3> QED BY <2>1, <2>2, <2>4, <3>5 DEF Ref
  <2> QED BY <2>3, <2>4
<1>3. f = [i \in DOMAIN f |-> f[i]]
  BY DEF KeepFlagsOf
<1> HIDE DEF f
<1>4. f \in [DOMAIN f -> Ref]
  BY <1>1, <1>2, <1>3
<1> QED BY <1>1, <1>2, <1>4 DEF IsSnapshot, f

\* With adds one reference to a snapshot.
LEMMA WithType ==
  ASSUME NEW f, IsSnapshot(f), NEW k \in Msgs, NEW v \in Ref
  PROVE  /\ IsSnapshot(With(f, k, v)) /\ DOMAIN With(f, k, v) = DOMAIN f \cup {k} /\ With(f, k, v)[k] = v
         /\ \A i \in DOMAIN f : i # k => With(f, k, v)[i] = f[i]
BY DEF With, IsSnapshot

\* HIGHESTMODSEQ: a number, at least the counter, and the counter itself when
\* no message is stamped past it.
LEMMA HighestType ==
  ASSUME NEW n \in Nat, NEW f, IsSnapshot(f)
  PROVE  /\ Max({n} \cup {f[i].modseq : i \in DOMAIN f}) \in Nat
         /\ (\A i \in DOMAIN f : f[i].modseq <= n) => Max({n} \cup {f[i].modseq : i \in DOMAIN f}) = n
<1> DEFINE T == {f[i].modseq : i \in DOMAIN f}
           S == {n} \cup T
           g == [i \in DOMAIN f |-> f[i].modseq]
<1>1. \A i \in DOMAIN f : f[i].modseq \in Nat
  BY DEF IsSnapshot, Ref
<1>2. S \subseteq Nat /\ S # {}
  BY <1>1
<1>3. IsFiniteSet(DOMAIN f)
  BY MsgSets DEF IsSnapshot
<1>4. g \in Surjection(DOMAIN f, T)
  BY DEF Surjection
<1>5. IsFiniteSet(T)
  <2> HIDE DEF T, g
  <2> QED BY <1>3, <1>4, FS_Surjection
<1>6. IsFiniteSet(S)
  <2>1. S = T \cup {n}
    OBVIOUS
  <2> HIDE DEF T
  <2> QED BY <1>5, <2>1, FS_AddElement
<1>7. \E x \in S : \A y \in S : x >= y
  <2> HIDE DEF S
  <2>1. PICK x \in S : \A y \in S : y <= x
    BY <1>2, <1>6, GreatestExists
  <2>2. \A y \in S : x >= y
    BY <1>2, <2>1
  <2> QED BY <2>2
<1>8. Max(S) \in S /\ \A y \in S : Max(S) >= y
  BY <1>7 DEF Max
<1>9. Max(S) \in Nat
  BY <1>2, <1>8
<1>10. ASSUME \A i \in DOMAIN f : f[i].modseq <= n PROVE Max(S) = n
  <2>1. n \in S
    OBVIOUS
  <2>2. \A y \in S : y <= n
    BY <1>10
  <2> HIDE DEF S
  <2> QED BY <1>8, <1>9, <2>1, <2>2
<1> QED BY <1>9, <1>10

Opening  == {"gen", "count", "list", "scan", "uidnext", "build"}
Scanning == {"scan", "uidnext", "build"}

\* What each place of an operation has in its local variables.
Shape(s) ==
  /\ pc[s] \in {"out", "idle"} => op[s] = NoOp
  /\ pc[s] \in Opening => op[s].kind \in {"select", "refresh"} /\ op[s].gone = {}
  /\ pc[s] \in {"flags", "stamp"} => op[s].kind = "store"
  /\ pc[s] \in {"unlink", "log"} => op[s].kind \in {"remove", "close"}
  /\ pc[s] \in {"read", "bump"} => op[s].kind \in {"store", "remove", "close"}
  /\ op[s].kind = "store" => op[s].gone = {}
  /\ op[s].kind = "select" => op[s].report
  /\ pc[s] \in {"scan", "unlink"} => op[s].ids # {}
  /\ pc[s] = "unlink" => op[s].ids \subseteq op[s].gone
  /\ pc[s] \in {"uidnext", "build"} => op[s].ids = {}
  /\ op[s].kind \in {"remove", "close"} /\ pc[s] # "unlink" => op[s].ids = {}
  /\ pc[s] \notin Scanning => scanned[s] = NoMsgs
Shapes == \A s \in Sessions : Shape(s)

\* What a session's step leaves alone.
LEMMA StepLocal ==
  ASSUME TypeOK, NEW s \in Sessions, Step(s), NEW t \in Sessions, t # s
  PROVE  /\ pc'[t] = pc[t] /\ op'[t] = op[t] /\ scanned'[t] = scanned[t]
         /\ snap'[t] = snap[t] /\ view'[t] = view[t] /\ high'[t] = high[t]
<1> USE DEF TypeOK, Goto, GotoWith, diskVars
<1>1. CASE Select(s) \/ Refresh(s) \/ ReadGeneration(s) \/ ScanList(s) \/ WriteUidNext(s) \/ Unselect(s)
  BY <1>1 DEF Select, Refresh, ReadGeneration, ScanList, WriteUidNext, Unselect
<1>2. CASE LoadIndex(s)
  BY <1>2 DEF LoadIndex, Opened
<1>3. CASE ScanOne(s)
  BY <1>3 DEF ScanOne
<1>4. CASE BuildSnapshot(s)
  BY <1>4 DEF BuildSnapshot, Opened
<1>5. ASSUME NEW i \in DOMAIN snap[s], NEW m \in Modes, NEW f \in Flags, Store(s, i, m, {f})
      PROVE  /\ pc'[t] = pc[t] /\ op'[t] = op[t] /\ scanned'[t] = scanned[t]
             /\ snap'[t] = snap[t] /\ view'[t] = view[t] /\ high'[t] = high[t]
  BY <1>5 DEF Store
<1>6. ASSUME NEW i \in DOMAIN snap[s], Move(s, i)
      PROVE  /\ pc'[t] = pc[t] /\ op'[t] = op[t] /\ scanned'[t] = scanned[t]
             /\ snap'[t] = snap[t] /\ view'[t] = view[t] /\ high'[t] = high[t]
  BY <1>6 DEF Move, Take
<1>7. CASE WriteFlags(s) \/ ReadCounter(s) \/ WriteCounter(s) \/ Stamp(s)
  BY <1>7 DEF WriteFlags, ReadCounter, WriteCounter, Stamp
<1>8. CASE Expunge(s) \/ Close(s) \/ Record(s)
  BY <1>8 DEF Expunge, Close, Take, Record
<1>9. CASE Unlink(s)
  BY <1>9 DEF Unlink
<1> QED BY <1>1, <1>2, <1>3, <1>4, <1>5, <1>6, <1>7, <1>8, <1>9 DEF Step, Open

\* The end of an open leaves everything of its type.
LEMMA OpenedTypes ==
  ASSUME TypeOK, NEW s \in Sessions, NEW refs, IsSnapshot(refs), NEW n \in Nat, Opened(s, refs, n)
  PROVE  /\ pc' \in [Sessions -> PCs] /\ op' \in [Sessions -> Op] /\ DOMAIN snap' = Sessions
         /\ \A t \in Sessions : IsSnapshot(snap'[t])
         /\ view' \in [Sessions -> Seq(Msgs)] /\ high' \in [Sessions -> Nat]
<1> DEFINE fresh == IF op[s].report THEN refs ELSE KeepFlagsOf(refs, snap[s])
<1>1. IsSnapshot(fresh)
  BY KeepFlagsType DEF TypeOK
<1>2. DOMAIN fresh \subseteq Msgs /\ DOMAIN snap[s] \subseteq Msgs
  BY <1>1 DEF IsSnapshot, TypeOK
<1>3. Ascending(DOMAIN fresh) \in Seq(Msgs)
  <2>1. DOMAIN fresh \subseteq Nat /\ IsFiniteSet(DOMAIN fresh)
    BY <1>2, MsgSets
  <2>2. Ascending(DOMAIN fresh) \in Seq(DOMAIN fresh)
    BY <2>1, AscendingType
  <2> QED BY <1>2, <2>2
<1>4. Changes(view[s], snap[s], fresh) \in Seq(Msgs)
  <2>1. view[s] \in Seq(Msgs)
    BY DEF TypeOK
  <2> HIDE DEF fresh
  <2> QED BY <1>2, <2>1, ChangesType
<1>5. /\ snap' = [snap EXCEPT ![s] = fresh]
      /\ \/ view' = [view EXCEPT ![s] = Ascending(DOMAIN fresh)] /\ high' = [high EXCEPT ![s] = n]
         \/ view' = [view EXCEPT ![s] = Changes(view[s], snap[s], fresh)] /\ high' = high
      /\ GotoWith(s, "idle", NoOp)
  BY DEF Opened
<1> HIDE DEF fresh
<1>6. pc' \in [Sessions -> PCs] /\ op' \in [Sessions -> Op]
  BY <1>5 DEF TypeOK, GotoWith, Goto, PCs, Op, NoOp, Gen
<1>7. DOMAIN snap' = Sessions /\ \A t \in Sessions : IsSnapshot(snap'[t])
  BY <1>1, <1>5 DEF TypeOK
<1>8. view' \in [Sessions -> Seq(Msgs)] /\ high' \in [Sessions -> Nat]
  <2> DEFINE Lists == Seq(Msgs)
             first == Ascending(DOMAIN fresh)
             then == Changes(view[s], snap[s], fresh)
  <2>1. first \in Lists /\ then \in Lists /\ view \in [Sessions -> Lists] /\ high \in [Sessions -> Nat]
    BY <1>3, <1>4 DEF TypeOK
  <2>2. \/ view' = [view EXCEPT ![s] = first] /\ high' = [high EXCEPT ![s] = n]
        \/ view' = [view EXCEPT ![s] = then] /\ high' = high
    BY <1>5
  <2> HIDE DEF Lists, first, then
  <2>3. view' \in [Sessions -> Lists] /\ high' \in [Sessions -> Nat]
    BY <2>1, <2>2
  <2> QED BY <2>3 DEF Lists
<1> QED BY <1>6, <1>7, <1>8

\* Min picks one of the messages left to an operation.
LEMMA MinLeft ==
  ASSUME TypeOK, NEW s \in Sessions, op[s].ids # {}
  PROVE  Min(op[s].ids) \in op[s].ids /\ Min(op[s].ids) \in Msgs /\ op[s] \in Op
<1>1. op[s] \in Op /\ op[s].ids \subseteq Msgs
  BY DEF TypeOK, Op
<1> QED BY <1>1, MinIn, MsgSets

\* Arrivals and a crash keep the types, and what sessions know of theirs.
LEMMA OutsideTypes ==
  ASSUME TypeOK, Shapes, (\E i \in Msgs : Stage(i) \/ Publish(i) \/ WriteNewFlags(i)) \/ Crash
  PROVE  TypeOK' /\ Shapes'
<1> USE DEF diskVars, sessVars
<1>1. ASSUME NEW i \in Msgs, Stage(i) \/ Publish(i) \/ WriteNewFlags(i) PROVE TypeOK' /\ Shapes'
  <2>1. UNCHANGED sessVars /\ UNCHANGED <<uidFile, modFile, uidNext, modCtr, index, journal, named, spent>>
    BY <1>1 DEF Stage, Publish, WriteNewFlags
  <2>2. eml' \in SUBSET Msgs
    BY <1>1 DEF TypeOK, Stage, Publish, WriteNewFlags
  <2>3. flagFile' \in [Msgs -> SUBSET Flags]
    BY <1>1 DEF TypeOK, Stage, Publish, WriteNewFlags, Arrival
  <2>4. arrival' \in [Msgs -> Arrival]
    <3>1. CASE Stage(i)
      <4>1. PICK w \in Writers, f \in NewFlags : arrival' = [arrival EXCEPT ![i] = [at |-> "staged", by |-> w, flags |-> f]]
        BY <3>1 DEF Stage
      <4>2. [at |-> "staged", by |-> w, flags |-> f] \in Arrival
        BY MailboxAssumption DEF Arrival
      <4> QED BY <4>1, <4>2 DEF TypeOK
    <3>2. CASE Publish(i)
      BY <3>2 DEF Publish, TypeOK, Arrival
    <3>3. CASE WriteNewFlags(i)
      BY <3>3 DEF WriteNewFlags, TypeOK, Arrival
    <3> QED BY <1>1, <3>1, <3>2, <3>3
  <2>5. TypeOK'
    BY <2>1, <2>2, <2>3, <2>4 DEF TypeOK, IsSnapshot
  <2> QED BY <2>1, <2>5 DEF Shapes, Shape
<1>2. CASE Crash
  <2>1. arrival' \in [Msgs -> Arrival]
    BY <1>2 DEF Crash, TypeOK, Arrival
  <2>2. pc' \in [Sessions -> PCs] /\ op' \in [Sessions -> Op]
    BY <1>2 DEF Crash, TypeOK, PCs, Op, NoOp, Gen
  <2>3. DOMAIN scanned' = Sessions /\ \A s \in Sessions : IsSnapshot(scanned'[s])
    BY <1>2 DEF Crash, IsSnapshot, NoMsgs
  <2>4. spent' \in [ops : Nat, crashes : Nat]
    <3>1. spent \in [ops : Nat, crashes : Nat] /\ spent' = [spent EXCEPT !.crashes = @ + 1]
      BY <1>2 DEF Crash, TypeOK
    <3> QED BY <3>1
  <2>5. UNCHANGED <<diskVars, snap, view, high, named>>
    BY <1>2 DEF Crash
  <2>6. TypeOK'
    BY <2>1, <2>2, <2>3, <2>4, <2>5 DEF TypeOK, IsSnapshot
  <2>7. \A s \in Sessions : pc'[s] = "out" /\ op'[s] = NoOp /\ scanned'[s] = NoMsgs
    BY <1>2 DEF Crash
  <2> QED BY <2>6, <2>7 DEF Shapes, Shape, NoOp, Opening
<1> QED BY <1>1, <1>2

\* A step that gives its operation a place and local variables, and touches
\* of the disk only flags, counters or the journal, keeps the types.
LEMMA PlaceTypes ==
  ASSUME TypeOK, NEW s \in Sessions, NEW w \in PCs, NEW o \in Op,
         pc' = [pc EXCEPT ![s] = w], op' = [op EXCEPT ![s] = o],
         UNCHANGED <<eml, uidFile, modFile, index, arrival, scanned, snap, view, high, named>>,
         uidNext' \in Nat, modCtr' \in Nat, journal' \subseteq Nat \X Nat,
         flagFile' \in [Msgs -> SUBSET Flags], spent' \in [ops : Nat, crashes : Nat]
  PROVE  TypeOK' /\ pc'[s] = w /\ op'[s] = o /\ scanned'[s] = scanned[s]
<1>1. pc' \in [Sessions -> PCs] /\ op' \in [Sessions -> Op] /\ pc'[s] = w /\ op'[s] = o
  BY DEF TypeOK
<1> QED BY <1>1 DEF TypeOK, IsSnapshot

\* The steps that open a mailbox up to its scan.
LEMMA OpeningTypes ==
  ASSUME TypeOK, NEW s \in Sessions, Shape(s),
         Select(s) \/ Refresh(s) \/ ReadGeneration(s) \/ ScanList(s) \/ WriteUidNext(s) \/ Unselect(s)
  PROVE  TypeOK' /\ Shape(s)'
<1> USE DEF diskVars, Goto, GotoWith
<1>1. op[s] \in Op /\ op = [op EXCEPT ![s] = op[s]] /\ NoOp \in Op
  BY DEF TypeOK, Op, NoOp, Gen
<1>2. uidNext \in Nat /\ modCtr \in Nat /\ journal \subseteq Nat \X Nat /\ eml \in SUBSET Msgs
      /\ flagFile \in [Msgs -> SUBSET Flags] /\ spent \in [ops : Nat, crashes : Nat]
  BY DEF TypeOK
<1>3. CASE Select(s)
  <2> DEFINE o == [NoOp EXCEPT !.kind = "select"]
  <2>1. o \in Op /\ o.kind = "select" /\ o.report /\ o.gone = {}
    BY DEF Op, NoOp, Gen
  <2>2. TypeOK' /\ pc'[s] = "gen" /\ op'[s] = o /\ scanned'[s] = scanned[s]
    <3> HIDE DEF o
    <3> QED BY <1>2, <1>3, <2>1, PlaceTypes DEF Select, PCs, o
  <2> QED BY <1>3, <2>1, <2>2 DEF Select, Shape, Opening, Scanning
<1>4. CASE Refresh(s)
  <2>1. PICK r \in BOOLEAN : GotoWith(s, "gen", [NoOp EXCEPT !.kind = "refresh", !.report = r])
    BY <1>4 DEF Refresh
  <2> DEFINE o == [NoOp EXCEPT !.kind = "refresh", !.report = r]
  <2>2. o \in Op /\ o.kind = "refresh" /\ o.gone = {}
    BY DEF Op, NoOp, Gen
  <2>3. TypeOK' /\ pc'[s] = "gen" /\ op'[s] = o /\ scanned'[s] = scanned[s]
    <3>1. pc' = [pc EXCEPT ![s] = "gen"] /\ op' = [op EXCEPT ![s] = o]
      BY <2>1
    <3> HIDE DEF o
    <3> QED BY <1>2, <1>4, <2>2, <3>1, PlaceTypes DEF Refresh, PCs
  <2> QED BY <1>4, <2>2, <2>3 DEF Refresh, Shape, Opening, Scanning
<1>5. CASE ReadGeneration(s)
  <2> DEFINE o == [op[s] EXCEPT !.gen.modseq = modCtr]
  <2>1. o \in Op /\ o.kind = op[s].kind /\ o.report = op[s].report /\ o.gone = op[s].gone /\ o.ids = op[s].ids
    BY <1>1, <1>2 DEF Op, Gen
  <2>2. TypeOK' /\ pc'[s] = "count" /\ op'[s] = o /\ scanned'[s] = scanned[s]
    <3>1. pc' = [pc EXCEPT ![s] = "count"] /\ op' = [op EXCEPT ![s] = o]
      BY <1>5 DEF ReadGeneration
    <3> HIDE DEF o
    <3> QED BY <1>2, <1>5, <2>1, <3>1, PlaceTypes DEF ReadGeneration, PCs
  <2> HIDE DEF o
  <2> QED BY <1>5, <2>1, <2>2 DEF ReadGeneration, Shape, Opening, Scanning
<1>6. CASE ScanList(s)
  <2> DEFINE o == [op[s] EXCEPT !.ids = eml, !.ctr = uidNext, !.val = uidNext]
             w == IF eml = {} THEN "build" ELSE "scan"
  <2>1. o \in Op /\ o.kind = op[s].kind /\ o.report = op[s].report /\ o.gone = op[s].gone /\ o.ids = eml
    BY <1>1, <1>2 DEF Op, Gen
  <2>2. TypeOK' /\ pc'[s] = w /\ op'[s] = o /\ scanned'[s] = scanned[s]
    <3>1. pc' = [pc EXCEPT ![s] = w] /\ op' = [op EXCEPT ![s] = o] /\ w \in PCs
      BY <1>6 DEF ScanList, PCs
    <3>2. UNCHANGED <<diskVars, arrival, scanned, snap, view, high, named, spent>>
      BY <1>6 DEF ScanList
    <3> HIDE DEF o, w
    <3> QED BY <1>2, <2>1, <3>1, <3>2, PlaceTypes
  <2> HIDE DEF o
  <2> QED BY <1>6, <2>1, <2>2 DEF ScanList, Shape, Opening, Scanning
<1>7. CASE WriteUidNext(s)
  <2>1. TypeOK' /\ pc'[s] = "build" /\ op'[s] = op[s] /\ scanned'[s] = scanned[s]
    <3>1. pc' = [pc EXCEPT ![s] = "build"] /\ op' = [op EXCEPT ![s] = op[s]] /\ "build" \in PCs /\ op[s].ctr \in Nat
      BY <1>1, <1>7 DEF WriteUidNext, PCs, Op
    <3> QED BY <1>1, <1>2, <1>7, <3>1, PlaceTypes DEF WriteUidNext
  <2> QED BY <1>7, <2>1 DEF WriteUidNext, Shape, Opening, Scanning
<1>8. CASE Unselect(s)
  <2>1. TypeOK' /\ pc'[s] = "out" /\ op'[s] = op[s] /\ scanned'[s] = scanned[s]
    <3>1. pc' = [pc EXCEPT ![s] = "out"] /\ op' = [op EXCEPT ![s] = op[s]] /\ "out" \in PCs
      BY <1>1, <1>8 DEF Unselect, PCs
    <3> QED BY <1>1, <1>2, <1>8, <3>1, PlaceTypes DEF Unselect
  <2> QED BY <1>8, <2>1 DEF Unselect, Shape, Opening, Scanning, NoOp
<1> QED BY <1>3, <1>4, <1>5, <1>6, <1>7, <1>8

\* The steps of STORE and of a removal that write flags, counter and journal.
LEMMA CounterTypes ==
  ASSUME TypeOK, NEW s \in Sessions, Shape(s),
         WriteFlags(s) \/ ReadCounter(s) \/ WriteCounter(s) \/ Record(s)
  PROVE  TypeOK' /\ Shape(s)'
<1> USE DEF diskVars, Goto, GotoWith
<1>1. op[s] \in Op /\ op = [op EXCEPT ![s] = op[s]] /\ NoOp \in Op
  BY DEF TypeOK, Op, NoOp, Gen
<1>2. uidNext \in Nat /\ modCtr \in Nat /\ journal \subseteq Nat \X Nat
      /\ flagFile \in [Msgs -> SUBSET Flags] /\ spent \in [ops : Nat, crashes : Nat]
  BY DEF TypeOK
<1>3. op[s].val \in Nat /\ op[s].uids \subseteq Nat /\ op[s].flags \in SUBSET Flags
  BY <1>1 DEF Op
<1>4. CASE WriteFlags(s)
  <2>1. TypeOK' /\ pc'[s] = "read" /\ op'[s] = op[s] /\ scanned'[s] = scanned[s]
    <3>1. pc' = [pc EXCEPT ![s] = "read"] /\ op' = [op EXCEPT ![s] = op[s]] /\ "read" \in PCs
      BY <1>1, <1>4 DEF WriteFlags, PCs
    <3>2. flagFile' \in [Msgs -> SUBSET Flags]
      BY <1>2, <1>3, <1>4 DEF WriteFlags
    <3> QED BY <1>1, <1>2, <1>4, <3>1, <3>2, PlaceTypes DEF WriteFlags
  <2> QED BY <1>4, <2>1 DEF WriteFlags, Shape, Opening, Scanning
<1>5. CASE ReadCounter(s)
  <2> DEFINE o == [op[s] EXCEPT !.val = modCtr + 1]
  <2>1. o \in Op /\ o.kind = op[s].kind /\ o.report = op[s].report /\ o.gone = op[s].gone /\ o.ids = op[s].ids
    BY <1>1, <1>2 DEF Op
  <2>2. TypeOK' /\ pc'[s] = "bump" /\ op'[s] = o /\ scanned'[s] = scanned[s]
    <3>1. pc' = [pc EXCEPT ![s] = "bump"] /\ op' = [op EXCEPT ![s] = o] /\ "bump" \in PCs
      BY <1>5 DEF ReadCounter, PCs
    <3> HIDE DEF o
    <3> QED BY <1>2, <1>5, <2>1, <3>1, PlaceTypes DEF ReadCounter
  <2> HIDE DEF o
  <2> QED BY <1>5, <2>1, <2>2 DEF ReadCounter, Shape, Opening, Scanning
<1>6. CASE WriteCounter(s)
  <2> DEFINE w == IF op[s].kind = "store" THEN "stamp" ELSE "log"
  <2>1. TypeOK' /\ pc'[s] = w /\ op'[s] = op[s] /\ scanned'[s] = scanned[s]
    <3>1. pc' = [pc EXCEPT ![s] = w] /\ op' = [op EXCEPT ![s] = op[s]] /\ w \in PCs
      BY <1>1, <1>6 DEF WriteCounter, PCs
    <3>2. UNCHANGED <<eml, uidFile, flagFile, modFile, uidNext, index, journal, arrival, scanned, snap, view,
                      high, named, spent>> /\ modCtr' \in Nat
      BY <1>3, <1>6 DEF WriteCounter
    <3> HIDE DEF w
    <3> QED BY <1>1, <1>2, <3>1, <3>2, PlaceTypes
  <2> QED BY <1>6, <2>1 DEF WriteCounter, Shape, Opening, Scanning
<1>7. CASE Record(s)
  <2> DEFINE w == IF op[s].kind = "close" THEN "out" ELSE "idle"
  <2>1. TypeOK' /\ pc'[s] = w /\ op'[s] = NoOp /\ scanned'[s] = scanned[s]
    <3>1. pc' = [pc EXCEPT ![s] = w] /\ op' = [op EXCEPT ![s] = NoOp] /\ w \in PCs
      BY <1>7 DEF Record, PCs
    <3>2. journal' \subseteq Nat \X Nat
      BY <1>2, <1>3, <1>7 DEF Record
    <3> HIDE DEF w
    <3> QED BY <1>1, <1>2, <1>7, <3>1, <3>2, PlaceTypes DEF Record
  <2> QED BY <1>7, <2>1 DEF Record, Shape, Opening, Scanning, NoOp
<1> QED BY <1>4, <1>5, <1>6, <1>7

\* The index is taken or not.
LEMMA LoadIndexTypes ==
  ASSUME TypeOK, NEW s \in Sessions, Shape(s), LoadIndex(s)
  PROVE  TypeOK' /\ Shape(s)'
<1> DEFINE gen == [op[s].gen EXCEPT !.count = Cardinality(eml)]
<1>1. op[s] \in Op /\ gen \in Gen /\ gen.modseq \in Nat /\ NoOp \in Op
  <2>1. op[s] \in Op /\ Cardinality(eml) \in Nat
    BY MsgSets DEF TypeOK
  <2> QED BY <2>1 DEF Op, Gen, NoOp
<1>2. UNCHANGED <<diskVars, arrival, scanned, named, spent>> /\ pc[s] = "count"
  BY DEF LoadIndex
<1>3. CASE IndexAccepts(gen)
  <2>1. Opened(s, index.recs, gen.modseq)
    BY <1>3 DEF LoadIndex
  <2>2. IsSnapshot(index.recs)
    BY DEF TypeOK
  <2>3. /\ pc' \in [Sessions -> PCs] /\ op' \in [Sessions -> Op] /\ DOMAIN snap' = Sessions
        /\ \A t \in Sessions : IsSnapshot(snap'[t])
        /\ view' \in [Sessions -> Seq(Msgs)] /\ high' \in [Sessions -> Nat]
    <3> HIDE DEF gen
    <3> QED BY <1>1, <2>1, <2>2, OpenedTypes
  <2>4. pc'[s] = "idle" /\ op'[s] = NoOp /\ scanned'[s] = scanned[s]
    BY <1>2, <2>1 DEF Opened, GotoWith, Goto, TypeOK
  <2>5. TypeOK'
    BY <1>2, <2>3 DEF TypeOK, IsSnapshot, diskVars
  <2> QED BY <1>2, <2>4, <2>5 DEF Shape, NoOp, Opening, Scanning
<1>4. CASE ~IndexAccepts(gen)
  <2> DEFINE o == [op[s] EXCEPT !.gen = gen]
  <2>1. o \in Op /\ o.kind = op[s].kind /\ o.report = op[s].report /\ o.gone = op[s].gone /\ o.ids = op[s].ids
    <3> HIDE DEF gen
    <3> QED BY <1>1 DEF Op
  <2>2. pc' = [pc EXCEPT ![s] = "list"] /\ op' = [op EXCEPT ![s] = o] /\ "list" \in PCs /\ UNCHANGED <<snap, view, high>>
    BY <1>4 DEF LoadIndex, Goto, GotoWith, PCs
  <2>3. uidNext \in Nat /\ modCtr \in Nat /\ journal \subseteq Nat \X Nat
        /\ flagFile \in [Msgs -> SUBSET Flags] /\ spent \in [ops : Nat, crashes : Nat]
    BY DEF TypeOK
  <2> HIDE DEF o
  <2>4. TypeOK' /\ pc'[s] = "list" /\ op'[s] = o /\ scanned'[s] = scanned[s]
    BY <1>2, <2>1, <2>2, <2>3, PlaceTypes DEF diskVars
  <2> QED BY <1>2, <2>1, <2>4 DEF Shape, Opening, Scanning
<1> QED BY <1>3, <1>4

\* What the scan of message i does: its UID, the counter after it, where next.
Scans(s, i, uid, ctr, w) ==
  /\ i \in Msgs /\ pc[s] = "scan"
  /\ \/ uidFile[i] = 0 /\ uid = op[s].ctr + 1 /\ ctr = uid
     \/ uidFile[i] # 0 /\ uid = uidFile[i] /\ ctr = op[s].ctr
  /\ uidFile' = [uidFile EXCEPT ![i] = uid] /\ named' = named \cup {<<uid, i>>}
  /\ scanned' = [scanned EXCEPT ![s] =
                   With(scanned[s], i, [uid |-> uid, flags |-> flagFile[i], modseq |-> modFile[i]])]
  /\ pc' = [pc EXCEPT ![s] = w]
  /\ op' = [op EXCEPT ![s] = [op[s] EXCEPT !.ids = op[s].ids \ {i}, !.ctr = ctr]]
  /\ (w = "scan" <=> op[s].ids \ {i} # {}) /\ (w = "uidnext" => ctr > op[s].val)
  /\ (w = "build" => ~(ctr > op[s].val))
  /\ UNCHANGED <<eml, flagFile, modFile, uidNext, modCtr, index, journal, arrival, snap, view, high, spent>>

\* ScanOne does that for one of the messages left.
LEMMA ScanOneFacts ==
  ASSUME TypeOK, NEW s \in Sessions, Shape(s), ScanOne(s)
  PROVE  \E i \in op[s].ids, uid \in Nat, ctr \in Nat, w \in {"scan", "uidnext", "build"} : Scans(s, i, uid, ctr, w)
<1> DEFINE i == Min(op[s].ids)
           uid == IF uidFile[i] = 0 THEN op[s].ctr + 1 ELSE uidFile[i]
           ctr == IF uidFile[i] = 0 THEN uid ELSE op[s].ctr
           w == IF op[s].ids \ {i} # {} THEN "scan" ELSE IF ctr > op[s].val THEN "uidnext" ELSE "build"
<1>1. pc[s] = "scan" /\ op[s].ids # {}
  BY DEF ScanOne, Shape
<1>2. i \in op[s].ids /\ i \in Msgs /\ op[s] \in Op
  BY <1>1, MinLeft
<1>3. uidFile' = [uidFile EXCEPT ![i] = uid] /\ named' = named \cup {<<uid, i>>}
      /\ scanned' = [scanned EXCEPT ![s] =
                            With(scanned[s], i, [uid |-> uid, flags |-> flagFile[i], modseq |-> modFile[i]])]
      /\ pc' = [pc EXCEPT ![s] = w]
      /\ op' = [op EXCEPT ![s] = [op[s] EXCEPT !.ids = op[s].ids \ {i}, !.ctr = ctr]]
      /\ UNCHANGED <<eml, flagFile, modFile, uidNext, modCtr, index, journal, arrival, snap, view, high, spent>>
  BY DEF ScanOne, Goto, GotoWith
<1> HIDE DEF i
<1>4. uidFile[i] \in Nat /\ op[s].ctr \in Nat
  BY <1>2 DEF TypeOK, Op
<1>5. uid \in Nat /\ ctr \in Nat /\ w \in {"scan", "uidnext", "build"}
  BY <1>4
<1>6. /\ \/ uidFile[i] = 0 /\ uid = op[s].ctr + 1 /\ ctr = uid
         \/ uidFile[i] # 0 /\ uid = uidFile[i] /\ ctr = op[s].ctr
      /\ (w = "scan" <=> op[s].ids \ {i} # {}) /\ (w = "uidnext" => ctr > op[s].val)
      /\ (w = "build" => ~(ctr > op[s].val))
  BY <1>4
<1> HIDE DEF uid, ctr, w
<1>7. Scans(s, i, uid, ctr, w)
  BY <1>1, <1>2, <1>3, <1>6 DEF Scans
<1> QED BY <1>2, <1>5, <1>7

\* One message scanned.
LEMMA ScanOneTypes ==
  ASSUME TypeOK, NEW s \in Sessions, Shape(s), ScanOne(s)
  PROVE  TypeOK' /\ Shape(s)'
<1>1. PICK i \in op[s].ids, uid \in Nat, ctr \in Nat, w \in {"scan", "uidnext", "build"} : Scans(s, i, uid, ctr, w)
  BY ScanOneFacts
<1> DEFINE ref == [uid |-> uid, flags |-> flagFile[i], modseq |-> modFile[i]]
           o == [op[s] EXCEPT !.ids = op[s].ids \ {i}, !.ctr = ctr]
           f == With(scanned[s], i, ref)
<1>2. ref \in Ref
  BY <1>1 DEF Ref, TypeOK, Scans
<1>3. IsSnapshot(f)
  <2>1. IsSnapshot(scanned[s])
    BY DEF TypeOK
  <2>2. i \in Msgs
    BY <1>1 DEF Scans
  <2> HIDE DEF ref
  <2> QED BY <1>2, <2>1, <2>2, WithType
<1>4. o \in Op /\ o.kind = op[s].kind /\ o.report = op[s].report /\ o.gone = op[s].gone /\ o.ids = op[s].ids \ {i}
  <2>1. op[s] \in Op
    BY DEF TypeOK
  <2> QED BY <2>1 DEF Op
<1>5. scanned' = [scanned EXCEPT ![s] = f] /\ op' = [op EXCEPT ![s] = o] /\ w \in PCs
  BY <1>1 DEF PCs, Scans
<1> HIDE DEF f, o
<1>6. uidFile' \in [Msgs -> Nat] /\ named' \subseteq Nat \X Msgs
  BY <1>1 DEF TypeOK, Scans
<1>7. DOMAIN scanned' = Sessions /\ \A t \in Sessions : IsSnapshot(scanned'[t])
  BY <1>3, <1>5 DEF TypeOK
<1>8. pc' \in [Sessions -> PCs] /\ op' \in [Sessions -> Op] /\ pc'[s] = w /\ op'[s] = o
  BY <1>1, <1>4, <1>5 DEF TypeOK, Scans
<1>9. TypeOK'
  BY <1>1, <1>6, <1>7, <1>8 DEF TypeOK, IsSnapshot, Scans
<1> QED BY <1>1, <1>4, <1>8, <1>9 DEF Shape, Opening, Scanning, Scans

\* The snapshot is built, and the index with it.
LEMMA BuildTypes ==
  ASSUME TypeOK, NEW s \in Sessions, Shape(s), BuildSnapshot(s)
  PROVE  TypeOK' /\ Shape(s)'
<1> DEFINE n == Max({modCtr} \cup {scanned[s][i].modseq : i \in DOMAIN scanned[s]})
<1>1. IsSnapshot(scanned[s]) /\ modCtr \in Nat /\ op[s] \in Op
  BY DEF TypeOK
<1>2. n \in Nat
  BY <1>1, HighestType
<1>3. /\ pc[s] = "build" /\ Opened(s, scanned[s], n) /\ scanned' = [scanned EXCEPT ![s] = NoMsgs]
      /\ index' = [gen |-> op[s].gen, recs |-> scanned[s]]
      /\ UNCHANGED <<eml, uidFile, flagFile, modFile, uidNext, modCtr, journal, arrival, named, spent>>
  BY DEF BuildSnapshot
<1> HIDE DEF n
<1>4. /\ pc' \in [Sessions -> PCs] /\ op' \in [Sessions -> Op] /\ DOMAIN snap' = Sessions
      /\ \A t \in Sessions : IsSnapshot(snap'[t])
      /\ view' \in [Sessions -> Seq(Msgs)] /\ high' \in [Sessions -> Nat]
  BY <1>1, <1>2, <1>3, OpenedTypes
<1>5. pc'[s] = "idle" /\ op'[s] = NoOp /\ scanned'[s] = NoMsgs
  BY <1>3 DEF Opened, GotoWith, Goto, TypeOK
<1>6. IsSnapshot(NoMsgs)
  BY DEF IsSnapshot, NoMsgs
<1>7. DOMAIN scanned' = Sessions /\ \A t \in Sessions : IsSnapshot(scanned'[t])
  BY <1>3, <1>6 DEF TypeOK
<1>8. index' = [gen |-> index'.gen, recs |-> index'.recs] /\ index'.gen \in Gen /\ IsSnapshot(index'.recs)
  BY <1>1, <1>3 DEF Op
<1>9. TypeOK'
  BY <1>3, <1>4, <1>7, <1>8 DEF TypeOK, IsSnapshot
<1> QED BY <1>5, <1>9 DEF Shape, NoOp, Opening, Scanning

\* STORE begins: the session rereads the flags of one message.
LEMMA StoreTypes ==
  ASSUME TypeOK, NEW s \in Sessions, Shape(s), NEW i \in DOMAIN snap[s], NEW m \in Modes, NEW f \in Flags,
         Store(s, i, m, {f})
  PROVE  TypeOK' /\ Shape(s)'
<1> DEFINE next == NextFlags(m, flagFile[i], {f})
           ref == [snap[s][i] EXCEPT !.flags = flagFile[i], !.modseq = modFile[i]]
           new == [snap[s] EXCEPT ![i] = ref]
           o == [NoOp EXCEPT !.kind = "store", !.ids = {i}, !.flags = next]
<1>1. i \in Msgs /\ IsSnapshot(snap[s]) /\ snap[s][i] \in Ref /\ flagFile[i] \in SUBSET Flags /\ modFile[i] \in Nat
  BY DEF TypeOK, IsSnapshot
<1>2. next \in SUBSET Flags
  BY <1>1 DEF NextFlags, Modes
<1>3. /\ pc[s] = "idle" /\ snap' = [snap EXCEPT ![s] = new] /\ spent' = [spent EXCEPT !.ops = @ + 1]
      /\ \/ UNCHANGED <<pc, op>>
         \/ pc' = [pc EXCEPT ![s] = "flags"] /\ op' = [op EXCEPT ![s] = o]
      /\ UNCHANGED <<diskVars, arrival, scanned, view, high, named>>
  <2>1. snap' = [snap EXCEPT ![s] = new]
    BY DEF Store
  <2> QED BY <2>1 DEF Store, Spend, Goto, GotoWith
<1> HIDE DEF next
<1>4. o \in Op /\ o.kind = "store" /\ o.gone = {} /\ o.ids = {i}
  BY <1>1, <1>2 DEF Op, NoOp, Gen
<1>5. ref \in Ref
  BY <1>1 DEF Ref
<1> HIDE DEF o, ref
<1>6. IsSnapshot(new)
  BY <1>1, <1>5 DEF IsSnapshot
<1> HIDE DEF new
<1>7. DOMAIN snap' = Sessions /\ \A t \in Sessions : IsSnapshot(snap'[t])
  BY <1>3, <1>6 DEF TypeOK
<1>8. spent' \in [ops : Nat, crashes : Nat]
  <2>1. spent \in [ops : Nat, crashes : Nat]
    BY DEF TypeOK
  <2> QED BY <1>3, <2>1
<1>9. pc' \in [Sessions -> PCs] /\ op' \in [Sessions -> Op]
  <2>1. pc \in [Sessions -> PCs] /\ op \in [Sessions -> Op] /\ "flags" \in PCs
    BY DEF TypeOK, PCs
  <2>2. CASE UNCHANGED <<pc, op>>
    BY <2>1, <2>2
  <2>3. CASE pc' = [pc EXCEPT ![s] = "flags"] /\ op' = [op EXCEPT ![s] = o]
    BY <1>4, <2>1, <2>3
  <2> QED BY <1>3, <2>2, <2>3
<1>10. TypeOK'
  BY <1>3, <1>7, <1>8, <1>9 DEF TypeOK, IsSnapshot, diskVars
<1>11. (pc'[s] = pc[s] /\ op'[s] = op[s]) \/ (pc'[s] = "flags" /\ op'[s] = o)
  BY <1>3 DEF TypeOK
<1>12. scanned'[s] = scanned[s]
  BY <1>3
<1> QED BY <1>3, <1>4, <1>10, <1>11, <1>12 DEF Shape, Opening, Scanning

\* STORE ends: the message and the session's copy of it are stamped.
LEMMA StampTypes ==
  ASSUME TypeOK, NEW s \in Sessions, Shape(s), Stamp(s)
  PROVE  TypeOK' /\ Shape(s)'
<1> DEFINE new == [i \in DOMAIN snap[s] |->
                     IF i \in op[s].ids THEN [snap[s][i] EXCEPT !.flags = op[s].flags, !.modseq = op[s].val]
                     ELSE snap[s][i]]
<1>1. op[s] \in Op /\ op[s].val \in Nat /\ op[s].flags \in SUBSET Flags /\ IsSnapshot(snap[s]) /\ NoOp \in Op
  BY DEF TypeOK, Op, NoOp, Gen
<1>2. /\ pc[s] = "stamp" /\ snap' = [snap EXCEPT ![s] = new] /\ pc' = [pc EXCEPT ![s] = "idle"]
      /\ op' = [op EXCEPT ![s] = NoOp]
      /\ modFile' = [i \in Msgs |-> IF i \in op[s].ids THEN op[s].val ELSE modFile[i]]
      /\ UNCHANGED <<eml, uidFile, flagFile, uidNext, modCtr, index, journal>>
      /\ UNCHANGED <<arrival, scanned, view, high, named, spent>>
  BY DEF Stamp, Goto, GotoWith, TypeOK
<1>3. IsSnapshot(new)
  <2>1. DOMAIN new = DOMAIN snap[s] /\ DOMAIN snap[s] \subseteq Msgs
    BY <1>1 DEF IsSnapshot
  <2>2. ASSUME NEW i \in DOMAIN snap[s] PROVE new[i] \in Ref
    <3>1. snap[s][i] \in Ref
      BY <1>1 DEF IsSnapshot
    <3>2. [snap[s][i] EXCEPT !.flags = op[s].flags, !.modseq = op[s].val] \in Ref
      BY <1>1, <3>1 DEF Ref
    <3> QED BY <3>1, <3>2
  <2>3. new \in [DOMAIN snap[s] -> Ref]
    BY <2>2
  <2> HIDE DEF new
  <2> QED BY <2>1, <2>3 DEF IsSnapshot
<1> HIDE DEF new
<1>4. DOMAIN snap' = Sessions /\ \A t \in Sessions : IsSnapshot(snap'[t])
  BY <1>2, <1>3 DEF TypeOK
<1>5. modFile' \in [Msgs -> Nat]
  BY <1>1, <1>2 DEF TypeOK
<1>6. pc' \in [Sessions -> PCs] /\ op' \in [Sessions -> Op] /\ pc'[s] = "idle" /\ op'[s] = NoOp
  BY <1>1, <1>2 DEF TypeOK, PCs
<1>7. TypeOK'
  BY <1>2, <1>4, <1>5, <1>6 DEF TypeOK, IsSnapshot
<1> QED BY <1>2, <1>6, <1>7 DEF Shape, NoOp, Opening, Scanning

\* What EXPUNGE, MOVE and CLOSE have in common.
Takes(s, kind, doomed) ==
  /\ pc[s] = "idle" /\ MayStart(s) /\ spent' = [spent EXCEPT !.ops = @ + 1]
  /\ kind \in {"remove", "close"} /\ doomed \subseteq DOMAIN snap[s] /\ doomed # {}
  /\ pc' = [pc EXCEPT ![s] = "unlink"]
  /\ op' = [op EXCEPT ![s] = [NoOp EXCEPT !.kind = kind, !.ids = doomed, !.gone = doomed,
                                          !.uids = {snap[s][i].uid : i \in doomed}]]
  /\ UNCHANGED <<diskVars, arrival, scanned, snap, view, high, named>>

\* Each of them takes some of the session's messages.
LEMMA TakeFacts ==
  ASSUME NEW s \in Sessions, Expunge(s) \/ Close(s) \/ \E i \in DOMAIN snap[s] : Move(s, i)
  PROVE  \E kind \in {"remove", "close"}, doomed \in SUBSET DOMAIN snap[s] : Takes(s, kind, doomed)
<1>1. CASE Expunge(s)
  <2>1. PICK doomed \in SUBSET Deleted(s) : Take(s, "remove", doomed)
    BY <1>1 DEF Expunge
  <2>2. doomed \in SUBSET DOMAIN snap[s]
    BY DEF Deleted
  <2>3. Takes(s, "remove", doomed)
    BY <1>1, <2>1, <2>2 DEF Takes, Take, Expunge, Spend, Goto, GotoWith
  <2> QED BY <2>2, <2>3
<1>2. CASE Close(s)
  <2>1. Deleted(s) \in SUBSET DOMAIN snap[s]
    BY DEF Deleted
  <2>2. Takes(s, "close", Deleted(s))
    BY <1>2, <2>1 DEF Takes, Take, Close, Spend, Goto, GotoWith
  <2> QED BY <2>1, <2>2
<1>3. ASSUME NEW i \in DOMAIN snap[s], Move(s, i)
      PROVE  \E kind \in {"remove", "close"}, doomed \in SUBSET DOMAIN snap[s] : Takes(s, kind, doomed)
  <2> DEFINE doomed == {j \in DOMAIN snap[s] : snap[s][j].uid = snap[s][i].uid}
  <2>1. doomed \in SUBSET DOMAIN snap[s]
    OBVIOUS
  <2>2. Take(s, "remove", doomed)
    BY <1>3 DEF Move
  <2> HIDE DEF doomed
  <2>3. Takes(s, "remove", doomed)
    BY <1>3, <2>1, <2>2 DEF Takes, Take, Move, Spend, Goto, GotoWith
  <2> QED BY <2>1, <2>3
<1> QED BY <1>1, <1>2, <1>3

\* A removal begins.
LEMMA TakeTypes ==
  ASSUME TypeOK, NEW s \in Sessions, Shape(s), NEW kind, NEW doomed, Takes(s, kind, doomed)
  PROVE  TypeOK' /\ Shape(s)'
<1> DEFINE uids == {snap[s][i].uid : i \in doomed}
           o == [NoOp EXCEPT !.kind = kind, !.ids = doomed, !.gone = doomed, !.uids = uids]
<1>1. IsSnapshot(snap[s]) /\ doomed \subseteq DOMAIN snap[s]
  BY DEF TypeOK, Takes
<1>2. doomed \subseteq Msgs /\ uids \subseteq Nat
  BY <1>1 DEF IsSnapshot, Ref
<1>3. /\ pc[s] = "idle" /\ spent' = [spent EXCEPT !.ops = @ + 1] /\ kind \in {"remove", "close"} /\ doomed # {}
      /\ pc' = [pc EXCEPT ![s] = "unlink"] /\ op' = [op EXCEPT ![s] = o]
      /\ UNCHANGED <<diskVars, arrival, scanned, snap, view, high, named>>
  BY DEF Takes
<1> HIDE DEF uids
<1>4. o \in Op /\ o.kind = kind /\ o.ids = doomed /\ o.gone = doomed
  BY <1>2, <1>3 DEF Op, NoOp, Gen
<1>5. uidNext \in Nat /\ modCtr \in Nat /\ journal \subseteq Nat \X Nat
      /\ flagFile \in [Msgs -> SUBSET Flags] /\ spent \in [ops : Nat, crashes : Nat]
  BY DEF TypeOK
<1>6. spent' \in [ops : Nat, crashes : Nat] /\ "unlink" \in PCs
  BY <1>3, <1>5 DEF PCs
<1> HIDE DEF o
<1>7. TypeOK' /\ pc'[s] = "unlink" /\ op'[s] = o /\ scanned'[s] = scanned[s]
  BY <1>3, <1>4, <1>5, <1>6, PlaceTypes DEF diskVars
<1> QED BY <1>3, <1>4, <1>7 DEF Shape, Opening, Scanning

\* What the unlinking of message i does.
Unlinks(s, i) ==
  /\ pc[s] = "unlink" /\ i \in Msgs /\ i \in op[s].ids
  /\ eml' = eml \ {i} /\ uidFile' = [uidFile EXCEPT ![i] = 0] /\ flagFile' = [flagFile EXCEPT ![i] = {}]
  /\ pc' = [pc EXCEPT ![s] = IF op[s].ids \ {i} = {} THEN "read" ELSE "unlink"]
  /\ op' = [op EXCEPT ![s] = [op[s] EXCEPT !.ids = op[s].ids \ {i}]]
  /\ \/ /\ op[s].ids \ {i} = {}
        /\ snap' = [snap EXCEPT ![s] = Without(snap[s], op[s].gone)]
        /\ view' = [view EXCEPT ![s] = Dropped(view[s], snap[s], op[s].gone)]
     \/ op[s].ids \ {i} # {} /\ UNCHANGED <<snap, view>>
  /\ UNCHANGED <<modFile, uidNext, modCtr, index, journal, arrival, scanned, high, named, spent>>

\* Unlink does that for one of the messages left.
LEMMA UnlinkFacts ==
  ASSUME TypeOK, NEW s \in Sessions, Shape(s), Unlink(s)
  PROVE  \E i \in op[s].ids : Unlinks(s, i)
<1> DEFINE i == Min(op[s].ids)
<1>1. pc[s] = "unlink" /\ op[s].ids # {}
  BY DEF Unlink, Shape
<1>2. i \in op[s].ids /\ i \in Msgs /\ op[s] \in Op
  BY <1>1, MinLeft
<1>3. /\ eml' = eml \ {i} /\ uidFile' = [uidFile EXCEPT ![i] = 0] /\ flagFile' = [flagFile EXCEPT ![i] = {}]
      /\ pc' = [pc EXCEPT ![s] = IF op[s].ids \ {i} = {} THEN "read" ELSE "unlink"]
      /\ op' = [op EXCEPT ![s] = [op[s] EXCEPT !.ids = op[s].ids \ {i}]]
      /\ UNCHANGED <<modFile, uidNext, modCtr, index, journal, arrival, scanned, high, named, spent>>
  BY DEF Unlink, Goto, GotoWith
<1>4. \/ /\ op[s].ids \ {i} = {}
         /\ snap' = [snap EXCEPT ![s] = Without(snap[s], op[s].gone)]
         /\ view' = [view EXCEPT ![s] = Dropped(view[s], snap[s], op[s].gone)]
      \/ op[s].ids \ {i} # {} /\ UNCHANGED <<snap, view>>
  BY DEF Unlink
<1> HIDE DEF i
<1>5. Unlinks(s, i)
  BY <1>1, <1>2, <1>3, <1>4 DEF Unlinks
<1> QED BY <1>2, <1>5

\* One message unlinked.
LEMMA UnlinkTypes ==
  ASSUME TypeOK, NEW s \in Sessions, Shape(s), NEW i, Unlinks(s, i)
  PROVE  TypeOK' /\ Shape(s)'
<1> DEFINE o == [op[s] EXCEPT !.ids = op[s].ids \ {i}]
           w == IF op[s].ids \ {i} = {} THEN "read" ELSE "unlink"
           rest == Without(snap[s], op[s].gone)
           drop == Dropped(view[s], snap[s], op[s].gone)
           Numbers == Seq(Msgs)
<1>1. op[s] \in Op /\ IsSnapshot(snap[s]) /\ view[s] \in Numbers /\ view \in [Sessions -> Numbers]
  BY DEF TypeOK
<1>2. o \in Op /\ o.kind = op[s].kind /\ o.report = op[s].report /\ o.gone = op[s].gone /\ o.ids = op[s].ids \ {i}
  BY <1>1 DEF Op
<1>3. IsSnapshot(rest)
  BY <1>1 DEF IsSnapshot, Without
<1>4. drop \in Numbers
  BY <1>1, DroppedType DEF IsSnapshot
<1>5. /\ pc[s] = "unlink" /\ i \in Msgs
      /\ eml' = eml \ {i} /\ uidFile' = [uidFile EXCEPT ![i] = 0] /\ flagFile' = [flagFile EXCEPT ![i] = {}]
      /\ pc' = [pc EXCEPT ![s] = w] /\ op' = [op EXCEPT ![s] = o] /\ w \in PCs
      /\ \/ snap' = [snap EXCEPT ![s] = rest] /\ view' = [view EXCEPT ![s] = drop]
         \/ UNCHANGED <<snap, view>>
      /\ UNCHANGED <<modFile, uidNext, modCtr, index, journal, arrival, scanned, high, named, spent>>
  BY DEF Unlinks, PCs
<1> HIDE DEF o, w, rest, drop, Numbers
<1>6. DOMAIN snap' = Sessions /\ \A t \in Sessions : IsSnapshot(snap'[t])
  BY <1>3, <1>5 DEF TypeOK
<1>7. view' \in [Sessions -> Numbers]
  BY <1>1, <1>4, <1>5
<1>8. eml' \in SUBSET Msgs /\ uidFile' \in [Msgs -> Nat] /\ flagFile' \in [Msgs -> SUBSET Flags]
  BY <1>5 DEF TypeOK
<1>9. pc' \in [Sessions -> PCs] /\ op' \in [Sessions -> Op] /\ pc'[s] = w /\ op'[s] = o
  BY <1>2, <1>5 DEF TypeOK
<1>10. TypeOK'
  BY <1>5, <1>6, <1>7, <1>8, <1>9 DEF TypeOK, IsSnapshot, Numbers
<1> QED BY <1>2, <1>5, <1>9, <1>10 DEF Shape, Opening, Scanning, w

\* Every step keeps the types and the shapes.
LEMMA TypesStep ==
  ASSUME TypeOK, Shapes, [Next]_vars
  PROVE  TypeOK' /\ Shapes'
<1>1. ASSUME NEW s \in Sessions, Step(s) PROVE TypeOK' /\ Shapes'
  <2>1. TypeOK' /\ Shape(s)'
    <3>0. Shape(s)
      BY DEF Shapes
    <3>1. CASE Select(s) \/ Refresh(s) \/ ReadGeneration(s) \/ ScanList(s) \/ WriteUidNext(s) \/ Unselect(s)
      BY <3>0, <3>1, OpeningTypes
    <3>2. CASE LoadIndex(s)
      BY <3>0, <3>2, LoadIndexTypes
    <3>3. CASE ScanOne(s)
      BY <3>0, <3>3, ScanOneTypes
    <3>4. CASE BuildSnapshot(s)
      BY <3>0, <3>4, BuildTypes
    <3>5. ASSUME NEW i \in DOMAIN snap[s], NEW m \in Modes, NEW f \in Flags, Store(s, i, m, {f})
          PROVE  TypeOK' /\ Shape(s)'
      BY <3>0, <3>5, StoreTypes
    <3>6. CASE WriteFlags(s) \/ ReadCounter(s) \/ WriteCounter(s) \/ Record(s)
      BY <3>0, <3>6, CounterTypes
    <3>7. CASE Stamp(s)
      BY <3>0, <3>7, StampTypes
    <3>8. CASE Expunge(s) \/ Close(s) \/ \E i \in DOMAIN snap[s] : Move(s, i)
      BY <3>0, <3>8, TakeFacts, TakeTypes
    <3>9. CASE Unlink(s)
      BY <3>0, <3>9, UnlinkFacts, UnlinkTypes
    <3> QED BY <1>1, <3>1, <3>2, <3>3, <3>4, <3>5, <3>6, <3>7, <3>8, <3>9 DEF Step, Open
  <2>2. ASSUME NEW t \in Sessions, t # s PROVE Shape(t)'
    <3>1. pc'[t] = pc[t] /\ op'[t] = op[t] /\ scanned'[t] = scanned[t]
      BY <1>1, <2>2, StepLocal
    <3> QED BY <3>1 DEF Shapes, Shape
  <2> QED BY <2>1, <2>2 DEF Shapes
<1>2. CASE UNCHANGED vars
  BY <1>2 DEF vars, diskVars, sessVars, TypeOK, IsSnapshot, Shapes, Shape
<1> QED BY <1>1, <1>2, OutsideTypes DEF Next

\* A new mailbox has the types.
LEMMA TypesInit ==
  ASSUME Init PROVE TypeOK /\ Shapes
<1>1. NoOp \in Op /\ "out" \in PCs /\ IsSnapshot(NoMsgs)
  BY DEF Op, NoOp, Gen, PCs, IsSnapshot, NoMsgs
<1>2. <<>> \in Seq(Msgs)
  OBVIOUS
<1>3. view \in [Sessions -> Seq(Msgs)]
  BY <1>2 DEF Init
<1>4. TypeOK
  BY <1>1, <1>3 DEF Init, TypeOK, Gen, Arrival
<1> QED BY <1>4 DEF Init, Shapes, Shape, NoOp, Opening

\* The mailbox's type invariant holds, whatever sessions, deliveries and
\* crashes do to one another (imap/snapshot, imap/index, imap/vanished).
THEOREM MailboxTypes == Spec => []TypeOK
<1>1. Init => TypeOK /\ Shapes
  BY TypesInit
<1>2. TypeOK /\ Shapes /\ [Next]_vars => TypeOK' /\ Shapes'
  BY TypesStep
<1> QED BY <1>1, <1>2, PTL DEF Spec

-----------------------------------------------------------------------------
(***************************************************************************)
(* Sessions whose operations do not overlap.                               *)
(***************************************************************************)
\* At most one operation is under way.
Alone == \A s, t \in Sessions : Busy(s) /\ Busy(t) => s = t

\* Every session but s is at rest, with nothing in hand.
Only(s) == \A t \in Sessions : t # s => pc[t] \in {"out", "idle"} /\ op[t] = NoOp /\ scanned[t] = NoMsgs

\* A step of s finds every other session at rest, and leaves it there.
LEMMA OnlyStep ==
  ASSUME ~Overlap, TypeOK, Shapes, Alone, NEW s \in Sessions, Step(s), ~Unselect(s)
  PROVE  /\ Only(s) /\ Only(s)'
         /\ \A t \in Sessions : t # s => snap'[t] = snap[t] /\ view'[t] = view[t] /\ high'[t] = high[t]
<1>1. ASSUME NEW t \in Sessions, t # s PROVE ~Busy(t)
  <2>1. CASE Busy(s)
    BY <1>1, <2>1 DEF Alone
  <2>2. CASE MayStart(s)
    BY <1>1, <2>2 DEF MayStart
  <2>3. Busy(s) \/ MayStart(s)
    <3>1. CASE Select(s) \/ Refresh(s)
      BY <3>1 DEF Select, Refresh
    <3>2. CASE ReadGeneration(s) \/ LoadIndex(s) \/ ScanList(s) \/ ScanOne(s) \/ WriteUidNext(s) \/ BuildSnapshot(s)
      BY <3>2 DEF ReadGeneration, LoadIndex, ScanList, ScanOne, WriteUidNext, BuildSnapshot, Busy
    <3>3. CASE WriteFlags(s) \/ ReadCounter(s) \/ WriteCounter(s) \/ Stamp(s) \/ Unlink(s) \/ Record(s)
      BY <3>3 DEF WriteFlags, ReadCounter, WriteCounter, Stamp, Unlink, Record, Busy
    <3>4. ASSUME NEW i \in DOMAIN snap[s], (\E m \in Modes, f \in Flags : Store(s, i, m, {f})) \/ Move(s, i)
          PROVE  MayStart(s)
      BY <3>4 DEF Store, Move
    <3>5. CASE Expunge(s) \/ Close(s)
      BY <3>5 DEF Expunge, Close
    <3> QED BY <3>1, <3>2, <3>3, <3>4, <3>5 DEF Step, Open
  <2> QED BY <2>1, <2>2, <2>3
<1>2. Only(s)
  BY <1>1 DEF Only, Busy, Shapes, Shape, Scanning
<1>3. \A t \in Sessions : t # s => /\ pc'[t] = pc[t] /\ op'[t] = op[t] /\ scanned'[t] = scanned[t]
                                   /\ snap'[t] = snap[t] /\ view'[t] = view[t] /\ high'[t] = high[t]
  BY StepLocal
<1> QED BY <1>2, <1>3 DEF Only

\* So they stay apart.
LEMMA AloneStep ==
  ASSUME ~Overlap, TypeOK, Shapes, Alone, [Next]_vars
  PROVE  Alone'
<1>1. ASSUME NEW s \in Sessions, Step(s), ~Unselect(s) PROVE Alone'
  <2>1. Only(s)'
    BY <1>1, OnlyStep
  <2> QED BY <2>1 DEF Alone, Only, Busy
<1>2. ASSUME NEW s \in Sessions, Unselect(s) PROVE Alone'
  BY <1>2 DEF Unselect, Goto, TypeOK, Alone, Busy
<1>3. CASE Crash
  BY <1>3 DEF Crash, Alone, Busy
<1>4. CASE (\E i \in Msgs : Stage(i) \/ Publish(i) \/ WriteNewFlags(i)) \/ UNCHANGED vars
  BY <1>4 DEF Stage, Publish, WriteNewFlags, vars, sessVars, Alone, Busy
<1> QED BY <1>1, <1>2, <1>3, <1>4 DEF Next

\* The message has its .eml, or had it.
Arrived(i) == arrival[i].at \in {"published", "done"}

\* What is in the mailbox has arrived; only messages with flags wait for
\* them; ids are drawn in order.
Arrivals ==
  /\ \A i \in eml : Arrived(i)
  /\ \A i \in Msgs : arrival[i].at = "published" => arrival[i].flags # {}
  /\ \A i \in Msgs : arrival[i].at = "none" => arrival[i].by = "deliver" /\ \A j \in Msgs : i < j => arrival[j].at = "none"

\* No step of a session touches the arrivals, or counts a crash.
LEMMA StepOutside ==
  ASSUME TypeOK, NEW s \in Sessions, Step(s)
  PROVE  arrival' = arrival /\ spent'.crashes = spent.crashes /\ eml' \subseteq eml
<1> DEFINE P == arrival' = arrival /\ spent'.crashes = spent.crashes /\ eml' \subseteq eml
<1> USE DEF diskVars
<1>0. spent \in [ops : Nat, crashes : Nat]
  BY DEF TypeOK
<1>1. CASE Select(s) \/ Refresh(s) \/ ReadGeneration(s) \/ LoadIndex(s) \/ ScanList(s) \/ ScanOne(s)
  BY <1>1 DEF Select, Refresh, ReadGeneration, LoadIndex, ScanList, ScanOne
<1>2. CASE WriteUidNext(s) \/ BuildSnapshot(s) \/ Unselect(s) \/ WriteFlags(s) \/ ReadCounter(s) \/ WriteCounter(s)
  BY <1>2 DEF WriteUidNext, BuildSnapshot, Unselect, WriteFlags, ReadCounter, WriteCounter
<1>3. CASE Stamp(s) \/ Unlink(s) \/ Record(s)
  BY <1>3 DEF Stamp, Unlink, Record
<1>4. ASSUME NEW i \in DOMAIN snap[s], NEW m \in Modes, NEW f \in Flags, Store(s, i, m, {f}) PROVE P
  BY <1>0, <1>4 DEF Store, Spend
<1>5. CASE Expunge(s) \/ Close(s) \/ \E i \in DOMAIN snap[s] : Move(s, i)
  <2>1. PICK kind \in {"remove", "close"}, doomed \in SUBSET DOMAIN snap[s] : Takes(s, kind, doomed)
    BY <1>5, TakeFacts
  <2> QED BY <1>0, <2>1 DEF Takes
<1> QED BY <1>1, <1>2, <1>3, <1>4, <1>5 DEF Step, Open

\* The arrivals keep their order.
LEMMA ArrivalsStep ==
  ASSUME TypeOK, Arrivals, [Next]_vars
  PROVE  Arrivals'
<1> USE DEF diskVars
<1>0. arrival \in [Msgs -> Arrival] /\ eml \subseteq Msgs
  BY DEF TypeOK
<1>1. ASSUME NEW s \in Sessions, Step(s) PROVE Arrivals'
  <2>1. arrival' = arrival /\ eml' \subseteq eml
    BY <1>1, StepOutside
  <2> QED BY <2>1 DEF Arrivals, Arrived
<1>2. CASE UNCHANGED vars
  BY <1>2 DEF vars, Arrivals, Arrived
<1>3. CASE Crash
  <2>1. eml' = eml /\ \A i \in Msgs : arrival'[i] = IF arrival[i].at = "none" THEN arrival[i]
                                                    ELSE [arrival[i] EXCEPT !.at = "done"]
    BY <1>3 DEF Crash
  <2>2. \A i \in Msgs : /\ arrival'[i].by = arrival[i].by
                        /\ (arrival[i].at = "none" /\ arrival'[i].at = "none") \/ (arrival[i].at # "none" /\ arrival'[i].at = "done")
    BY <1>0, <2>1 DEF Arrival
  <2> QED BY <1>0, <2>1, <2>2 DEF Arrivals, Arrived
<1>4. ASSUME NEW i \in Msgs, Stage(i) PROVE Arrivals'
  <2>1. PICK w \in Writers, f \in NewFlags : arrival' = [arrival EXCEPT ![i] = [at |-> "staged", by |-> w, flags |-> f]]
    BY <1>4 DEF Stage
  <2>2. arrival'[i].at = "staged" /\ \A j \in Msgs : j # i => arrival'[j] = arrival[j]
    BY <1>0, <2>1
  <2>3. arrival[i].at = "none" /\ eml' = eml /\ \A j \in Msgs : j < i => arrival[j].at # "none"
    BY <1>4 DEF Stage
  <2> QED BY <1>0, <2>2, <2>3 DEF Arrivals, Arrived
<1>5. ASSUME NEW i \in Msgs, Publish(i) PROVE Arrivals'
  <2>1. /\ arrival[i].at = "staged" /\ eml' = eml \cup {i} /\ arrival'[i].flags = arrival[i].flags
        /\ arrival'[i].at = IF arrival[i].flags = {} THEN "done" ELSE "published"
        /\ \A j \in Msgs : j # i => arrival'[j] = arrival[j]
    BY <1>0, <1>5 DEF Publish, Arrival
  <2> QED BY <1>0, <2>1 DEF Arrivals, Arrived
<1>6. ASSUME NEW i \in Msgs, WriteNewFlags(i) PROVE Arrivals'
  <2>1. /\ arrival[i].at = "published" /\ eml' = eml /\ arrival'[i].at = "done"
        /\ \A j \in Msgs : j # i => arrival'[j] = arrival[j]
    BY <1>0, <1>6 DEF WriteNewFlags, Arrival
  <2> QED BY <1>0, <2>1 DEF Arrivals, Arrived
<1> QED BY <1>1, <1>2, <1>3, <1>4, <1>5, <1>6 DEF Next

(***************************************************************************)
(* UIDs.                                                                   *)
(***************************************************************************)
Calm == spent.crashes = 0

\* A UID on disk is one that was given out, and a message keeps its own.
Names ==
  /\ \A a \in named : a[1] > 0 /\ Arrived(a[2]) /\ (a[2] \in eml => uidFile[a[2]] = a[1])
  /\ \A i \in Msgs : uidFile[i] # 0 => i \in eml /\ <<uidFile[i], i>> \in named
  /\ \A a, b \in named : a[2] = b[2] => a[1] = b[1]

\* A scan has only messages that are there left to read, and counts on from
\* the counter on disk.
Lists == \A s \in Sessions : pc[s] = "scan" => op[s].ids \subseteq eml
Counter ==
  /\ \A s \in Sessions : pc[s] \in {"scan", "uidnext"} => op[s].ctr >= uidNext
  /\ \A s \in Sessions : pc[s] = "scan" => op[s].val = uidNext

\* A number given out is covered by the counter on disk or in a scan's hands.
Below(u) == u <= uidNext \/ \E s \in Sessions : pc[s] \in {"scan", "uidnext"} /\ u <= op[s].ctr
Unique == \A a, b \in named : a[1] = b[1] => a[2] = b[2]
Covered == \A a \in named : Below(a[1])

Uids == Names /\ Lists /\ Counter /\ (Calm => Unique /\ Covered)

\* Steps that leave the UIDs alone, while nothing is being scanned.
LEMMA UidsFrame ==
  ASSUME Uids, UNCHANGED <<eml, uidFile, uidNext, arrival, named>>, spent'.crashes = spent.crashes,
         \A t \in Sessions : pc[t] \notin {"scan", "uidnext"} /\ pc'[t] \notin {"scan", "uidnext"}
  PROVE  Uids'
BY DEF Uids, Names, Lists, Counter, Below, Unique, Covered, Calm, Arrived

\* Arrivals and crashes.
LEMMA UidsOutside ==
  ASSUME TypeOK, Arrivals, Uids, (\E i \in Msgs : Stage(i) \/ Publish(i) \/ WriteNewFlags(i)) \/ Crash
  PROVE  Uids'
<1> USE DEF diskVars, sessVars
<1>0. arrival \in [Msgs -> Arrival] /\ eml \subseteq Msgs /\ named \subseteq Nat \X Msgs
      /\ spent \in [ops : Nat, crashes : Nat]
  BY DEF TypeOK
<1>1. CASE Crash
  <2>1. /\ UNCHANGED <<eml, uidFile, uidNext, named>> /\ spent' = [spent EXCEPT !.crashes = @ + 1]
        /\ \A s \in Sessions : pc'[s] = "out"
        /\ \A i \in Msgs : arrival'[i] = IF arrival[i].at = "none" THEN arrival[i] ELSE [arrival[i] EXCEPT !.at = "done"]
    BY <1>1 DEF Crash
  <2>2. \A i \in Msgs : Arrived(i) => Arrived(i)'
    BY <1>0, <2>1 DEF Arrived, Arrival
  <2>3. ~Calm'
    <3>1. spent.crashes \in Nat /\ spent'.crashes = spent.crashes + 1
      BY <1>0, <2>1
    <3> QED BY <3>1 DEF Calm
  <2>4. Names'
    BY <1>0, <2>1, <2>2 DEF Uids, Names
  <2> QED BY <2>1, <2>3, <2>4 DEF Uids, Lists, Counter
<1>2. ASSUME NEW i \in Msgs, Stage(i) \/ Publish(i) \/ WriteNewFlags(i) PROVE Uids'
  <2>1. UNCHANGED <<uidFile, uidNext, named, spent, pc, op>>
    BY <1>2 DEF Stage, Publish, WriteNewFlags
  <2>2. eml \subseteq eml' /\ \A j \in eml' : j \in eml \/ (j = i /\ ~Arrived(i))
    BY <1>0, <1>2 DEF Stage, Publish, WriteNewFlags, Arrived
  <2>3. \A j \in Msgs : Arrived(j) => Arrived(j)'
    <3>1. \A j \in Msgs : j # i => arrival'[j] = arrival[j]
      BY <1>0, <1>2 DEF Stage, Publish, WriteNewFlags
    <3>2. Arrived(i) => Arrived(i)'
      <4>1. CASE Stage(i) \/ Publish(i)
        BY <4>1 DEF Stage, Publish, Arrived
      <4>2. CASE WriteNewFlags(i)
        BY <1>0, <4>2 DEF WriteNewFlags, Arrived, Arrival
      <4> QED BY <1>2, <4>1, <4>2
    <3> QED BY <3>1, <3>2 DEF Arrived
  <2>4. Names'
    BY <1>0, <2>1, <2>2, <2>3 DEF Uids, Names
  <2> QED BY <2>1, <2>2, <2>4 DEF Uids, Lists, Counter, Calm, Unique, Covered, Below
<1> QED BY <1>1, <1>2

\* One message scanned: a new number is past every one given out so far.
LEMMA UidsScanOne ==
  ASSUME TypeOK, Shapes, Arrivals, Uids, NEW s \in Sessions, Only(s), Only(s)', ScanOne(s)
  PROVE  Uids'
<1>1. PICK i \in op[s].ids, uid \in Nat, ctr \in Nat, w \in {"scan", "uidnext", "build"} : Scans(s, i, uid, ctr, w)
  BY ScanOneFacts DEF Shapes
<1>2. /\ i \in Msgs /\ i \in eml /\ Arrived(i) /\ op[s].ctr >= uidNext /\ op[s].val = uidNext /\ op[s] \in Op
      /\ named \subseteq Nat \X Msgs /\ uidFile \in [Msgs -> Nat] /\ uidNext \in Nat /\ op[s].ctr \in Nat
  BY <1>1 DEF Scans, Uids, Lists, Counter, Arrivals, TypeOK, Op
<1>3. \/ uidFile[i] = 0 /\ uid = op[s].ctr + 1 /\ ctr = uid
      \/ uidFile[i] # 0 /\ uid = uidFile[i] /\ ctr = op[s].ctr
  BY <1>1 DEF Scans
<1>4. /\ named' = named \cup {<<uid, i>>} /\ UNCHANGED <<eml, uidNext, arrival, spent>>
      /\ uidFile'[i] = uid /\ \A j \in Msgs : j # i => uidFile'[j] = uidFile[j]
  BY <1>1, <1>2 DEF Scans
<1>5. /\ pc'[s] = w /\ op'[s].ids = op[s].ids \ {i} /\ op'[s].ctr = ctr /\ op'[s].val = op[s].val
      /\ (w = "build" => ~(ctr > op[s].val)) /\ pc[s] = "scan"
  BY <1>1, <1>2 DEF Scans, TypeOK, Op
<1>6. \A t \in Sessions : t # s => pc[t] \notin {"scan", "uidnext"} /\ pc'[t] \notin {"scan", "uidnext"}
  BY DEF Only
<1>7. \A a \in named : a[1] \in Nat /\ a[2] \in Msgs /\ a = <<a[1], a[2]>>
  BY <1>2
<1>8. uidFile[i] = 0 => \A a \in named : a[2] # i
  BY <1>2, <1>7 DEF Uids, Names
<1>9. uidFile[i] # 0 => <<uid, i>> \in named
  BY <1>2, <1>3 DEF Uids, Names
<1>10. uid > 0 /\ (uidFile[i] = 0 => uid <= ctr) /\ op[s].ctr <= ctr
  <2>1. CASE uidFile[i] = 0
    BY <1>2, <1>3, <2>1
  <2>2. CASE uidFile[i] # 0
    <3>1. \A a \in named : a[1] > 0
      BY DEF Uids, Names
    <3>2. uid > 0
      BY <1>9, <2>2, <3>1
    <3>3. uid = uidFile[i] /\ ctr = op[s].ctr /\ <<uid, i>> \in named /\ uidFile[i] \in Nat
      BY <1>2, <1>3, <1>9, <2>2
    <3> QED BY <1>2, <3>2, <3>3
  <2> QED BY <2>1, <2>2
<1>11. Names'
  <2>1. ASSUME NEW a \in named' PROVE a[1] > 0 /\ Arrived(a[2]) /\ (a[2] \in eml => uidFile'[a[2]] = a[1])
    <3>1. CASE a = <<uid, i>>
      BY <1>2, <1>4, <1>10, <3>1
    <3>2. CASE a \in named /\ a[2] # i
      BY <1>4, <1>7, <3>2 DEF Uids, Names
    <3>3. CASE a \in named /\ a[2] = i
      BY <1>2, <1>3, <1>4, <1>8, <3>3 DEF Uids, Names
    <3> QED BY <1>4, <3>1, <3>2, <3>3
  <2>2. \A j \in Msgs : uidFile'[j] # 0 => j \in eml /\ <<uidFile'[j], j>> \in named'
    BY <1>2, <1>4 DEF Uids, Names
  <2>3. \A a, b \in named' : a[2] = b[2] => a[1] = b[1]
    <3>1. CASE uidFile[i] = 0
      BY <1>4, <1>8, <3>1 DEF Uids, Names
    <3>2. CASE uidFile[i] # 0
      <4>1. named' = named
        BY <1>4, <1>9, <3>2
      <4> QED BY <4>1 DEF Uids, Names
    <3> QED BY <3>1, <3>2
  <2> QED BY <1>4, <2>1, <2>2, <2>3 DEF Names, Arrived
<1>12. Lists'
  BY <1>4, <1>5, <1>6 DEF Uids, Lists
<1>13. Counter'
  BY <1>2, <1>4, <1>5, <1>6, <1>10 DEF Uids, Counter
<1>14. ASSUME Calm PROVE Unique' /\ Covered'
  <2>1. \A a \in named : a[1] <= op[s].ctr
    BY <1>2, <1>6, <1>7, <1>14 DEF Uids, Covered, Below
  <2>2. Unique'
    <3>1. CASE uidFile[i] = 0
      <4>1. \A a \in named : a[1] # uid
        BY <1>2, <1>3, <1>7, <2>1, <3>1
      <4> QED BY <1>4, <1>14, <4>1 DEF Uids, Unique
    <3>2. CASE uidFile[i] # 0
      <4>1. named' = named
        BY <1>4, <1>9, <3>2
      <4> QED BY <1>14, <4>1 DEF Uids, Unique
    <3> QED BY <3>1, <3>2
  <2>3. \A a \in named' : a[1] \in Nat /\ a[1] <= ctr
    <3>1. \A a \in named : a[1] \in Nat /\ a[1] <= ctr
      BY <1>2, <1>7, <1>10, <2>1
    <3>2. uid <= ctr
      BY <1>9, <1>10, <3>1
    <3> QED BY <1>4, <3>1, <3>2
  <2>4. CASE w \in {"scan", "uidnext"}
    BY <1>5, <2>2, <2>3, <2>4 DEF Covered, Below
  <2>5. CASE w = "build"
    <3>1. ctr <= uidNext'
      BY <1>2, <1>4, <1>5, <2>5
    <3>2. uidNext' \in Nat
      BY <1>2, <1>4
    <3>3. \A a \in named' : a[1] <= uidNext'
      BY <2>3, <3>1, <3>2
    <3> QED BY <2>2, <3>3 DEF Covered, Below
  <2> QED BY <2>4, <2>5
<1>15. Calm' => Calm
  BY <1>4 DEF Calm
<1> QED BY <1>11, <1>12, <1>13, <1>14, <1>15 DEF Uids

\* Every step keeps the UIDs sound.
LEMMA UidsStep ==
  ASSUME ~Overlap, TypeOK, Shapes, Alone, Arrivals, Uids, [Next]_vars
  PROVE  Uids'
<1> USE DEF diskVars, Goto, GotoWith
<1>0. /\ spent \in [ops : Nat, crashes : Nat] /\ pc \in [Sessions -> PCs] /\ op \in [Sessions -> Op]
      /\ uidNext \in Nat /\ named \subseteq Nat \X Msgs
  BY DEF TypeOK
<1>1. CASE UNCHANGED vars
  BY <1>1 DEF vars, sessVars, Uids, Names, Lists, Counter, Below, Unique, Covered, Calm, Arrived
<1>2. CASE (\E i \in Msgs : Stage(i) \/ Publish(i) \/ WriteNewFlags(i)) \/ Crash
  BY <1>2, UidsOutside
<1>3. ASSUME NEW s \in Sessions, Unselect(s) PROVE Uids'
  <2>1. /\ UNCHANGED <<eml, uidFile, uidNext, arrival, named, spent, op>> /\ pc[s] = "idle" /\ pc'[s] = "out"
        /\ \A t \in Sessions : t # s => pc'[t] = pc[t]
    BY <1>0, <1>3 DEF Unselect
  <2>2. \A t \in Sessions : (pc'[t] = "scan" <=> pc[t] = "scan") /\ (pc'[t] = "uidnext" <=> pc[t] = "uidnext")
    BY <2>1
  <2> QED BY <2>1, <2>2 DEF Uids, Names, Lists, Counter, Below, Unique, Covered, Calm, Arrived
<1>4. ASSUME NEW s \in Sessions, Step(s), ~Unselect(s) PROVE Uids'
  <2>1. Only(s) /\ Only(s)'
    BY <1>4, OnlyStep
  <2>2. arrival' = arrival /\ spent'.crashes = spent.crashes
    BY <1>4, StepOutside
  <2>3. \A t \in Sessions : t # s => pc[t] \notin {"scan", "uidnext"} /\ pc'[t] \notin {"scan", "uidnext"}
    BY <2>1 DEF Only
  <2> DEFINE Plain == /\ UNCHANGED <<eml, uidFile, uidNext, named>>
                      /\ pc[s] \notin {"scan", "uidnext"} /\ pc'[s] \notin {"scan", "uidnext"}
  <2>4. ASSUME Plain PROVE Uids'
    BY <2>2, <2>3, <2>4, UidsFrame
  <2>5. CASE Select(s) \/ Refresh(s) \/ ReadGeneration(s)
    BY <1>0, <2>4, <2>5 DEF Select, Refresh, ReadGeneration
  <2>6. CASE LoadIndex(s)
    BY <1>0, <2>4, <2>6 DEF LoadIndex, Opened
  <2>7. CASE ScanList(s)
    <3>1. /\ UNCHANGED <<eml, uidFile, uidNext, named>> /\ pc[s] = "list"
          /\ pc'[s] = IF eml = {} THEN "build" ELSE "scan"
          /\ op'[s] = [op[s] EXCEPT !.ids = eml, !.ctr = uidNext, !.val = uidNext]
      BY <1>0, <2>7 DEF ScanList
    <3>2. op'[s].ids = eml /\ op'[s].ctr = uidNext /\ op'[s].val = uidNext
      BY <1>0, <3>1 DEF Op
    <3>3. Names' /\ Unique' = Unique
      BY <2>2, <3>1 DEF Uids, Names, Arrived, Unique
    <3>4. Lists' /\ Counter'
      <4>1. uidNext' >= uidNext'
        BY <1>0, <3>1
      <4>2. op'[s].ids \subseteq eml' /\ op'[s].ctr = uidNext' /\ op'[s].val = uidNext'
        BY <3>1, <3>2
      <4> QED BY <2>3, <4>1, <4>2 DEF Lists, Counter
    <3>5. Covered => Covered'
      BY <2>3, <3>1 DEF Covered, Below
    <3> QED BY <2>2, <3>3, <3>4, <3>5 DEF Uids, Calm
  <2>8. CASE ScanOne(s)
    BY <2>1, <2>8, UidsScanOne
  <2>9. CASE WriteUidNext(s)
    <3>1. /\ UNCHANGED <<eml, uidFile, named, op>> /\ pc[s] = "uidnext" /\ pc'[s] = "build" /\ uidNext' = op[s].ctr
      BY <1>0, <2>9 DEF WriteUidNext
    <3>2. op[s].ctr >= uidNext /\ op[s].ctr \in Nat
      BY <1>0, <3>1 DEF Uids, Counter, Op
    <3>3. Names' /\ Unique' = Unique
      BY <2>2, <3>1 DEF Uids, Names, Arrived, Unique
    <3>4. Lists' /\ Counter'
      BY <2>3, <3>1 DEF Lists, Counter
    <3>5. Covered => Covered'
      <4>1. \A a \in named : a[1] \in Nat
        BY <1>0
      <4> QED BY <1>0, <2>3, <3>1, <3>2, <4>1 DEF Covered, Below
    <3> QED BY <2>2, <3>3, <3>4, <3>5 DEF Uids, Calm
  <2>10. CASE BuildSnapshot(s)
    BY <1>0, <2>4, <2>10 DEF BuildSnapshot, Opened
  <2>11. ASSUME NEW i \in DOMAIN snap[s], NEW m \in Modes, NEW f \in Flags, Store(s, i, m, {f}) PROVE Uids'
    BY <1>0, <2>4, <2>11 DEF Store
  <2>12. CASE WriteFlags(s) \/ ReadCounter(s) \/ WriteCounter(s) \/ Stamp(s) \/ Record(s)
    BY <1>0, <2>4, <2>12 DEF WriteFlags, ReadCounter, WriteCounter, Stamp, Record
  <2>13. CASE Expunge(s) \/ Close(s) \/ \E i \in DOMAIN snap[s] : Move(s, i)
    <3>1. PICK kind \in {"remove", "close"}, doomed \in SUBSET DOMAIN snap[s] : Takes(s, kind, doomed)
      BY <2>13, TakeFacts
    <3> QED BY <1>0, <2>4, <3>1 DEF Takes
  <2>14. CASE Unlink(s)
    <3>1. PICK i \in op[s].ids : Unlinks(s, i)
      BY <2>14, UnlinkFacts DEF Shapes
    <3>2. /\ i \in Msgs /\ eml' = eml \ {i} /\ UNCHANGED <<uidNext, named>> /\ pc[s] = "unlink"
          /\ pc'[s] \in {"read", "unlink"} /\ uidFile'[i] = 0 /\ \A j \in Msgs : j # i => uidFile'[j] = uidFile[j]
      BY <1>0, <3>1 DEF Unlinks, TypeOK
    <3>3. \A t \in Sessions : pc[t] \notin {"scan", "uidnext"} /\ pc'[t] \notin {"scan", "uidnext"}
      BY <2>3, <3>2
    <3>4. \A a \in named : a[2] \in Msgs
      BY <1>0
    <3>5. Names'
      BY <2>2, <3>2, <3>4 DEF Uids, Names, Arrived
    <3> QED BY <2>2, <3>2, <3>3, <3>5 DEF Uids, Lists, Counter, Below, Unique, Covered, Calm
  <2> QED BY <1>4, <2>5, <2>6, <2>7, <2>8, <2>9, <2>10, <2>11, <2>12, <2>13, <2>14 DEF Step, Open
<1> QED BY <1>1, <1>2, <1>3, <1>4 DEF Next

\* A message keeps its UID, and while the server has not crashed no other
\* message has it (imap/uid.rs, assign_or_read), when the operations of
\* sessions do not overlap.
THEOREM UidsAreSound == ASSUME ~Overlap PROVE Spec => []UidsSound
<1> DEFINE Inv == TypeOK /\ Shapes /\ Alone /\ Arrivals /\ Uids
<1>1. Init => Inv
  <2> SUFFICES ASSUME Init PROVE Inv
    OBVIOUS
  <2>1. TypeOK /\ Shapes
    BY TypesInit
  <2>2. \A s \in Sessions : pc[s] = "out"
    BY DEF Init
  <2>3. \A i \in Msgs : arrival[i].at = "none" /\ arrival[i].by = "deliver" /\ uidFile[i] = 0
    BY DEF Init
  <2>4. eml = {} /\ named = {}
    BY DEF Init
  <2> QED BY <2>1, <2>2, <2>3, <2>4 DEF Alone, Busy, Arrivals, Uids, Names, Lists, Counter, Unique, Covered
<1>2. Inv /\ [Next]_vars => Inv'
  BY TypesStep, AloneStep, ArrivalsStep, UidsStep
<1>3. Inv => UidsSound
  BY DEF Uids, Names, Unique, UidsSound, Calm
<1> QED BY <1>1, <1>2, <1>3, PTL DEF Spec

(***************************************************************************)
(* What the steps of a session do, seen from the session.                  *)
(***************************************************************************)
\* Files, names and arrivals but for the UID counter.
Kept     == UNCHANGED <<eml, uidFile, flagFile, modFile, modCtr, index, journal, arrival, named>>
Views(s) == snap'[s] = snap[s] /\ view'[s] = view[s] /\ high'[s] = high[s]

\* SELECT, or a refresh of what is selected.
Starts(s) ==
  /\ Kept /\ Views(s) /\ scanned'[s] = scanned[s] /\ pc[s] \in {"out", "idle"} /\ pc'[s] = "gen"
  /\ op'[s].kind \in {"select", "refresh"} /\ (op'[s].kind = "refresh" => pc[s] = "idle")
  /\ op'[s].gone = {} /\ op'[s].ids = {}

\* A step on the way to the scan, or after it to the snapshot.
Advances(s) ==
  /\ Kept /\ Views(s) /\ scanned'[s] = scanned[s]
  /\ \/ pc[s] = "gen" /\ pc'[s] = "count" /\ op'[s].gen.modseq = modCtr
     \/ pc[s] = "count" /\ pc'[s] = "list" /\ op'[s].gen.modseq = op[s].gen.modseq
     \/ pc[s] = "list" /\ pc'[s] \in {"scan", "build"} /\ op'[s].ids = eml /\ op'[s].gen = op[s].gen
     \/ pc[s] = "uidnext" /\ pc'[s] = "build" /\ op'[s] = op[s]
  /\ op'[s].kind = op[s].kind /\ op'[s].report = op[s].report /\ op'[s].gone = op[s].gone

\* The end of an open, with the snapshot refs.
Opens(s, refs, n) ==
  /\ pc[s] \in {"count", "build"} /\ Opened(s, refs, n) /\ scanned'[s] = NoMsgs /\ IsSnapshot(refs)
  /\ UNCHANGED <<eml, uidFile, flagFile, modFile, modCtr, journal, arrival, named>>
  /\ \/ /\ pc[s] = "count" /\ refs = index.recs /\ index' = index /\ n = op[s].gen.modseq /\ n = index.gen.modseq
        /\ Cardinality(DOMAIN refs) = Cardinality(eml)
     \/ /\ pc[s] = "build" /\ refs = scanned[s] /\ index' = [gen |-> op[s].gen, recs |-> refs]
        /\ n = Max({modCtr} \cup {refs[i].modseq : i \in DOMAIN refs})

\* STORE begins on message i.
Stores(s, i) ==
  /\ Kept /\ view'[s] = view[s] /\ high'[s] = high[s] /\ scanned'[s] = scanned[s]
  /\ pc[s] = "idle" /\ pc'[s] \in {"idle", "flags"} /\ i \in DOMAIN snap[s] /\ i \in eml
  /\ op'[s].gone = {} /\ op'[s].kind # "select" /\ (pc'[s] = "idle" => op'[s] = NoOp)
  /\ DOMAIN snap'[s] = DOMAIN snap[s] /\ snap'[s][i].uid = snap[s][i].uid /\ snap'[s][i].flags = flagFile[i]
  /\ \A j \in DOMAIN snap[s] : j # i => snap'[s][j] = snap[s][j]

\* The new flags are on disk.
Flagging(s) ==
  /\ UNCHANGED <<eml, uidFile, modFile, modCtr, index, journal, arrival, named>> /\ Views(s)
  /\ scanned'[s] = scanned[s] /\ pc[s] = "flags" /\ pc'[s] = "read" /\ op'[s] = op[s]
  /\ \A i \in Msgs : i \notin op[s].ids => flagFile'[i] = flagFile[i]

\* The mod-sequence counter is read.
Counts(s) ==
  /\ Kept /\ Views(s) /\ scanned'[s] = scanned[s] /\ pc[s] = "read" /\ pc'[s] = "bump"
  /\ op'[s].val = modCtr + 1 /\ op'[s].kind = op[s].kind /\ op'[s].ids = op[s].ids
  /\ op'[s].gone = op[s].gone /\ op'[s].uids = op[s].uids

\* It is written.
Bumps(s) ==
  /\ UNCHANGED <<eml, uidFile, flagFile, modFile, index, journal, arrival, named>> /\ Views(s)
  /\ scanned'[s] = scanned[s] /\ pc[s] = "bump" /\ op'[s] = op[s] /\ modCtr' = op[s].val
  /\ pc'[s] = IF op[s].kind = "store" THEN "stamp" ELSE "log"

\* STORE ends.
Stamps(s) ==
  /\ UNCHANGED <<eml, uidFile, flagFile, modCtr, index, journal, arrival, named>>
  /\ view'[s] = view[s] /\ high'[s] = high[s] /\ scanned'[s] = scanned[s]
  /\ pc[s] = "stamp" /\ pc'[s] = "idle" /\ op'[s] = NoOp
  /\ \A i \in Msgs : modFile'[i] = IF i \in op[s].ids THEN op[s].val ELSE modFile[i]
  /\ DOMAIN snap'[s] = DOMAIN snap[s]
  /\ \A i \in DOMAIN snap[s] : /\ snap'[s][i].uid = snap[s][i].uid
                               /\ i \notin op[s].ids => snap'[s][i] = snap[s][i]

\* A removal begins.
Dooms(s) ==
  /\ Kept /\ Views(s) /\ scanned'[s] = scanned[s] /\ pc[s] = "idle" /\ pc'[s] = "unlink"
  /\ op'[s].kind \in {"remove", "close"} /\ op'[s].ids = op'[s].gone /\ op'[s].gone \subseteq DOMAIN snap[s]
  /\ op'[s].uids = {snap[s][i].uid : i \in op'[s].gone}

\* One message of it is unlinked.
Removes(s, i) ==
  /\ UNCHANGED <<modFile, modCtr, index, journal, arrival, named>> /\ high'[s] = high[s] /\ scanned'[s] = scanned[s]
  /\ i \in Msgs /\ i \in op[s].ids /\ eml' = eml \ {i}
  /\ \A j \in Msgs : j # i => uidFile'[j] = uidFile[j] /\ flagFile'[j] = flagFile[j]
  /\ pc[s] = "unlink" /\ pc'[s] \in {"unlink", "read"} /\ op'[s].ids = op[s].ids \ {i}
  /\ op'[s].kind = op[s].kind /\ op'[s].gone = op[s].gone /\ op'[s].uids = op[s].uids
  /\ \/ /\ op'[s].ids = {} /\ snap'[s] = Without(snap[s], op[s].gone)
        /\ view'[s] = Dropped(view[s], snap[s], op[s].gone)
     \/ snap'[s] = snap[s] /\ view'[s] = view[s]

\* The vanished UIDs are journalled.
Records(s) ==
  /\ UNCHANGED <<eml, uidFile, flagFile, modFile, modCtr, index, arrival, named>> /\ Views(s)
  /\ scanned'[s] = scanned[s] /\ pc[s] = "log" /\ op'[s] = NoOp
  /\ journal' = journal \cup {<<u, op[s].val>> : u \in op[s].uids}
  /\ pc'[s] = IF op[s].kind = "close" THEN "out" ELSE "idle"

\* A step of a session does one of these.
Effect(s) ==
  \/ Starts(s) \/ Advances(s) \/ (\E refs, n : Opens(s, refs, n)) \/ (\E i \in DOMAIN snap[s] : Stores(s, i))
  \/ Flagging(s) \/ Counts(s) \/ Bumps(s) \/ Stamps(s) \/ Dooms(s) \/ (\E i \in Msgs : Removes(s, i)) \/ Records(s)
  \/ \E i \in op[s].ids, uid \in Nat, ctr \in Nat, w \in {"scan", "uidnext", "build"} : Scans(s, i, uid, ctr, w)

\* Indeed.
LEMMA Effects ==
  ASSUME TypeOK, Shapes, NEW s \in Sessions, Step(s), ~Unselect(s)
  PROVE  Effect(s)
<1> USE DEF diskVars, Goto, GotoWith
<1>0. /\ pc \in [Sessions -> PCs] /\ op \in [Sessions -> Op] /\ DOMAIN snap = Sessions /\ DOMAIN scanned = Sessions
      /\ view \in [Sessions -> Seq(Msgs)] /\ high \in [Sessions -> Nat] /\ op[s] \in Op /\ Shape(s)
      /\ IsSnapshot(snap[s]) /\ IsSnapshot(scanned[s]) /\ IsSnapshot(index.recs)
      /\ uidFile \in [Msgs -> Nat] /\ flagFile \in [Msgs -> SUBSET Flags]
  BY DEF TypeOK, Shapes
<1>1. CASE Select(s)
  <2>1. op'[s] = [NoOp EXCEPT !.kind = "select"]
    BY <1>0, <1>1 DEF Select
  <2>2. Starts(s)
    BY <1>0, <1>1, <2>1 DEF Select, Starts, Kept, Views, NoOp
  <2> QED BY <2>2 DEF Effect
<1>2. CASE Refresh(s)
  <2>1. PICK r \in BOOLEAN : op'[s] = [NoOp EXCEPT !.kind = "refresh", !.report = r]
    BY <1>0, <1>2 DEF Refresh
  <2>2. Starts(s)
    BY <1>0, <1>2, <2>1 DEF Refresh, Starts, Kept, Views, NoOp
  <2> QED BY <2>2 DEF Effect
<1>3. CASE ReadGeneration(s)
  <2>1. op'[s] = [op[s] EXCEPT !.gen.modseq = modCtr] /\ pc'[s] = "count"
    BY <1>0, <1>3 DEF ReadGeneration
  <2>2. op'[s].gen.modseq = modCtr /\ op'[s].kind = op[s].kind /\ op'[s].report = op[s].report /\ op'[s].gone = op[s].gone
    BY <1>0, <2>1 DEF Op, Gen
  <2>3. Advances(s)
    BY <1>3, <2>1, <2>2 DEF ReadGeneration, Advances, Kept, Views
  <2> QED BY <2>3 DEF Effect
<1>4. CASE LoadIndex(s)
  <2> DEFINE gen == [op[s].gen EXCEPT !.count = Cardinality(eml)]
  <2>0. gen.modseq = op[s].gen.modseq /\ gen.count = Cardinality(eml)
    BY <1>0 DEF Op, Gen
  <2>1. pc[s] = "count" /\ UNCHANGED <<diskVars, arrival, scanned, named, spent>> /\ scanned[s] = NoMsgs
    BY <1>0, <1>4 DEF LoadIndex, Shape, Scanning
  <2>2. CASE IndexAccepts(gen)
    <3>1. Opened(s, index.recs, gen.modseq) /\ index.gen = gen /\ Cardinality(DOMAIN index.recs) = gen.count
      BY <1>4, <2>2 DEF LoadIndex, IndexAccepts
    <3>2. Opens(s, index.recs, gen.modseq)
      <4> HIDE DEF gen
      <4> QED BY <1>0, <2>0, <2>1, <3>1 DEF Opens
    <3> QED BY <3>2 DEF Effect
  <2>3. CASE ~IndexAccepts(gen)
    <3>1. op'[s] = [op[s] EXCEPT !.gen = gen] /\ pc'[s] = "list" /\ UNCHANGED <<snap, view, high>>
      BY <1>0, <1>4, <2>3 DEF LoadIndex
    <3>2. op'[s].gen = gen /\ op'[s].kind = op[s].kind /\ op'[s].report = op[s].report /\ op'[s].gone = op[s].gone
      <4> HIDE DEF gen
      <4> QED BY <1>0, <3>1 DEF Op
    <3>3. Advances(s)
      <4> HIDE DEF gen
      <4> QED BY <2>0, <2>1, <3>1, <3>2 DEF Advances, Kept, Views
    <3> QED BY <3>3 DEF Effect
  <2> QED BY <2>2, <2>3
<1>5. CASE ScanList(s)
  <2>1. /\ op'[s] = [op[s] EXCEPT !.ids = eml, !.ctr = uidNext, !.val = uidNext]
        /\ pc'[s] = IF eml = {} THEN "build" ELSE "scan"
        /\ pc[s] = "list" /\ UNCHANGED <<diskVars, arrival, scanned, snap, view, high, named, spent>>
    BY <1>0, <1>5 DEF ScanList
  <2>2. op'[s].ids = eml /\ op'[s].gen = op[s].gen /\ op'[s].kind = op[s].kind /\ op'[s].report = op[s].report /\ op'[s].gone = op[s].gone
    BY <1>0, <2>1 DEF Op
  <2>3. Advances(s)
    BY <2>1, <2>2 DEF Advances, Kept, Views
  <2> QED BY <2>3 DEF Effect
<1>6. CASE WriteUidNext(s)
  <2>1. Advances(s)
    BY <1>0, <1>6 DEF WriteUidNext, Advances, Kept, Views
  <2> QED BY <2>1 DEF Effect
<1>7. CASE ScanOne(s)
  BY <1>0, <1>7, ScanOneFacts DEF Effect
<1>8. CASE BuildSnapshot(s)
  <2> DEFINE n == Max({modCtr} \cup {scanned[s][i].modseq : i \in DOMAIN scanned[s]})
  <2>1. Opens(s, scanned[s], n)
    BY <1>0, <1>8 DEF BuildSnapshot, Opens
  <2> QED BY <2>1 DEF Effect
<1>9. ASSUME NEW i \in DOMAIN snap[s], NEW m \in Modes, NEW f \in Flags, Store(s, i, m, {f}) PROVE Effect(s)
  <2>1. /\ pc[s] = "idle" /\ i \in eml /\ UNCHANGED <<diskVars, arrival, scanned, view, high, named>>
        /\ snap'[s] = [snap[s] EXCEPT ![i] = [snap[s][i] EXCEPT !.flags = flagFile[i], !.modseq = modFile[i]]]
    BY <1>0, <1>9 DEF Store
  <2>2. snap[s][i] \in Ref
    BY <1>0 DEF IsSnapshot
  <2>3. /\ DOMAIN snap'[s] = DOMAIN snap[s] /\ snap'[s][i].uid = snap[s][i].uid /\ snap'[s][i].flags = flagFile[i]
        /\ \A j \in DOMAIN snap[s] : j # i => snap'[s][j] = snap[s][j]
    BY <2>1, <2>2 DEF Ref
  <2>4. op[s] = NoOp
    BY <1>0, <2>1 DEF Shape
  <2>5. \/ pc'[s] = pc[s] /\ op'[s] = NoOp
        \/ \E n : pc'[s] = "flags" /\ op'[s] = [NoOp EXCEPT !.kind = "store", !.ids = {i}, !.flags = n]
    <3> DEFINE n == NextFlags(m, flagFile[i], {f})
    <3>1. CASE n = flagFile[i]
      BY <1>9, <2>4, <3>1 DEF Store
    <3>2. CASE n # flagFile[i]
      <4>1. pc'[s] = "flags" /\ op'[s] = [NoOp EXCEPT !.kind = "store", !.ids = {i}, !.flags = n]
        BY <1>0, <1>9, <3>2 DEF Store
      <4> QED BY <4>1
    <3> QED BY <3>1, <3>2
  <2>6. pc'[s] \in {"idle", "flags"} /\ op'[s].gone = {} /\ op'[s].kind # "select" /\ (pc'[s] = "idle" => op'[s] = NoOp)
    <3>1. CASE pc'[s] = pc[s] /\ op'[s] = NoOp
      BY <2>1, <3>1 DEF NoOp
    <3>2. ASSUME NEW n, pc'[s] = "flags", op'[s] = [NoOp EXCEPT !.kind = "store", !.ids = {i}, !.flags = n]
          PROVE  pc'[s] = "flags" /\ op'[s].gone = {} /\ op'[s].kind = "store"
      BY <3>2 DEF NoOp
    <3> QED BY <2>5, <3>1, <3>2
  <2>7. Stores(s, i)
    BY <2>1, <2>3, <2>6 DEF Stores, Kept
  <2> QED BY <2>7 DEF Effect
<1>10. CASE WriteFlags(s)
  <2>1. Flagging(s)
    BY <1>0, <1>10 DEF WriteFlags, Flagging, Views
  <2> QED BY <2>1 DEF Effect
<1>11. CASE ReadCounter(s)
  <2>1. op'[s] = [op[s] EXCEPT !.val = modCtr + 1] /\ pc'[s] = "bump"
    BY <1>0, <1>11 DEF ReadCounter
  <2>2. op'[s].val = modCtr + 1 /\ op'[s].kind = op[s].kind /\ op'[s].ids = op[s].ids
        /\ op'[s].gone = op[s].gone /\ op'[s].uids = op[s].uids
    BY <1>0, <2>1 DEF Op
  <2>3. Counts(s)
    BY <1>11, <2>1, <2>2 DEF ReadCounter, Counts, Kept, Views
  <2> QED BY <2>3 DEF Effect
<1>12. CASE WriteCounter(s)
  <2>1. Bumps(s)
    BY <1>0, <1>12 DEF WriteCounter, Bumps, Views
  <2> QED BY <2>1 DEF Effect
<1>13. CASE Stamp(s)
  <2>1. /\ snap'[s] = [i \in DOMAIN snap[s] |->
                     IF i \in op[s].ids THEN [snap[s][i] EXCEPT !.flags = op[s].flags, !.modseq = op[s].val]
                     ELSE snap[s][i]]
        /\ pc'[s] = "idle" /\ op'[s] = NoOp
    BY <1>0, <1>13 DEF Stamp
  <2>2. \A i \in DOMAIN snap[s] : snap[s][i] \in Ref
    BY <1>0 DEF IsSnapshot
  <2>3. DOMAIN snap'[s] = DOMAIN snap[s]
    BY <2>1
  <2>4. \A i \in DOMAIN snap[s] : /\ snap'[s][i].uid = snap[s][i].uid
                                  /\ i \notin op[s].ids => snap'[s][i] = snap[s][i]
    BY <2>1, <2>2 DEF Ref
  <2>5. Stamps(s)
    BY <1>13, <2>1, <2>3, <2>4 DEF Stamp, Stamps
  <2> QED BY <2>5 DEF Effect
<1>14. CASE Expunge(s) \/ Close(s) \/ \E i \in DOMAIN snap[s] : Move(s, i)
  <2>1. PICK kind \in {"remove", "close"}, doomed \in SUBSET DOMAIN snap[s] : Takes(s, kind, doomed)
    BY <1>14, TakeFacts
  <2> DEFINE uids == {snap[s][i].uid : i \in doomed}
  <2>2. op'[s] = [NoOp EXCEPT !.kind = kind, !.ids = doomed, !.gone = doomed, !.uids = uids]
    BY <1>0, <2>1 DEF Takes
  <2>3. op'[s].kind = kind /\ op'[s].ids = doomed /\ op'[s].gone = doomed /\ op'[s].uids = uids
    <3> HIDE DEF uids
    <3> QED BY <2>2 DEF NoOp
  <2>4. pc[s] = "idle" /\ pc'[s] = "unlink" /\ UNCHANGED <<diskVars, arrival, scanned, snap, view, high, named>>
    BY <1>0, <2>1 DEF Takes
  <2>5. Dooms(s)
    BY <2>3, <2>4 DEF Dooms, Kept, Views
  <2> QED BY <2>5 DEF Effect
<1>15. CASE Unlink(s)
  <2>1. PICK i \in op[s].ids : Unlinks(s, i)
    BY <1>0, <1>15, UnlinkFacts
  <2>2. op'[s] = [op[s] EXCEPT !.ids = op[s].ids \ {i}] /\ pc'[s] \in {"unlink", "read"}
    BY <1>0, <2>1 DEF Unlinks
  <2>3. op'[s].ids = op[s].ids \ {i} /\ op'[s].kind = op[s].kind /\ op'[s].gone = op[s].gone /\ op'[s].uids = op[s].uids
    BY <1>0, <2>2 DEF Op
  <2>4. \/ /\ op'[s].ids = {} /\ snap'[s] = Without(snap[s], op[s].gone)
           /\ view'[s] = Dropped(view[s], snap[s], op[s].gone)
        \/ snap'[s] = snap[s] /\ view'[s] = view[s]
    BY <1>0, <2>1, <2>3 DEF Unlinks
  <2>5. \A j \in Msgs : j # i => uidFile'[j] = uidFile[j] /\ flagFile'[j] = flagFile[j]
    BY <1>0, <2>1 DEF Unlinks
  <2>6. Removes(s, i)
    BY <2>1, <2>2, <2>3, <2>4, <2>5 DEF Unlinks, Removes
  <2>7. i \in Msgs
    BY <2>1 DEF Unlinks
  <2> QED BY <2>6, <2>7 DEF Effect
<1>16. CASE Record(s)
  <2>1. Records(s)
    BY <1>0, <1>16 DEF Record, Records, Views
  <2> QED BY <2>1 DEF Effect
<1> QED BY <1>1, <1>2, <1>3, <1>4, <1>5, <1>6, <1>7, <1>8, <1>9, <1>10, <1>11, <1>12, <1>13, <1>14, <1>15,
        <1>16 DEF Step, Open

(***************************************************************************)
(* Mod-sequences, the index and what sessions remember.                    *)
(***************************************************************************)
\* No message, index or client is ahead of the counter; a counter in hand is
\* one past it; a stamp in hand is the counter, which nobody has seen yet.
Mods ==
  /\ \A i \in Msgs : modFile[i] <= modCtr
  /\ index.gen.modseq <= modCtr
  /\ \A s \in Sessions : high[s] <= modCtr
  /\ \A s \in Sessions : pc[s] = "bump" => op[s].val = modCtr + 1
  /\ \A s \in Sessions : pc[s] \in Opening \ {"gen"} => op[s].gen.modseq = modCtr
  /\ \A t \in Sessions : pc[t] \in {"stamp", "log"} =>
        /\ op[t].val = modCtr /\ index.gen.modseq < modCtr
        /\ \A s \in Sessions : high[s] < modCtr

\* A reference says what the files say.
TrueRef(i, ref) == /\ i \in eml /\ ref.uid = uidFile[i] /\ ref.modseq = modFile[i]
                   /\ arrival[i].flags = {} => ref.flags = flagFile[i]
TrueRefs(f) == \A i \in DOMAIN f : TrueRef(i, f[i])

\* A change under way that the counter does not show yet.
Dirty == \E s \in Sessions : pc[s] \in {"unlink", "read", "bump"}

\* What a scan has read is true, and so is an index stamped with the counter.
Truth ==
  /\ \A s \in Sessions : pc[s] \in Scanning => TrueRefs(scanned[s])
  /\ Calm /\ index.gen.modseq = modCtr /\ ~Dirty => TrueRefs(index.recs)

\* References carry the UIDs that were given out, and a removal knows those
\* of the messages it has unlinked.
NamesIn(f) == \A i \in DOMAIN f : <<f[i].uid, i>> \in named
Known ==
  /\ NamesIn(index.recs)
  /\ \A s \in Sessions : NamesIn(snap[s]) /\ NamesIn(scanned[s])
  /\ \A t \in Sessions : \A i \in op[t].gone : \E u \in op[t].uids : <<u, i>> \in named
  /\ \A t \in Sessions : \A i \in op[t].gone \ op[t].ids : i \notin eml

Core == TypeOK /\ Shapes /\ Alone /\ Arrivals /\ Uids /\ Mods /\ Truth /\ Known

\* What the end of an open gives the session and its client.
LEMMA OpenedFacts ==
  ASSUME TypeOK, NEW s \in Sessions, NEW refs, NEW n, Opens(s, refs, n)
  PROVE  /\ pc'[s] = "idle" /\ op'[s] = NoOp /\ IsSnapshot(snap'[s]) /\ DOMAIN snap'[s] = DOMAIN refs
         /\ \A i \in DOMAIN refs : snap'[s][i].uid = refs[i].uid
         /\ (op[s].report => snap'[s] = refs) /\ (~op[s].report => snap'[s] = KeepFlagsOf(refs, snap[s]))
         /\ op[s].kind = "select" => high'[s] = n /\ view'[s] = Ascending(DOMAIN snap'[s])
         /\ op[s].kind # "select" => high'[s] = high[s] /\ view'[s] = Changes(view[s], snap[s], snap'[s])
<1> DEFINE fresh == IF op[s].report THEN refs ELSE KeepFlagsOf(refs, snap[s])
<1>1. Opened(s, refs, n) /\ IsSnapshot(refs) /\ IsSnapshot(snap[s])
  BY DEF Opens, TypeOK
<1>2. IsSnapshot(fresh) /\ DOMAIN fresh = DOMAIN refs /\ \A i \in DOMAIN refs : fresh[i].uid = refs[i].uid
  BY <1>1, KeepFlagsType
<1>3. (op[s].report => fresh = refs) /\ (~op[s].report => fresh = KeepFlagsOf(refs, snap[s]))
  OBVIOUS
<1>4. /\ snap' = [snap EXCEPT ![s] = fresh] /\ pc' = [pc EXCEPT ![s] = "idle"] /\ op' = [op EXCEPT ![s] = NoOp]
      /\ op[s].kind = "select" => view' = [view EXCEPT ![s] = Ascending(DOMAIN fresh)] /\ high' = [high EXCEPT ![s] = n]
      /\ op[s].kind # "select" => view' = [view EXCEPT ![s] = Changes(view[s], snap[s], fresh)] /\ high' = high
  BY <1>1 DEF Opened, GotoWith, Goto
<1>5. s \in DOMAIN pc /\ s \in DOMAIN op /\ s \in DOMAIN snap /\ s \in DOMAIN view /\ s \in DOMAIN high
  BY DEF TypeOK
<1> HIDE DEF fresh
<1>6. snap'[s] = fresh /\ pc'[s] = "idle" /\ op'[s] = NoOp
  BY <1>4, <1>5
<1>7. /\ op[s].kind = "select" => view'[s] = Ascending(DOMAIN fresh) /\ high'[s] = n
      /\ op[s].kind # "select" => view'[s] = Changes(view[s], snap[s], fresh) /\ high'[s] = high[s]
  BY <1>4, <1>5
<1> QED BY <1>2, <1>3, <1>6, <1>7

\* An open ends with the counter as HIGHESTMODSEQ and true, named references.
LEMMA OpensTrue ==
  ASSUME Core, NEW s \in Sessions, Only(s), NEW refs, NEW n, Opens(s, refs, n)
  PROVE  /\ n = modCtr /\ NamesIn(refs) /\ (Calm \/ pc[s] = "build" => TrueRefs(refs))
         /\ (Calm /\ pc[s] = "count" => DOMAIN refs = eml)
<1>0. /\ TypeOK /\ modCtr \in Nat /\ IsSnapshot(refs) /\ eml \subseteq Msgs /\ modFile \in [Msgs -> Nat]
      /\ DOMAIN refs \subseteq Msgs
  BY DEF Core, TypeOK, Opens, IsSnapshot
<1>1. CASE pc[s] = "count"
  <2>1. /\ refs = index.recs /\ n = op[s].gen.modseq /\ n = index.gen.modseq
        /\ Cardinality(DOMAIN refs) = Cardinality(eml)
    BY <1>1 DEF Opens
  <2>2. n = modCtr
    BY <1>1, <2>1 DEF Core, Mods, Opening
  <2>3. ~Dirty
    BY <1>1 DEF Dirty, Only
  <2>4. ASSUME Calm PROVE TrueRefs(refs) /\ DOMAIN refs = eml
    <3>1. TrueRefs(refs)
      BY <2>1, <2>2, <2>3, <2>4 DEF Core, Truth
    <3>2. DOMAIN refs \in SUBSET eml
      BY <3>1 DEF TrueRefs, TrueRef
    <3>3. IsFiniteSet(eml)
      BY <1>0, MsgSets
    <3> QED BY <2>1, <3>1, <3>2, <3>3, FS_Subset
  <2> QED BY <1>1, <2>1, <2>2, <2>4 DEF Core, Known
<1>2. CASE pc[s] = "build"
  <2>1. refs = scanned[s] /\ n = Max({modCtr} \cup {refs[i].modseq : i \in DOMAIN refs})
    BY <1>2 DEF Opens
  <2>2. TrueRefs(refs)
    BY <1>2, <2>1 DEF Core, Truth, Scanning
  <2>3. \A i \in DOMAIN refs : refs[i].modseq <= modCtr
    BY <1>0, <2>2 DEF TrueRefs, TrueRef, Core, Mods
  <2>4. n = modCtr
    BY <1>0, <2>1, <2>3, HighestType
  <2> QED BY <1>2, <2>1, <2>2, <2>4 DEF Core, Known
<1> QED BY <1>1, <1>2 DEF Opens

\* Every step keeps the mod-sequences in order.
LEMMA ModsStep ==
  ASSUME ~Overlap, Core, [Next]_vars
  PROVE  Mods'
<1>0. /\ TypeOK /\ Shapes /\ Alone /\ Mods /\ modCtr \in Nat /\ modFile \in [Msgs -> Nat] /\ high \in [Sessions -> Nat]
      /\ index.gen.modseq \in Nat /\ op \in [Sessions -> Op]
  BY DEF Core, TypeOK, Gen
<1>1. CASE UNCHANGED <<modFile, modCtr, index, high, pc, op>>
  BY <1>1 DEF Core, Mods
<1>2. CASE (\E i \in Msgs : Stage(i) \/ Publish(i) \/ WriteNewFlags(i)) \/ UNCHANGED vars
  BY <1>1, <1>2 DEF Stage, Publish, WriteNewFlags, vars, diskVars, sessVars
<1>3. CASE Crash
  <2>1. UNCHANGED <<modFile, modCtr, index, high>> /\ \A s \in Sessions : pc'[s] = "out"
    BY <1>3 DEF Crash, diskVars
  <2> QED BY <1>0, <2>1 DEF Mods, Opening
<1>4. ASSUME NEW s \in Sessions, Unselect(s) PROVE Mods'
  <2>1. /\ UNCHANGED <<modFile, modCtr, index, high, op>> /\ pc'[s] = "out"
        /\ \A t \in Sessions : t # s => pc'[t] = pc[t]
    BY <1>0, <1>4 DEF Unselect, Goto, diskVars, TypeOK
  <2> QED BY <1>0, <2>1 DEF Mods, Opening
<1>5. ASSUME NEW s \in Sessions, Step(s), ~Unselect(s) PROVE Mods'
  <2>1. /\ Only(s) /\ Only(s)' /\ \A t \in Sessions : t # s => high'[t] = high[t]
        /\ Effect(s) /\ Shape(s) /\ op[s] \in Op
    BY <1>0, <1>5, OnlyStep, Effects DEF Shapes
  <2>2. \A t \in Sessions : t # s => pc'[t] \notin {"bump", "stamp", "log"} \cup Opening
    BY <2>1 DEF Only, Opening
  <2>3. ASSUME UNCHANGED <<modFile, modCtr>>, index' = index, high'[s] = high[s],
               pc'[s] \notin {"stamp", "log"}, pc'[s] = "bump" => op'[s].val = modCtr + 1,
               pc'[s] \in Opening \ {"gen"} => op'[s].gen.modseq = modCtr
        PROVE  Mods'
    BY <1>0, <2>1, <2>2, <2>3 DEF Mods
  <2>4. CASE Starts(s)
    BY <2>3, <2>4 DEF Starts, Kept, Views, Opening
  <2>5. CASE Advances(s)
    <3>1. op'[s].gen.modseq = modCtr
      BY <1>0, <2>5 DEF Advances, Mods, Opening
    <3> QED BY <2>3, <2>5, <3>1 DEF Advances, Kept, Views, Opening
  <2>6. ASSUME NEW refs, NEW n, Opens(s, refs, n) PROVE Mods'
    <3>1. n = modCtr
      BY <2>1, <2>6, OpensTrue
    <3>2. pc'[s] = "idle" /\ high'[s] \in {modCtr, high[s]}
      BY <1>0, <2>6, <3>1, OpenedFacts
    <3>3. UNCHANGED <<modFile, modCtr>> /\ index'.gen.modseq \in {index.gen.modseq, op[s].gen.modseq}
      BY <2>6 DEF Opens
    <3>4. index'.gen.modseq <= modCtr
      <4>1. CASE pc[s] = "count"
        BY <1>0, <2>6, <4>1 DEF Opens, Mods
      <4>2. CASE pc[s] = "build"
        <5>1. op[s].gen.modseq = modCtr
          BY <1>0, <4>2 DEF Mods, Opening
        <5>2. index'.gen = op[s].gen
          BY <2>6, <4>2 DEF Opens
        <5> QED BY <1>0, <5>1, <5>2
      <4> QED BY <2>6, <4>1, <4>2 DEF Opens
    <3>5. \A t \in Sessions : high'[t] <= modCtr
      BY <1>0, <2>1, <3>2 DEF Mods
    <3>6. \A t \in Sessions : pc'[t] \notin {"bump", "stamp", "log"} \cup Opening
      BY <2>2, <3>2 DEF Opening
    <3> QED BY <1>0, <3>3, <3>4, <3>5, <3>6 DEF Mods
  <2>7. ASSUME NEW i \in DOMAIN snap[s], Stores(s, i) PROVE Mods'
    BY <2>3, <2>7 DEF Stores, Kept, Opening
  <2>8. CASE Flagging(s)
    BY <2>3, <2>8 DEF Flagging, Views, Opening
  <2>9. CASE Counts(s)
    BY <2>3, <2>9 DEF Counts, Kept, Views, Opening
  <2>10. CASE Bumps(s)
    <3>1. /\ modCtr' = modCtr + 1 /\ op'[s].val = modCtr' /\ pc'[s] \in {"stamp", "log"} /\ index' = index
          /\ modFile' = modFile /\ high'[s] = high[s]
      BY <1>0, <2>10 DEF Bumps, Mods, Views
    <3>2. (\A i \in Msgs : modFile'[i] < modCtr') /\ index'.gen.modseq < modCtr' /\ \A t \in Sessions : high'[t] < modCtr'
      BY <1>0, <2>1, <3>1 DEF Mods
    <3>3. modCtr' \in Nat /\ \A t \in Sessions : high'[t] \in Nat
      BY <1>0, <2>1, <3>1
    <3>4. (\A i \in Msgs : modFile'[i] <= modCtr') /\ index'.gen.modseq <= modCtr' /\ \A t \in Sessions : high'[t] <= modCtr'
      BY <1>0, <3>1, <3>2, <3>3
    <3> QED BY <2>2, <3>1, <3>2, <3>4 DEF Mods, Opening
  <2>11. CASE Stamps(s)
    <3>1. /\ UNCHANGED <<modCtr, index>> /\ high'[s] = high[s] /\ pc'[s] = "idle" /\ op[s].val = modCtr
          /\ \A i \in Msgs : modFile'[i] = IF i \in op[s].ids THEN op[s].val ELSE modFile[i]
      BY <1>0, <2>11 DEF Stamps, Mods
    <3> QED BY <1>0, <2>1, <2>2, <3>1 DEF Mods, Opening
  <2>12. CASE Dooms(s)
    BY <2>3, <2>12 DEF Dooms, Kept, Views, Opening
  <2>13. ASSUME NEW i \in Msgs, Removes(s, i) PROVE Mods'
    BY <2>3, <2>13 DEF Removes, Opening
  <2>14. CASE Records(s)
    BY <2>3, <2>14 DEF Records, Views, Opening
  <2>15. ASSUME NEW i \in op[s].ids, NEW uid \in Nat, NEW ctr \in Nat, NEW w \in {"scan", "uidnext", "build"},
                Scans(s, i, uid, ctr, w)
         PROVE  Mods'
    <3>1. /\ UNCHANGED <<modFile, modCtr, index>> /\ high' = high /\ pc'[s] = w /\ pc[s] = "scan"
          /\ op'[s] = [op[s] EXCEPT !.ids = op[s].ids \ {i}, !.ctr = ctr]
      BY <1>0, <2>15 DEF Scans, TypeOK
    <3>2. op'[s].gen = op[s].gen
      BY <2>1, <3>1 DEF Op
    <3>3. op'[s].gen.modseq = modCtr
      BY <1>0, <3>1, <3>2 DEF Mods, Opening
    <3> QED BY <2>3, <3>1, <3>3
  <2> QED BY <2>1, <2>4, <2>5, <2>6, <2>7, <2>8, <2>9, <2>10, <2>11, <2>12, <2>13, <2>14, <2>15 DEF Effect
<1> QED BY <1>2, <1>3, <1>4, <1>5 DEF Next

\* Nothing changes in the files of the messages that are there, the flags of
\* those that arrived with flags apart.
Steady ==
  \A j \in eml : /\ j \in eml' /\ uidFile'[j] = uidFile[j] /\ modFile'[j] = modFile[j]
                 /\ arrival'[j].flags = arrival[j].flags
                 /\ arrival[j].flags = {} => flagFile'[j] = flagFile[j]

\* Then true references stay true.
LEMMA SteadyTruth ==
  ASSUME Truth, Steady, Calm' => Calm, index' = index, modCtr' = modCtr,
         Dirty => Dirty' \/ index.gen.modseq # modCtr,
         \A t \in Sessions : pc'[t] \in Scanning => \/ scanned'[t] = NoMsgs
                                                    \/ pc[t] \in Scanning /\ scanned'[t] = scanned[t]
  PROVE  Truth'
<1>1. ASSUME NEW t \in Sessions, pc'[t] \in Scanning PROVE TrueRefs(scanned[t])'
  <2>1. CASE scanned'[t] = NoMsgs
    BY <2>1 DEF TrueRefs, NoMsgs
  <2>2. CASE pc[t] \in Scanning /\ scanned'[t] = scanned[t]
    BY <2>2 DEF Truth, TrueRefs, TrueRef, Steady
  <2> QED BY <1>1, <2>1, <2>2
<1>2. ASSUME Calm', index'.gen.modseq = modCtr', ~Dirty' PROVE TrueRefs(index.recs)'
  <2>1. TrueRefs(index.recs)
    BY <1>2 DEF Truth
  <2> QED BY <2>1 DEF TrueRefs, TrueRef, Steady
<1> QED BY <1>1, <1>2 DEF Truth

\* Arrivals are steady: a message that is there has drawn its id, and only
\* one that came with flags is given them.
LEMMA ArrivalsSteady ==
  ASSUME TypeOK, Arrivals, NEW i \in Msgs, Stage(i) \/ Publish(i) \/ WriteNewFlags(i)
  PROVE  Steady
<1>0. arrival \in [Msgs -> Arrival] /\ eml \subseteq Msgs /\ flagFile \in [Msgs -> SUBSET Flags]
  BY DEF TypeOK
<1>1. CASE Stage(i)
  <2>1. arrival[i].at = "none" /\ UNCHANGED diskVars /\ \A j \in Msgs : j # i => arrival'[j] = arrival[j]
    BY <1>0, <1>1 DEF Stage
  <2> QED BY <1>0, <2>1 DEF Steady, Arrivals, Arrived, diskVars
<1>2. CASE Publish(i)
  <2>1. /\ UNCHANGED <<uidFile, flagFile, modFile>> /\ eml' = eml \cup {i}
        /\ \A j \in Msgs : arrival'[j].flags = arrival[j].flags
    BY <1>0, <1>2 DEF Publish, Arrival
  <2> QED BY <1>0, <2>1 DEF Steady
<1>3. CASE WriteNewFlags(i)
  <2>1. /\ UNCHANGED <<eml, uidFile, modFile>> /\ arrival[i].at = "published"
        /\ \A j \in Msgs : arrival'[j].flags = arrival[j].flags
        /\ \A j \in Msgs : j # i => flagFile'[j] = flagFile[j]
    BY <1>0, <1>3 DEF WriteNewFlags, Arrival
  <2>2. arrival[i].flags # {}
    BY <2>1 DEF Arrivals
  <2> QED BY <1>0, <2>1, <2>2 DEF Steady
<1> QED BY <1>1, <1>2, <1>3

\* A crash is remembered.
LEMMA CrashNotCalm ==
  ASSUME TypeOK, Crash PROVE ~Calm'
<1>1. spent \in [ops : Nat, crashes : Nat] /\ spent' = [spent EXCEPT !.crashes = @ + 1]
  BY DEF TypeOK, Crash
<1>2. spent.crashes \in Nat /\ spent'.crashes = spent.crashes + 1
  BY <1>1
<1> QED BY <1>2 DEF Calm

\* Every step keeps scans and the index true.
LEMMA TruthStep ==
  ASSUME ~Overlap, Core, [Next]_vars
  PROVE  Truth'
<1>0. /\ TypeOK /\ Shapes /\ Alone /\ Arrivals /\ Uids /\ Mods /\ Truth /\ Known /\ modCtr \in Nat
      /\ index.gen.modseq \in Nat /\ op \in [Sessions -> Op] /\ uidFile \in [Msgs -> Nat] /\ eml \subseteq Msgs
  BY DEF Core, TypeOK, Gen
<1>1. CASE (\E i \in Msgs : Stage(i) \/ Publish(i) \/ WriteNewFlags(i)) \/ UNCHANGED vars
  <2>1. Steady
    <3>1. CASE UNCHANGED vars
      BY <3>1 DEF Steady, vars, diskVars
    <3> QED BY <1>0, <1>1, <3>1, ArrivalsSteady
  <2>2. UNCHANGED <<pc, scanned, index, modCtr, spent>>
    BY <1>1 DEF Stage, Publish, WriteNewFlags, vars, diskVars, sessVars
  <2> QED BY <1>0, <2>1, <2>2, SteadyTruth DEF Dirty, Calm
<1>2. CASE Crash
  <2>1. ~Calm' /\ \A s \in Sessions : pc'[s] = "out"
    BY <1>0, <1>2, CrashNotCalm DEF Crash
  <2> QED BY <2>1 DEF Truth, Scanning
<1>3. ASSUME NEW s \in Sessions, Unselect(s) PROVE Truth'
  <2>1. /\ UNCHANGED <<diskVars, scanned, arrival, spent>> /\ pc'[s] = "out" /\ pc[s] = "idle"
        /\ \A t \in Sessions : t # s => pc'[t] = pc[t]
    BY <1>0, <1>3 DEF Unselect, Goto, TypeOK
  <2>2. Steady
    BY <2>1 DEF Steady, diskVars
  <2>3. Dirty => Dirty'
    BY <2>1 DEF Dirty
  <2>4. \A t \in Sessions : pc'[t] \in Scanning => pc[t] \in Scanning
    BY <2>1 DEF Scanning
  <2> QED BY <1>0, <2>1, <2>2, <2>3, <2>4, SteadyTruth DEF Calm, diskVars
<1>4. ASSUME NEW s \in Sessions, Step(s), ~Unselect(s) PROVE Truth'
  <2>1. Only(s) /\ Only(s)' /\ Effect(s) /\ Shape(s) /\ op[s] \in Op
    BY <1>0, <1>4, OnlyStep, Effects DEF Shapes
  <2>2. Calm' => Calm
    BY <1>0, <1>4, StepOutside DEF Calm
  <2>3. \A t \in Sessions : t # s => pc[t] \notin {"unlink", "read", "bump"} \cup Scanning
                                     /\ pc'[t] \notin {"unlink", "read", "bump"} \cup Scanning
    BY <2>1 DEF Only, Scanning
  <2>4. ASSUME Kept, pc[s] \in {"unlink", "read", "bump"} => pc'[s] \in {"unlink", "read", "bump"},
               pc'[s] \in Scanning => scanned'[s] = NoMsgs \/ (pc[s] \in Scanning /\ scanned'[s] = scanned[s])
        PROVE  Truth'
    <3>1. Steady /\ index' = index /\ modCtr' = modCtr
      BY <2>4 DEF Steady, Kept
    <3>2. Dirty => Dirty'
      BY <2>3, <2>4 DEF Dirty
    <3>3. \A t \in Sessions : pc'[t] \in Scanning => \/ scanned'[t] = NoMsgs
                                                     \/ pc[t] \in Scanning /\ scanned'[t] = scanned[t]
      BY <2>3, <2>4
    <3> QED BY <1>0, <2>2, <3>1, <3>2, <3>3, SteadyTruth
  <2>5. ASSUME pc'[s] \notin Scanning, pc'[s] \in {"unlink", "read", "bump"} \/ index'.gen.modseq # modCtr'
        PROVE  Truth'
    <3>1. Dirty' \/ index'.gen.modseq # modCtr'
      BY <2>5 DEF Dirty
    <3> QED BY <2>3, <2>5, <3>1 DEF Truth
  <2>6. CASE Starts(s)
    BY <2>4, <2>6 DEF Starts, Scanning
  <2>7. CASE Advances(s)
    <3>1. pc[s] = "list" => scanned'[s] = NoMsgs
      BY <2>1, <2>7 DEF Advances, Shape, Scanning
    <3> QED BY <2>4, <2>7, <3>1 DEF Advances, Scanning
  <2>8. ASSUME NEW refs, NEW n, Opens(s, refs, n) PROVE Truth'
    <3>1. pc'[s] = "idle"
      BY <1>0, <2>8, OpenedFacts
    <3>2. Calm \/ pc[s] = "build" => TrueRefs(refs)
      BY <2>1, <2>8, OpensTrue
    <3>3. UNCHANGED <<eml, uidFile, flagFile, modFile, modCtr, arrival>> /\ index'.recs = refs
      BY <2>8 DEF Opens
    <3>4. Calm' => TrueRefs(index.recs)'
      BY <2>2, <3>2, <3>3 DEF TrueRefs, TrueRef
    <3>5. \A t \in Sessions : pc'[t] \notin Scanning
      BY <2>3, <3>1 DEF Scanning
    <3> QED BY <3>4, <3>5 DEF Truth
  <2>9. ASSUME NEW i \in DOMAIN snap[s], Stores(s, i) PROVE Truth'
    BY <2>4, <2>9 DEF Stores, Scanning
  <2>10. CASE Flagging(s)
    BY <2>5, <2>10 DEF Flagging, Scanning
  <2>11. CASE Counts(s)
    BY <2>5, <2>11 DEF Counts, Scanning
  <2>12. CASE Bumps(s)
    <3>1. index' = index /\ modCtr' = modCtr + 1 /\ pc'[s] \in {"stamp", "log"} /\ index.gen.modseq <= modCtr
      BY <1>0, <2>12 DEF Bumps, Mods
    <3>2. index'.gen.modseq # modCtr'
      BY <1>0, <3>1
    <3> QED BY <2>5, <3>1, <3>2 DEF Scanning
  <2>13. CASE Stamps(s) \/ Records(s)
    <3>1. UNCHANGED <<index, modCtr>> /\ pc'[s] \in {"out", "idle"} /\ pc[s] \in {"stamp", "log"}
      BY <2>13 DEF Stamps, Records
    <3>2. index.gen.modseq < modCtr
      BY <1>0, <3>1 DEF Mods
    <3>3. index'.gen.modseq # modCtr'
      BY <1>0, <3>1, <3>2
    <3> QED BY <2>5, <3>1, <3>3 DEF Scanning
  <2>14. CASE Dooms(s)
    BY <2>5, <2>14 DEF Dooms, Scanning
  <2>15. ASSUME NEW i \in Msgs, Removes(s, i) PROVE Truth'
    BY <2>5, <2>15 DEF Removes, Scanning
  <2>16. ASSUME NEW i \in op[s].ids, NEW uid \in Nat, NEW ctr \in Nat, NEW w \in {"scan", "uidnext", "build"},
                Scans(s, i, uid, ctr, w)
         PROVE  Truth'
    <3> DEFINE ref == [uid |-> uid, flags |-> flagFile[i], modseq |-> modFile[i]]
    <3>1. /\ pc[s] = "scan" /\ UNCHANGED <<eml, flagFile, modFile, modCtr, index, arrival>> /\ i \in Msgs
          /\ uidFile'[i] = uid /\ (\A j \in Msgs : j # i => uidFile'[j] = uidFile[j]) /\ (uidFile[i] # 0 => uid = uidFile[i])
          /\ pc'[s] = w /\ scanned'[s] = With(scanned[s], i, ref)
      BY <1>0, <2>16 DEF Scans, TypeOK
    <3>2. i \in eml /\ TrueRefs(scanned[s])
      BY <1>0, <3>1 DEF Uids, Lists, Truth, Scanning
    <3>3. /\ DOMAIN scanned'[s] = DOMAIN scanned[s] \cup {i} /\ scanned'[s][i] = ref
          /\ \A j \in DOMAIN scanned[s] : j # i => scanned'[s][j] = scanned[s][j]
      BY <3>1 DEF With
    <3>4. \A j \in eml : j # i => uidFile'[j] = uidFile[j]
      BY <1>0, <3>1
    <3>5. TrueRefs(scanned[s])'
      <4>1. TrueRef(i, scanned[s][i])'
        BY <3>1, <3>2, <3>3 DEF TrueRef
      <4>2. ASSUME NEW j \in DOMAIN scanned[s], j # i PROVE TrueRef(j, scanned[s][j])'
        <5>1. TrueRef(j, scanned[s][j]) /\ scanned'[s][j] = scanned[s][j]
          BY <3>2, <3>3, <4>2 DEF TrueRefs
        <5> QED BY <3>1, <3>4, <4>2, <5>1 DEF TrueRef
      <4> QED BY <3>3, <4>1, <4>2 DEF TrueRefs
    <3>6. ASSUME Calm', index'.gen.modseq = modCtr', ~Dirty' PROVE TrueRefs(index.recs)'
      <4>1. ~Dirty
        BY <2>3, <3>1 DEF Dirty
      <4>2. TrueRefs(index.recs)
        BY <1>0, <2>2, <3>1, <3>6, <4>1 DEF Truth
      <4>3. ASSUME NEW j \in DOMAIN index.recs PROVE TrueRef(j, index.recs[j])'
        <5>1. TrueRef(j, index.recs[j]) /\ <<index.recs[j].uid, j>> \in named
          BY <1>0, <4>2 DEF TrueRefs, Known, NamesIn
        <5>2. index.recs[j].uid > 0
          BY <1>0, <5>1 DEF Uids, Names
        <5>3. uidFile'[j] = uidFile[j]
          <6>1. CASE j = i
            <7>1. uidFile[i] > 0 /\ uidFile[i] \in Nat
              BY <1>0, <3>1, <5>1, <5>2, <6>1 DEF TrueRef
            <7>2. uidFile[i] # 0
              BY <7>1
            <7> QED BY <3>1, <6>1, <7>2
          <6>2. CASE j # i
            BY <3>4, <5>1, <6>2 DEF TrueRef
          <6> QED BY <6>1, <6>2
        <5> QED BY <3>1, <5>1, <5>3 DEF TrueRef
      <4> QED BY <3>1, <4>3 DEF TrueRefs
    <3>7. \A t \in Sessions : pc'[t] \in Scanning => t = s
      BY <2>3
    <3> QED BY <3>5, <3>6, <3>7 DEF Truth
  <2> QED BY <2>1, <2>6, <2>7, <2>8, <2>9, <2>10, <2>11, <2>12, <2>13, <2>14, <2>15, <2>16 DEF Effect
<1> QED BY <1>1, <1>2, <1>3, <1>4 DEF Next

\* Every step keeps the names references carry.
LEMMA KnownStep ==
  ASSUME ~Overlap, Core, [Next]_vars
  PROVE  Known'
<1>0. /\ TypeOK /\ Shapes /\ Alone /\ Arrivals /\ Uids /\ Known /\ op \in [Sessions -> Op] /\ eml \subseteq Msgs
      /\ named \subseteq Nat \X Msgs
  BY DEF Core, TypeOK
<1>1. ASSUME UNCHANGED <<index, snap, scanned, op, named>>, \A i \in eml' : i \in eml \/ ~Arrived(i) PROVE Known'
  <2>1. NamesIn(index.recs)' /\ \A s \in Sessions : NamesIn(snap[s])' /\ NamesIn(scanned[s])'
    BY <1>0, <1>1 DEF Known, NamesIn
  <2>2. ASSUME NEW t \in Sessions, NEW i \in op[t].gone \ op[t].ids PROVE i \notin eml'
    <3>1. PICK u \in op[t].uids : <<u, i>> \in named
      BY <1>0 DEF Known
    <3>2. Arrived(i)
      BY <1>0, <3>1 DEF Uids, Names
    <3> QED BY <1>0, <1>1, <3>2 DEF Known
  <2> QED BY <1>0, <1>1, <2>1, <2>2 DEF Known
<1>2. ASSUME NEW i \in Msgs, Stage(i) \/ Publish(i) \/ WriteNewFlags(i) PROVE Known'
  <2>1. UNCHANGED <<index, snap, scanned, op, named>>
    BY <1>2 DEF Stage, Publish, WriteNewFlags, diskVars, sessVars
  <2>2. \A j \in eml' : j \in eml \/ ~Arrived(j)
    BY <1>2 DEF Stage, Publish, WriteNewFlags, diskVars, Arrived
  <2> QED BY <1>1, <2>1, <2>2
<1>3. CASE UNCHANGED vars
  BY <1>1, <1>3 DEF vars, diskVars, sessVars
<1>4. CASE Crash
  <2>1. UNCHANGED <<index, snap, named, eml>> /\ \A s \in Sessions : op'[s] = NoOp /\ scanned'[s] = NoMsgs
    BY <1>4 DEF Crash, diskVars
  <2>2. NoOp.gone = {} /\ DOMAIN NoMsgs = {}
    BY DEF NoOp, NoMsgs
  <2> QED BY <1>0, <2>1, <2>2 DEF Known, NamesIn
<1>5. ASSUME NEW s \in Sessions, Unselect(s) PROVE Known'
  <2>1. UNCHANGED <<index, snap, scanned, op, named, eml>>
    BY <1>5 DEF Unselect, diskVars
  <2> QED BY <1>1, <2>1
<1>6. ASSUME NEW s \in Sessions, Step(s), ~Unselect(s) PROVE Known'
  <2>1. /\ Only(s) /\ Only(s)' /\ Effect(s) /\ Shape(s) /\ op[s] \in Op
        /\ \A t \in Sessions : t # s => snap'[t] = snap[t]
    BY <1>0, <1>6, OnlyStep, Effects DEF Shapes
  <2>2. eml' \subseteq eml
    BY <1>0, <1>6, StepOutside
  <2>3. \A t \in Sessions : t # s => op'[t].gone = {} /\ NamesIn(scanned[t])'
    BY <2>1 DEF Only, NoOp, NoMsgs, NamesIn
  <2>4. ASSUME named \subseteq named', NamesIn(index.recs)', NamesIn(snap[s])', NamesIn(scanned[s])',
               \A i \in op'[s].gone : \E u \in op'[s].uids : <<u, i>> \in named',
               \A i \in op'[s].gone \ op'[s].ids : i \notin eml'
        PROVE  Known'
    <3>1. \A t \in Sessions : NamesIn(snap[t])' /\ NamesIn(scanned[t])'
      BY <1>0, <2>1, <2>3, <2>4 DEF Known, NamesIn
    <3>2. \A t \in Sessions : /\ \A i \in op'[t].gone : \E u \in op'[t].uids : <<u, i>> \in named'
                              /\ \A i \in op'[t].gone \ op'[t].ids : i \notin eml'
      BY <2>3, <2>4
    <3> QED BY <2>4, <3>1, <3>2 DEF Known
  <2>5. NamesIn(index.recs) /\ NamesIn(snap[s]) /\ NamesIn(scanned[s])
    BY <1>0 DEF Known
  <2>6. ASSUME UNCHANGED <<index, named>>, scanned'[s] = scanned[s], op'[s].gone = {}, DOMAIN snap'[s] \subseteq DOMAIN snap[s],
               \A i \in DOMAIN snap'[s] : snap'[s][i].uid = snap[s][i].uid
        PROVE  Known'
    BY <2>4, <2>5, <2>6 DEF NamesIn
  <2>7. CASE Starts(s)
    BY <2>6, <2>7 DEF Starts, Kept, Views
  <2>8. CASE Advances(s)
    <3>1. op[s].gone = {}
      BY <2>1, <2>8 DEF Advances, Shape, Opening
    <3> QED BY <2>6, <2>8, <3>1 DEF Advances, Kept, Views
  <2>9. ASSUME NEW refs, NEW n, Opens(s, refs, n) PROVE Known'
    <3>1. NamesIn(refs)
      BY <2>1, <2>9, OpensTrue
    <3>2. /\ op'[s] = NoOp /\ DOMAIN snap'[s] = DOMAIN refs /\ \A i \in DOMAIN refs : snap'[s][i].uid = refs[i].uid
      BY <1>0, <2>9, OpenedFacts
    <3>3. named' = named /\ index'.recs = refs /\ scanned'[s] = NoMsgs
      BY <2>9 DEF Opens
    <3>4. op'[s].gone = {} /\ NamesIn(scanned[s])'
      BY <3>2, <3>3 DEF NoOp, NoMsgs, NamesIn
    <3>5. NamesIn(snap[s])' /\ NamesIn(index.recs)'
      BY <3>1, <3>2, <3>3 DEF NamesIn
    <3> QED BY <2>4, <3>3, <3>4, <3>5
  <2>10. ASSUME NEW i \in DOMAIN snap[s], Stores(s, i) PROVE Known'
    <3>1. DOMAIN snap'[s] = DOMAIN snap[s] /\ \A j \in DOMAIN snap[s] : snap'[s][j].uid = snap[s][j].uid
      BY <2>10 DEF Stores
    <3> QED BY <2>6, <2>10, <3>1 DEF Stores, Kept
  <2>11. CASE Flagging(s)
    <3>1. op[s].gone = {}
      BY <2>1, <2>11 DEF Flagging, Shape
    <3> QED BY <2>6, <2>11, <3>1 DEF Flagging, Views
  <2>12. CASE Counts(s) \/ Bumps(s)
    <3>1. /\ UNCHANGED <<index, named>> /\ Views(s) /\ scanned'[s] = scanned[s] /\ op'[s].gone = op[s].gone
          /\ op'[s].ids = op[s].ids /\ op'[s].uids = op[s].uids
      BY <2>12 DEF Counts, Bumps, Kept
    <3>2. NamesIn(index.recs)' /\ NamesIn(snap[s])' /\ NamesIn(scanned[s])'
      BY <2>5, <3>1 DEF NamesIn, Views
    <3> QED BY <1>0, <2>2, <2>4, <3>1, <3>2 DEF Known
  <2>13. CASE Stamps(s)
    BY <2>6, <2>13 DEF Stamps, NoOp
  <2>14. CASE Records(s)
    BY <2>6, <2>14 DEF Records, Views, NoOp
  <2>15. CASE Dooms(s)
    <3>1. UNCHANGED <<index, named>> /\ Views(s) /\ scanned'[s] = scanned[s]
      BY <2>15 DEF Dooms, Kept
    <3>2. NamesIn(index.recs)' /\ NamesIn(snap[s])' /\ NamesIn(scanned[s])'
      BY <2>5, <3>1 DEF NamesIn, Views
    <3>3. \A i \in op'[s].gone : \E u \in op'[s].uids : <<u, i>> \in named'
      BY <2>5, <2>15, <3>1 DEF Dooms, NamesIn
    <3>4. op'[s].gone \ op'[s].ids = {}
      BY <2>15 DEF Dooms
    <3> QED BY <2>4, <3>1, <3>2, <3>3, <3>4
  <2>16. ASSUME NEW i \in Msgs, Removes(s, i) PROVE Known'
    <3>1. /\ UNCHANGED <<index, named>> /\ scanned'[s] = scanned[s] /\ op'[s].gone = op[s].gone
          /\ op'[s].ids = op[s].ids \ {i} /\ op'[s].uids = op[s].uids /\ eml' = eml \ {i}
      BY <2>16 DEF Removes
    <3>2. \A j \in DOMAIN snap'[s] : j \in DOMAIN snap[s] /\ snap'[s][j] = snap[s][j]
      BY <2>16 DEF Removes, Without
    <3>3. NamesIn(index.recs)' /\ NamesIn(snap[s])' /\ NamesIn(scanned[s])'
      BY <2>5, <3>1, <3>2 DEF NamesIn
    <3> QED BY <1>0, <2>4, <3>1, <3>3 DEF Known
  <2>17. ASSUME NEW i \in op[s].ids, NEW uid \in Nat, NEW ctr \in Nat, NEW w \in {"scan", "uidnext", "build"},
                Scans(s, i, uid, ctr, w)
         PROVE  Known'
    <3> DEFINE ref == [uid |-> uid, flags |-> flagFile[i], modseq |-> modFile[i]]
    <3>1. /\ pc[s] = "scan" /\ UNCHANGED <<index, snap>> /\ named' = named \cup {<<uid, i>>}
          /\ scanned'[s] = With(scanned[s], i, ref) /\ op'[s] = [op[s] EXCEPT !.ids = op[s].ids \ {i}, !.ctr = ctr]
      BY <1>0, <2>17 DEF Scans, TypeOK
    <3>2. op'[s].gone = {}
      BY <2>1, <3>1 DEF Op, Shape, Opening
    <3>3. /\ DOMAIN scanned'[s] = DOMAIN scanned[s] \cup {i} /\ scanned'[s][i] = ref
          /\ \A j \in DOMAIN scanned[s] : j # i => scanned'[s][j] = scanned[s][j]
      BY <3>1 DEF With
    <3>4. NamesIn(index.recs)' /\ NamesIn(snap[s])' /\ NamesIn(scanned[s])'
      BY <2>5, <3>1, <3>3 DEF NamesIn
    <3> QED BY <2>4, <3>1, <3>2, <3>4
  <2> QED BY <2>1, <2>7, <2>8, <2>9, <2>10, <2>11, <2>12, <2>13, <2>14, <2>15, <2>16, <2>17 DEF Effect
<1> QED BY <1>2, <1>3, <1>4, <1>5, <1>6 DEF Next

\* Together.
LEMMA CoreStep ==
  ASSUME ~Overlap, Core, [Next]_vars
  PROVE  Core'
BY TypesStep, AloneStep, ArrivalsStep, UidsStep, ModsStep, TruthStep, KnownStep DEF Core

\* A new mailbox has them all.
LEMMA CoreInit ==
  ASSUME Init PROVE Core
<1>1. TypeOK /\ Shapes
  BY TypesInit
<1>2. \A s \in Sessions : pc[s] = "out" /\ op[s] = NoOp /\ snap[s] = NoMsgs /\ scanned[s] = NoMsgs /\ high[s] = 0
  BY DEF Init
<1>3. \A i \in Msgs : arrival[i].at = "none" /\ arrival[i].by = "deliver" /\ uidFile[i] = 0 /\ modFile[i] = 1
  BY DEF Init
<1>4. eml = {} /\ named = {} /\ modCtr = 1 /\ index.gen.modseq = 0 /\ index.recs = NoMsgs
  BY DEF Init
<1>5. NoOp.gone = {} /\ DOMAIN NoMsgs = {}
  BY DEF NoOp, NoMsgs
<1>6. Alone /\ Arrivals /\ Uids
  BY <1>2, <1>3, <1>4 DEF Alone, Busy, Arrivals, Uids, Names, Lists, Counter, Unique, Covered
<1>7. Mods
  BY <1>2, <1>3, <1>4 DEF Mods, Opening
<1>8. Truth /\ Known
  BY <1>2, <1>4, <1>5 DEF Truth, TrueRefs, Scanning, Known, NamesIn
<1> QED BY <1>1, <1>6, <1>7, <1>8 DEF Core

\* While nothing is under way and nothing crashed, an index the next open
\* would accept says what a scan would (imap/index/mod.rs, load).
THEOREM IndexIsSound == ASSUME ~Overlap PROVE Spec => []IndexSound
<1>1. Core => IndexSound
  <2> SUFFICES ASSUME Core, Accepted, spent.crashes = 0
               PROVE  /\ DOMAIN index.recs = eml
                      /\ \A i \in eml : /\ index.recs[i].uid = uidFile[i]
                                        /\ index.recs[i].modseq = modFile[i]
                                        /\ arrival[i].flags = {} => index.recs[i].flags = flagFile[i]
    BY DEF IndexSound
  <2>1. index.gen.modseq = modCtr /\ Cardinality(DOMAIN index.recs) = Cardinality(eml) /\ ~Dirty
    BY DEF Accepted, IndexAccepts, Quiet, Busy, Dirty
  <2>2. TrueRefs(index.recs)
    BY <2>1 DEF Core, Truth, Calm
  <2>3. DOMAIN index.recs \in SUBSET eml
    BY <2>2 DEF TrueRefs, TrueRef
  <2>4. IsFiniteSet(eml)
    BY MsgSets DEF Core, TypeOK
  <2>5. DOMAIN index.recs = eml
    BY <2>1, <2>3, <2>4, FS_Subset
  <2> QED BY <2>2, <2>5 DEF TrueRefs, TrueRef
<1>2. Core /\ [Next]_vars => Core'
  BY CoreStep
<1> QED BY <1>1, <1>2, CoreInit, PTL DEF Spec

(***************************************************************************)
(* What a client that comes back can learn.                                *)
(***************************************************************************)
\* The removal that unlinked i will journal it; the STORE on i will stamp it.
Vanishing(i) == \E t \in Sessions : i \in op[t].gone \ op[t].ids
Changing(i)  == \E t \in Sessions : /\ pc[t] \in {"read", "bump", "stamp"} /\ op[t].kind = "store"
                                    /\ i \in op[t].ids

\* What client s knows of message i is as it was, or shows since high[s], or
\* is about to.
Learns(s, i) ==
  /\ i \notin eml => Vanishing(i) \/ \E v \in journal : v[1] = snap[s][i].uid /\ v[2] > high[s]
  /\ i \in eml /\ arrival[i].flags = {} /\ flagFile[i] # snap[s][i].flags => Changing(i) \/ modFile[i] > high[s]
Missed == \A s \in Sessions : \A i \in DOMAIN snap[s] : Learns(s, i)

\* Every message a session knows has arrived, and is one.
LEMMA KnownArrived ==
  ASSUME Core, NEW s \in Sessions, NEW i \in DOMAIN snap[s]
  PROVE  i \in Msgs /\ Arrived(i) /\ <<snap[s][i].uid, i>> \in named
<1>1. <<snap[s][i].uid, i>> \in named
  BY DEF Core, Known, NamesIn
<1>2. Arrived(i)
  BY <1>1 DEF Core, Uids, Names
<1> QED BY <1>1, <1>2 DEF Core, TypeOK

\* The end of an open: the snapshot is true, or keeps flags the client may
\* still learn of.
LEMMA LearnsOpened ==
  ASSUME Core, Calm, Missed, NEW s \in Sessions, Only(s), NEW refs, NEW n, Opens(s, refs, n),
         NEW i \in DOMAIN snap'[s]
  PROVE  Learns(s, i)'
<1>0. TypeOK /\ Shape(s) /\ IsSnapshot(refs) /\ IsSnapshot(snap[s]) /\ pc[s] \in {"count", "build"}
  BY DEF Core, TypeOK, Shapes, Opens
<1>1. TrueRefs(refs) /\ NamesIn(refs)
  BY OpensTrue
<1>2. /\ DOMAIN snap'[s] = DOMAIN refs
      /\ (op[s].report => snap'[s] = refs) /\ (~op[s].report => snap'[s] = KeepFlagsOf(refs, snap[s]))
      /\ op[s].kind # "select" => high'[s] = high[s]
  BY <1>0, OpenedFacts
<1>3. UNCHANGED <<eml, uidFile, flagFile, modFile, journal, arrival>>
  BY DEF Opens
<1>4. i \in DOMAIN refs /\ TrueRef(i, refs[i]) /\ <<refs[i].uid, i>> \in named
  BY <1>1, <1>2 DEF TrueRefs, NamesIn
<1>5. i \in eml
  BY <1>4 DEF TrueRef
<1>6. CASE op[s].report
  BY <1>2, <1>3, <1>4, <1>5, <1>6 DEF Learns, TrueRef
<1>7. CASE ~op[s].report
  <2> DEFINE told == {j \in DOMAIN snap[s] : snap[s][j].uid = refs[i].uid}
  <2>1. snap'[s][i] = IF told = {} THEN refs[i]
                      ELSE [refs[i] EXCEPT !.flags = snap[s][Max(told)].flags, !.modseq = snap[s][Max(told)].modseq]
    BY <1>2, <1>4, <1>7 DEF KeepFlagsOf
  <2>2. op[s].kind # "select" /\ high'[s] = high[s]
    BY <1>0, <1>2, <1>7 DEF Shape
  <2>3. told \subseteq {i}
    <3> SUFFICES ASSUME NEW j \in told PROVE j = i
      OBVIOUS
    <3>1. <<snap[s][j].uid, j>> \in named /\ snap[s][j].uid = refs[i].uid
      BY KnownArrived
    <3> QED BY <1>4, <3>1 DEF Core, Uids, Unique
  <2>4. CASE told = {}
    BY <1>3, <1>4, <1>5, <2>1, <2>4 DEF Learns, TrueRef
  <2>5. CASE told # {}
    <3>1. told = {i} /\ i \in DOMAIN snap[s]
      BY <2>3, <2>5
    <3>2. Max(told) = i
      <4>1. i \in Nat
        BY <1>0, <1>5, MsgSets DEF TypeOK
      <4>2. i >= i
        BY <4>1
      <4>3. Max({i}) = i
        BY <4>2 DEF Max
      <4> QED BY <3>1, <4>3
    <3>3. refs[i] \in Ref
      BY <1>0, <1>4 DEF IsSnapshot
    <3>4. snap'[s][i].flags = snap[s][i].flags
      <4> HIDE DEF told
      <4> QED BY <2>1, <2>5, <3>2, <3>3 DEF Ref
    <3>5. ~Changing(i)
      BY <1>0 DEF Changing, Only, NoOp
    <3>6. Learns(s, i)
      BY <3>1 DEF Missed
    <3> QED BY <1>3, <1>5, <2>2, <3>4, <3>5, <3>6 DEF Learns
  <2> QED BY <2>4, <2>5
<1> QED BY <1>6, <1>7

\* Until a crash, nothing a client could miss is lost.
LEMMA MissedStep ==
  ASSUME ~Overlap, Core, Calm => Missed, [Next]_vars, Calm'
  PROVE  Missed'
<1>0. /\ TypeOK /\ Shapes /\ Alone /\ Arrivals /\ Uids /\ Mods /\ Known /\ op \in [Sessions -> Op] /\ eml \subseteq Msgs
      /\ modCtr \in Nat /\ high \in [Sessions -> Nat]
  BY DEF Core, TypeOK
<1>1. ~Crash
  BY <1>0, CrashNotCalm
<1>2. ASSUME NEW i \in Msgs, Stage(i) \/ Publish(i) \/ WriteNewFlags(i) PROVE Missed'
  <2>1. Steady
    BY <1>0, <1>2, ArrivalsSteady
  <2>2. UNCHANGED <<sessVars, journal, spent, modFile>>
    BY <1>2 DEF Stage, Publish, WriteNewFlags, diskVars
  <2>3. Missed
    BY <2>2 DEF Calm
  <2>4. eml \subseteq eml' /\ \A j \in eml' : j \in eml \/ ~Arrived(j)
    BY <1>2 DEF Stage, Publish, WriteNewFlags, diskVars, Arrived
  <2>5. UNCHANGED <<pc, op, snap, high>>
    BY <2>2 DEF sessVars
  <2>6. ASSUME NEW s \in Sessions, NEW j \in DOMAIN snap[s] PROVE Learns(s, j)'
    <3>1. Arrived(j)
      BY KnownArrived
    <3>2. j \in eml' <=> j \in eml
      BY <2>4, <3>1
    <3>3. Learns(s, j)
      BY <2>3 DEF Missed
    <3>4. j \in eml /\ arrival'[j].flags = {} => arrival[j].flags = {} /\ flagFile'[j] = flagFile[j]
      BY <2>1 DEF Steady
    <3>5. Vanishing(j)' = Vanishing(j) /\ Changing(j)' = Changing(j)
      BY <2>5 DEF Vanishing, Changing
    <3> QED BY <2>2, <2>5, <3>2, <3>3, <3>4, <3>5 DEF Learns
  <2> QED BY <2>5, <2>6 DEF Missed
<1>3. ASSUME UNCHANGED <<diskVars, arrival, spent, op, snap, high>>,
             \A t \in Sessions : pc'[t] = pc[t] \/ (pc[t] = "idle" /\ pc'[t] = "out")
      PROVE  Missed'
  <2>1. Missed
    BY <1>3 DEF Calm
  <2>2. ASSUME NEW j PROVE Vanishing(j)' = Vanishing(j) /\ Changing(j)' = Changing(j)
    BY <1>3 DEF Vanishing, Changing
  <2>3. ASSUME NEW s \in Sessions, NEW j \in DOMAIN snap[s] PROVE Learns(s, j)'
    <3>1. Learns(s, j)
      BY <2>1 DEF Missed
    <3> QED BY <1>3, <2>2, <3>1 DEF Learns, diskVars
  <2> QED BY <1>3, <2>3 DEF Missed
<1>4. CASE UNCHANGED vars
  BY <1>3, <1>4 DEF vars, sessVars
<1>5. ASSUME NEW s \in Sessions, Unselect(s) PROVE Missed'
  <2>1. UNCHANGED <<diskVars, arrival, spent, op, snap, high>> /\ \A t \in Sessions : pc'[t] = pc[t] \/ (pc[t] = "idle" /\ pc'[t] = "out")
    BY <1>0, <1>5 DEF Unselect, Goto, TypeOK
  <2> QED BY <1>3, <2>1
<1>6. ASSUME NEW s \in Sessions, Step(s), ~Unselect(s) PROVE Missed'
  <2>1. /\ Only(s) /\ Only(s)' /\ Effect(s) /\ Shape(s) /\ op[s] \in Op
        /\ \A t \in Sessions : t # s => snap'[t] = snap[t] /\ high'[t] = high[t]
    BY <1>0, <1>6, OnlyStep, Effects DEF Shapes
  <2>2. Calm /\ Missed /\ arrival' = arrival
    BY <1>0, <1>6, StepOutside DEF Calm
  <2>3. \A t \in Sessions : t # s => /\ op[t].gone = {} /\ op'[t].gone = {} /\ op[t].kind = "none" /\ op'[t].kind = "none"
    BY <2>1 DEF Only, NoOp
  \* Vanishing and Changing are about s alone.
  <2>4. ASSUME NEW j
        PROVE  /\ Vanishing(j) <=> j \in op[s].gone \ op[s].ids
               /\ Vanishing(j)' <=> j \in op'[s].gone \ op'[s].ids
               /\ Changing(j) <=> pc[s] \in {"read", "bump", "stamp"} /\ op[s].kind = "store" /\ j \in op[s].ids
               /\ Changing(j)' <=> pc'[s] \in {"read", "bump", "stamp"} /\ op'[s].kind = "store" /\ j \in op'[s].ids
    BY <2>3 DEF Vanishing, Changing
  \* Steps that touch neither files nor the journal, nor snapshots.
  <2>5. ASSUME UNCHANGED <<eml, flagFile, modFile, journal>>, snap'[s] = snap[s], high'[s] = high[s],
               \A j \in Msgs : (Vanishing(j) => Vanishing(j)') /\ (Changing(j) => Changing(j)')
        PROVE  Missed'
    <3>1. ASSUME NEW t \in Sessions, NEW j \in DOMAIN snap[t] PROVE Learns(t, j)'
      <4>1. j \in Msgs /\ Learns(t, j)
        BY <2>2, KnownArrived DEF Missed
      <4>2. snap'[t] = snap[t] /\ high'[t] = high[t]
        BY <2>1, <2>5
      <4> QED BY <2>2, <2>5, <4>1, <4>2 DEF Learns
    <3>2. \A t \in Sessions : snap'[t] = snap[t]
      BY <2>1, <2>5
    <3> QED BY <3>1, <3>2 DEF Missed
  <2>6. CASE Starts(s)
    <3>1. op[s] = NoOp
      BY <2>1, <2>6 DEF Starts, Shape
    <3>2. \A j \in Msgs : ~Vanishing(j) /\ ~Changing(j)
      BY <2>4, <3>1 DEF NoOp
    <3> QED BY <2>5, <2>6, <3>2 DEF Starts, Kept, Views
  <2>7. CASE Advances(s)
    <3>1. op[s].gone = {} /\ op[s].kind # "store"
      BY <2>1, <2>7 DEF Advances, Shape, Opening
    <3>2. \A j \in Msgs : ~Vanishing(j) /\ ~Changing(j)
      BY <2>4, <3>1
    <3> QED BY <2>5, <2>7, <3>2 DEF Advances, Kept, Views
  <2>8. ASSUME NEW refs, NEW n, Opens(s, refs, n) PROVE Missed'
    <3>1. \A j \in DOMAIN snap'[s] : Learns(s, j)'
      BY <2>1, <2>2, <2>8, LearnsOpened
    <3>2. UNCHANGED <<eml, flagFile, modFile, journal>> /\ pc[s] \in {"count", "build"}
      BY <2>8 DEF Opens
    <3>3. op[s].gone = {} /\ op[s].kind # "store"
      BY <2>1, <3>2 DEF Shape, Opening
    <3>4. ASSUME NEW t \in Sessions, t # s, NEW j \in DOMAIN snap[t] PROVE Learns(t, j)'
      <4>1. Learns(t, j) /\ snap'[t] = snap[t] /\ high'[t] = high[t]
        BY <2>1, <2>2, <3>4 DEF Missed
      <4>2. ~Vanishing(j) /\ ~Changing(j)
        BY <2>4, <3>3
      <4> QED BY <2>2, <3>2, <4>1, <4>2 DEF Learns
    <3> QED BY <2>1, <3>1, <3>4 DEF Missed
  <2>9. ASSUME NEW i \in DOMAIN snap[s], Stores(s, i) PROVE Missed'
    <3>1. op[s] = NoOp
      BY <2>1, <2>9 DEF Stores, Shape
    <3>2. ASSUME NEW j PROVE ~Vanishing(j) /\ ~Changing(j)
      BY <2>4, <3>1 DEF NoOp
    <3>3. UNCHANGED <<eml, flagFile, modFile, journal>> /\ high'[s] = high[s] /\ DOMAIN snap'[s] = DOMAIN snap[s]
      BY <2>9 DEF Stores, Kept
    <3>4. ASSUME NEW t \in Sessions, NEW j \in DOMAIN snap[t] PROVE Learns(t, j)'
      <4>1. Learns(t, j) /\ high'[t] = high[t]
        BY <2>1, <2>2, <3>3 DEF Missed
      <4>2. CASE t = s /\ j = i
        BY <2>2, <2>9, <3>3, <4>2 DEF Learns, Stores
      <4>3. CASE t # s \/ j # i
        <5>1. snap'[t][j] = snap[t][j]
          BY <2>1, <2>9, <4>3 DEF Stores
        <5> QED BY <2>2, <3>2, <3>3, <4>1, <5>1 DEF Learns
      <4> QED BY <4>2, <4>3
    <3>5. \A t \in Sessions : DOMAIN snap'[t] = DOMAIN snap[t]
      BY <2>1, <3>3
    <3> QED BY <3>4, <3>5 DEF Missed
  <2>10. CASE Flagging(s)
    <3>1. /\ UNCHANGED <<eml, modFile, journal>> /\ Views(s) /\ pc[s] = "flags" /\ pc'[s] = "read" /\ op'[s] = op[s]
          /\ op[s].kind = "store" /\ op[s].gone = {} /\ \A i \in Msgs : i \notin op[s].ids => flagFile'[i] = flagFile[i]
      BY <2>1, <2>10 DEF Flagging, Shape
    <3>2. ASSUME NEW t \in Sessions, NEW j \in DOMAIN snap[t] PROVE Learns(t, j)'
      <4>1. Learns(t, j) /\ high'[t] = high[t] /\ snap'[t] = snap[t] /\ j \in Msgs
        BY <2>1, <2>2, <3>1, KnownArrived DEF Missed, Views
      <4>2. ~Vanishing(j) /\ ~Changing(j)
        BY <2>4, <3>1
      <4>3. CASE j \in op[s].ids
        <5>1. Changing(j)'
          BY <2>4, <3>1, <4>3
        <5> QED BY <3>1, <4>1, <4>2, <5>1 DEF Learns
      <4>4. CASE j \notin op[s].ids
        <5>1. flagFile'[j] = flagFile[j]
          BY <3>1, <4>1, <4>4
        <5> QED BY <2>2, <3>1, <4>1, <4>2, <5>1 DEF Learns
      <4> QED BY <4>3, <4>4
    <3>3. \A t \in Sessions : snap'[t] = snap[t]
      BY <2>1, <3>1 DEF Views
    <3> QED BY <3>2, <3>3 DEF Missed
  <2>11. CASE Counts(s)
    <3>1. /\ pc[s] = "read" /\ pc'[s] = "bump" /\ op'[s].kind = op[s].kind /\ op'[s].ids = op[s].ids
          /\ op'[s].gone = op[s].gone
      BY <2>11 DEF Counts
    <3>2. \A j \in Msgs : (Vanishing(j) => Vanishing(j)') /\ (Changing(j) => Changing(j)')
      BY <2>4, <3>1
    <3> QED BY <2>5, <2>11, <3>2 DEF Counts, Kept, Views
  <2>12. CASE Bumps(s)
    <3>1. op'[s] = op[s] /\ (op[s].kind = "store" => pc'[s] = "stamp")
      BY <2>12 DEF Bumps
    <3>2. \A j \in Msgs : (Vanishing(j) => Vanishing(j)') /\ (Changing(j) => Changing(j)')
      BY <2>4, <3>1
    <3> QED BY <2>5, <2>12, <3>2 DEF Bumps, Views
  <2>13. CASE Stamps(s)
    <3>1. /\ UNCHANGED <<eml, flagFile, journal>> /\ high'[s] = high[s] /\ pc[s] = "stamp"
          /\ (\A i \in Msgs : modFile'[i] = IF i \in op[s].ids THEN op[s].val ELSE modFile[i])
          /\ DOMAIN snap'[s] = DOMAIN snap[s]
          /\ \A i \in DOMAIN snap[s] : /\ snap'[s][i].uid = snap[s][i].uid
                                       /\ i \notin op[s].ids => snap'[s][i] = snap[s][i]
      BY <2>13 DEF Stamps
    <3>2. op[s].gone = {} /\ op[s].val = modCtr /\ \A t \in Sessions : high[t] < modCtr
      BY <1>0, <2>1, <3>1 DEF Shape, Mods
    <3>3. ASSUME NEW t \in Sessions, NEW j \in DOMAIN snap[t] PROVE Learns(t, j)'
      <4>1. Learns(t, j) /\ high'[t] = high[t] /\ j \in Msgs /\ snap'[t][j].uid = snap[t][j].uid
        BY <2>1, <2>2, <3>1, KnownArrived DEF Missed
      <4>2. ~Vanishing(j)
        BY <2>4, <3>2
      <4>3. CASE j \in op[s].ids
        <5>1. modFile'[j] > high'[t]
          BY <1>0, <3>1, <3>2, <4>1, <4>3
        <5> QED BY <3>1, <4>1, <4>2, <5>1 DEF Learns
      <4>4. CASE j \notin op[s].ids
        <5>1. ~Changing(j) /\ modFile'[j] = modFile[j] /\ snap'[t][j] = snap[t][j]
          BY <2>1, <2>4, <3>1, <4>1, <4>4
        <5> QED BY <2>2, <3>1, <4>1, <4>2, <5>1 DEF Learns
      <4> QED BY <4>3, <4>4
    <3>4. \A t \in Sessions : DOMAIN snap'[t] = DOMAIN snap[t]
      BY <2>1, <3>1
    <3> QED BY <3>3, <3>4 DEF Missed
  <2>14. CASE Dooms(s)
    <3>1. op[s] = NoOp
      BY <2>1, <2>14 DEF Dooms, Shape
    <3>2. \A j \in Msgs : ~Vanishing(j) /\ ~Changing(j)
      BY <2>4, <3>1 DEF NoOp
    <3> QED BY <2>5, <2>14, <3>2 DEF Dooms, Kept, Views
  <2>15. ASSUME NEW i \in Msgs, Removes(s, i) PROVE Missed'
    <3>1. /\ UNCHANGED <<modFile, journal>> /\ high'[s] = high[s] /\ i \in op[s].ids /\ eml' = eml \ {i}
          /\ (\A j \in Msgs : j # i => flagFile'[j] = flagFile[j]) /\ op'[s].ids = op[s].ids \ {i}
          /\ op'[s].gone = op[s].gone /\ pc[s] = "unlink"
      BY <2>15 DEF Removes
    <3>2. op[s].ids \subseteq op[s].gone /\ op[s].kind # "store"
      BY <2>1, <3>1 DEF Shape
    <3>3. \A j \in DOMAIN snap'[s] : j \in DOMAIN snap[s] /\ snap'[s][j] = snap[s][j]
      BY <2>15 DEF Removes, Without
    <3>4. ASSUME NEW t \in Sessions, NEW j \in DOMAIN snap'[t] PROVE Learns(t, j)'
      <4>1. j \in DOMAIN snap[t] /\ snap'[t][j] = snap[t][j] /\ high'[t] = high[t]
        BY <2>1, <3>1, <3>3, <3>4
      <4>2. Learns(t, j) /\ j \in Msgs
        BY <2>2, <4>1, KnownArrived DEF Missed
      <4>3. ~Changing(j) /\ (Vanishing(j) => Vanishing(j)')
        BY <2>4, <3>1, <3>2
      <4>4. CASE j = i
        <5>1. Vanishing(j)' /\ j \notin eml'
          BY <2>4, <3>1, <3>2, <4>4
        <5> QED BY <5>1 DEF Learns
      <4>5. CASE j # i
        <5>1. flagFile'[j] = flagFile[j] /\ (j \in eml' <=> j \in eml)
          BY <3>1, <4>2, <4>5
        <5> QED BY <2>2, <3>1, <4>1, <4>2, <4>3, <5>1 DEF Learns
      <4> QED BY <4>4, <4>5
    <3> QED BY <3>4 DEF Missed
  <2>16. CASE Records(s)
    <3>1. /\ UNCHANGED <<eml, flagFile, modFile>> /\ Views(s) /\ pc[s] = "log"
          /\ journal' = journal \cup {<<u, op[s].val>> : u \in op[s].uids}
      BY <2>16 DEF Records
    <3>2. op[s].kind # "store" /\ op[s].val = modCtr /\ \A t \in Sessions : high[t] < modCtr
      BY <1>0, <2>1, <3>1 DEF Shape, Mods
    <3>3. ASSUME NEW t \in Sessions, NEW j \in DOMAIN snap[t] PROVE Learns(t, j)'
      <4>1. Learns(t, j) /\ high'[t] = high[t] /\ snap'[t] = snap[t] /\ <<snap[t][j].uid, j>> \in named
        BY <2>1, <2>2, <3>1, KnownArrived DEF Missed, Views
      <4>2. ~Changing(j)
        BY <2>4, <3>2
      <4>3. CASE Vanishing(j)
        <5>1. PICK u \in op[s].uids : <<u, j>> \in named
          BY <1>0, <2>4, <4>3 DEF Known
        <5>2. u = snap[t][j].uid
          BY <1>0, <4>1, <5>1 DEF Uids, Names
        <5> DEFINE v == <<u, op[s].val>>
        <5>3. v \in journal' /\ v[1] = snap'[t][j].uid /\ v[2] = modCtr
          BY <3>1, <3>2, <4>1, <5>2
        <5>4. v[2] > high'[t]
          BY <1>0, <3>2, <4>1, <5>3
        <5> HIDE DEF v
        <5> QED BY <2>2, <3>1, <4>1, <4>2, <5>3, <5>4 DEF Learns
      <4>4. CASE ~Vanishing(j)
        BY <2>2, <3>1, <4>1, <4>2, <4>4 DEF Learns
      <4> QED BY <4>3, <4>4
    <3>4. \A t \in Sessions : snap'[t] = snap[t]
      BY <2>1, <3>1 DEF Views
    <3> QED BY <3>3, <3>4 DEF Missed
  <2>17. ASSUME NEW i \in op[s].ids, NEW uid \in Nat, NEW ctr \in Nat, NEW w \in {"scan", "uidnext", "build"},
                Scans(s, i, uid, ctr, w)
         PROVE  Missed'
    <3>1. pc[s] = "scan" /\ UNCHANGED <<eml, flagFile, modFile, journal, snap, high>>
      BY <2>17 DEF Scans
    <3>2. op[s].gone = {} /\ op[s].kind # "store"
      BY <2>1, <3>1 DEF Shape, Opening
    <3>3. \A j \in Msgs : ~Vanishing(j) /\ ~Changing(j)
      BY <2>4, <3>2
    <3> QED BY <2>5, <3>1, <3>3
  <2> QED BY <2>1, <2>6, <2>7, <2>8, <2>9, <2>10, <2>11, <2>12, <2>13, <2>14, <2>15, <2>16, <2>17 DEF Effect
<1> QED BY <1>1, <1>2, <1>4, <1>5, <1>6 DEF Next

\* Until a crash a client that comes back can learn all it missed: VANISHED
\* (EARLIER) and CHANGEDSINCE are complete (imap/vanished, imap/session).
THEOREM QresyncIsComplete == ASSUME ~Overlap PROVE Spec => []QresyncComplete
<1> DEFINE Inv == Core /\ (Calm => Missed)
<1>1. Init => Inv
  <2>1. Init => Missed
    BY DEF Init, Missed, NoMsgs
  <2> QED BY <2>1, CoreInit
<1>2. Inv /\ [Next]_vars => Inv'
  BY CoreStep, MissedStep
<1>3. Inv => QresyncComplete
  <2> SUFFICES ASSUME Core, Missed, Quiet, NEW s \in Sessions, NEW i \in DOMAIN snap[s]
               PROVE  /\ i \notin eml => \E v \in journal : v[1] = snap[s][i].uid /\ v[2] > high[s]
                      /\ i \in eml /\ arrival[i].flags = {} /\ flagFile[i] # snap[s][i].flags => modFile[i] > high[s]
    BY DEF QresyncComplete, Calm
  <2>1. \A t \in Sessions : op[t] = NoOp
    BY DEF Core, Shapes, Shape, Quiet, Busy
  <2>2. ~Vanishing(i) /\ ~Changing(i)
    BY <2>1 DEF Vanishing, Changing, NoOp
  <2>3. Learns(s, i)
    BY DEF Missed
  <2> QED BY <2>2, <2>3 DEF Learns
<1> QED BY <1>1, <1>2, <1>3, PTL DEF Spec

-----------------------------------------------------------------------------
(***************************************************************************)
(* The client's numbers.  SMTP deliveries arrive in the order of their     *)
(* ids, so a message still to come is above every message a session holds, *)
(* and so is one it has not read yet.                                      *)
(***************************************************************************)

AllDelivered == \A i \in Msgs : arrival[i].by = "deliver"

\* One delivery is under way at a time, and nothing after it has begun.
InOrder == \A i \in Msgs : arrival[i].at \in {"staged", "published"} =>
             \A j \in Msgs : i < j => arrival[j].at = "none"

\* The messages a later open may meet: there, or still to come.
Ahead == {x \in Msgs : x \in eml \/ ~Arrived(x)}

\* What is in F and not in D comes after all of D.
Fits(D, F) == \A k \in D : \A x \in F \ D : k < x

Numbered(s) ==
  /\ pc[s] \in Scanning => Fits(DOMAIN scanned[s] \cup op[s].ids, Ahead)
  /\ pc[s] # "out" /\ op[s].kind # "select" => /\ Fits(DOMAIN snap[s], Ahead)
                                               /\ view[s] = Ascending(DOMAIN snap[s])
Ordered == InOrder /\ \A s \in Sessions : Numbered(s)

\* A set that fits still fits when less may follow.
LEMMA FitsLess ==
  ASSUME NEW D, NEW F, NEW G, Fits(D, F), G \subseteq F
  PROVE  Fits(D, G)
BY DEF Fits

\* The messages there fit: what is still to come has a later id.
LEMMA FitsThere ==
  ASSUME TypeOK, Arrivals, InOrder
  PROVE  Fits(eml, Ahead)
<1> SUFFICES ASSUME NEW k \in eml, NEW x \in Ahead \ eml PROVE k < x
  BY DEF Fits
<1>1. k \in Nat /\ x \in Nat /\ k # x /\ k \in Msgs /\ x \in Msgs
  BY MsgSets DEF TypeOK, Ahead
<1>2. arrival[k].at # "none" /\ arrival[x].at \in {"none", "staged"}
  BY <1>1 DEF Arrivals, Ahead, Arrived, TypeOK, Arrival
<1>3. ~(x < k)
  BY <1>1, <1>2 DEF Arrivals, InOrder
<1> QED BY <1>1, <1>3

\* Nothing that was taken away, and nothing new, comes back before its time.
LEMMA AheadStep ==
  ASSUME TypeOK, Arrivals, [Next]_vars, ~Crash
  PROVE  Ahead' \subseteq Ahead
<1>1. ASSUME NEW i \in Msgs, Stage(i) \/ Publish(i) \/ WriteNewFlags(i) PROVE Ahead' \subseteq Ahead
  <2>1. \A j \in eml' : j \in eml \/ ~Arrived(j)
    BY <1>1 DEF Stage, Publish, WriteNewFlags, diskVars, Arrived
  <2>2. \A j \in Msgs : Arrived(j) => Arrived(j)'
    <3>1. arrival \in [Msgs -> Arrival]
      BY DEF TypeOK
    <3>2. CASE Stage(i)
      <4>1. arrival[i].at = "none" /\ \A j \in Msgs : j # i => arrival'[j] = arrival[j]
        BY <3>1, <3>2 DEF Stage
      <4> QED BY <4>1 DEF Arrived
    <3>3. CASE Publish(i) \/ WriteNewFlags(i)
      <4>1. arrival'[i].at \in {"published", "done"} /\ \A j \in Msgs : j # i => arrival'[j] = arrival[j]
        BY <3>1, <3>3 DEF Publish, WriteNewFlags, Arrival
      <4> QED BY <4>1 DEF Arrived
    <3> QED BY <1>1, <3>2, <3>3
  <2> QED BY <2>1, <2>2 DEF Ahead
<1>2. ASSUME NEW s \in Sessions, Step(s) PROVE Ahead' \subseteq Ahead
  BY <1>2, StepOutside DEF Ahead, Arrived
<1>3. CASE UNCHANGED vars
  BY <1>3 DEF vars, diskVars, Ahead, Arrived
<1> QED BY <1>1, <1>2, <1>3 DEF Next

\* Deliveries stay in order, and every message so far was delivered.
LEMMA InOrderStep ==
  ASSUME TypeOK, Arrivals, [Next]_vars, ~Crash, AllDelivered', AllDelivered => InOrder
  PROVE  AllDelivered /\ InOrder /\ InOrder'
<1>1. ASSUME arrival' = arrival PROVE AllDelivered /\ InOrder /\ InOrder'
  BY <1>1 DEF AllDelivered, InOrder
<1>2. ASSUME NEW i \in Msgs, Stage(i) PROVE AllDelivered /\ InOrder /\ InOrder'
  <2>1. PICK w \in Writers, f \in NewFlags :
          /\ w = "deliver" => \A j \in Msgs : arrival[j].by = "deliver" => arrival[j].at \in {"none", "done"}
          /\ arrival' = [arrival EXCEPT ![i] = [at |-> "staged", by |-> w, flags |-> f]]
    BY <1>2 DEF Stage
  <2>2. arrival[i].at = "none" /\ arrival \in [Msgs -> Arrival]
    BY <1>2 DEF Stage, TypeOK
  <2>3. arrival'[i].by = w /\ arrival'[i].at = "staged" /\ \A j \in Msgs : j # i => arrival'[j] = arrival[j]
    BY <2>1, <2>2
  <2>4. w = "deliver"
    BY <2>3 DEF AllDelivered
  <2>5. AllDelivered
    BY <2>2, <2>3 DEF AllDelivered, Arrivals
  <2>6. \A j \in Msgs : arrival[j].at \in {"none", "done"}
    BY <2>1, <2>4, <2>5 DEF AllDelivered
  <2>7. \A j \in Msgs : i < j => arrival[j].at = "none"
    BY <2>2 DEF Arrivals
  <2>8. \A j \in Msgs : i < j => j # i
    BY MsgSets
  <2>9. InOrder'
    BY <2>3, <2>6, <2>7, <2>8 DEF InOrder
  <2> QED BY <2>5, <2>9
<1>3. ASSUME NEW i \in Msgs, Publish(i) \/ WriteNewFlags(i) PROVE AllDelivered /\ InOrder /\ InOrder'
  <2>1. /\ \A j \in Msgs : arrival'[j].by = arrival[j].by /\ (arrival[j].at = "none" => arrival'[j].at = "none")
        /\ \A j \in Msgs : arrival'[j].at \in {"staged", "published"} => arrival[j].at \in {"staged", "published"}
    <3>1. arrival \in [Msgs -> Arrival] /\ arrival[i].at \in {"staged", "published"}
      BY <1>3 DEF Publish, WriteNewFlags, TypeOK
    <3>2. arrival'[i].by = arrival[i].by /\ \A j \in Msgs : j # i => arrival'[j] = arrival[j]
      BY <1>3, <3>1 DEF Publish, WriteNewFlags, Arrival
    <3> QED BY <3>1, <3>2
  <2> QED BY <2>1 DEF AllDelivered, InOrder
<1>4. ASSUME NEW s \in Sessions, Step(s) PROVE AllDelivered /\ InOrder /\ InOrder'
  BY <1>1, <1>4, StepOutside
<1>5. CASE UNCHANGED vars
  BY <1>1, <1>5 DEF vars
<1> QED BY <1>2, <1>3, <1>4, <1>5 DEF Next

\* The end of an open: what the client counts by the EXPUNGE and EXISTS lines
\* of changes() is the fresh snapshot in its order.
LEMMA NumberedOpened ==
  ASSUME Core, Calm, InOrder, NEW s \in Sessions, Numbered(s), Only(s), NEW refs, NEW n, Opens(s, refs, n)
  PROVE  Fits(DOMAIN snap'[s], Ahead') /\ view'[s] = Ascending(DOMAIN snap'[s])
<1>0. TypeOK /\ Arrivals /\ Shape(s) /\ IsSnapshot(refs) /\ IsSnapshot(snap[s]) /\ pc[s] \in {"count", "build"}
  BY DEF Core, TypeOK, Shapes, Opens
<1>1. TrueRefs(refs) /\ NamesIn(refs) /\ (pc[s] = "count" => DOMAIN refs = eml)
  BY OpensTrue
<1>2. /\ DOMAIN snap'[s] = DOMAIN refs /\ \A i \in DOMAIN refs : snap'[s][i].uid = refs[i].uid
      /\ op[s].kind = "select" => view'[s] = Ascending(DOMAIN snap'[s])
      /\ op[s].kind # "select" => view'[s] = Changes(view[s], snap[s], snap'[s])
  BY <1>0, OpenedFacts
<1>3. Ahead' = Ahead
  BY DEF Opens, Ahead, Arrived
<1>4. Fits(DOMAIN refs, Ahead)
  <2>1. CASE pc[s] = "count"
    BY <1>0, <1>1, <2>1, FitsThere
  <2>2. CASE pc[s] = "build"
    <3>1. refs = scanned[s] /\ op[s].ids = {}
      BY <1>0, <2>2 DEF Opens, Shape
    <3>2. DOMAIN scanned[s] \cup op[s].ids = DOMAIN refs
      BY <3>1
    <3> QED BY <2>2, <3>2 DEF Numbered, Scanning
  <2> QED BY <1>0, <2>1, <2>2
<1>5. view'[s] = Ascending(DOMAIN snap'[s])
  <2>1. CASE op[s].kind = "select"
    BY <1>2, <2>1
  <2>2. CASE op[s].kind # "select"
    <3> DEFINE K == DOMAIN snap[s]
               F == DOMAIN snap'[s]
    <3>1. Fits(K, Ahead) /\ view[s] = Ascending(K)
      BY <1>0, <2>2 DEF Numbered
    <3>2. K \subseteq Nat /\ IsFiniteSet(K) /\ F \subseteq Nat /\ IsFiniteSet(F)
      BY <1>0, <1>2, MsgSets DEF IsSnapshot
    <3>3. \A i \in K : <<snap[s][i].uid, i>> \in named
      BY KnownArrived
    <3>4. \A j \in F : <<snap'[s][j].uid, j>> \in named
      BY <1>1, <1>2 DEF NamesIn
    <3>5. ASSUME NEW i \in K
          PROVE  i \notin F <=> \A j \in F : snap'[s][j].uid # snap[s][i].uid
      <4>1. ASSUME i \in F PROVE snap'[s][i].uid = snap[s][i].uid
        BY <3>3, <3>4, <3>5, <4>1 DEF Core, Uids, Names
      <4>2. ASSUME NEW j \in F, snap'[s][j].uid = snap[s][i].uid PROVE j = i
        BY <3>3, <3>4, <3>5, <4>2 DEF Core, Uids, Unique
      <4> QED BY <4>1, <4>2
    <3>6. F \subseteq Ahead
      BY <1>0, <1>1, <1>2 DEF TrueRefs, TrueRef, Ahead, TypeOK
    <3>7. \A k \in K \cap F : \A x \in F \ K : k < x
      BY <3>1, <3>6 DEF Fits
    <3>8. Changes(Ascending(K), snap[s], snap'[s]) = Ascending(F)
      BY <3>2, <3>5, <3>7, ChangesAscending
    <3> QED BY <1>2, <2>2, <3>1, <3>8
  <2> QED BY <2>1, <2>2
<1> QED BY <1>2, <1>3, <1>4, <1>5

\* The end of a removal: the snapshot and the client's numbers lose the same
\* messages, and those are gone for good.
LEMMA NumberedRemoved ==
  ASSUME Core, Core', NEW s \in Sessions, Numbered(s), Ahead' \subseteq Ahead, NEW i \in Msgs, Removes(s, i)
  PROVE  Fits(DOMAIN snap'[s], Ahead') /\ view'[s] = Ascending(DOMAIN snap'[s])
<1>0. TypeOK /\ Shape(s) /\ IsSnapshot(snap[s]) /\ pc[s] = "unlink"
  BY DEF Core, TypeOK, Shapes, Removes
<1> DEFINE K == DOMAIN snap[s]
           G == op[s].gone
<1>1. Fits(K, Ahead) /\ view[s] = Ascending(K)
  BY <1>0 DEF Numbered, Shape
<1>2. CASE snap'[s] = snap[s] /\ view'[s] = view[s]
  BY <1>1, <1>2, FitsLess
<1>3. CASE /\ op'[s].ids = {} /\ snap'[s] = Without(snap[s], G)
           /\ view'[s] = Dropped(view[s], snap[s], G)
  <2>1. DOMAIN snap'[s] = K \ G
    BY <1>3 DEF Without
  <2>2. K \subseteq Nat /\ IsFiniteSet(K)
    BY <1>0, MsgSets DEF IsSnapshot
  <2>3. view'[s] = Ascending(K \ G)
    BY <1>1, <1>3, <2>2, DroppedAscending
  <2>4. \A x \in G : x \notin eml'
    BY <1>3 DEF Core, Known, Removes
  <2>5. \A x \in K : Arrived(x)'
    <3> SUFFICES ASSUME NEW x \in K PROVE Arrived(x)'
      OBVIOUS
    <3>1. Arrived(x) /\ arrival' = arrival
      BY KnownArrived DEF Removes
    <3> QED BY <3>1 DEF Arrived
  <2>6. \A x \in Ahead' \ (K \ G) : x \in Ahead \ K
    BY <2>4, <2>5 DEF Ahead
  <2> QED BY <1>1, <2>1, <2>3, <2>6 DEF Fits
<1> QED BY <1>2, <1>3 DEF Removes

\* Until a crash, and while all mail is delivered, numbers stay in order.
LEMMA OrderedStep ==
  ASSUME ~Overlap, Core, Core', Calm /\ AllDelivered => Ordered, [Next]_vars, Calm', AllDelivered'
  PROVE  Ordered'
<1>0. TypeOK /\ TypeOK' /\ Shapes /\ Shapes' /\ Alone /\ Arrivals
  BY DEF Core
<1>1. ~Crash
  BY <1>0, CrashNotCalm
<1>2. Calm
  <2>1. ASSUME NEW s \in Sessions, Step(s) PROVE Calm
    BY <1>0, <2>1, StepOutside DEF Calm
  <2>2. ASSUME NEW i \in Msgs, Stage(i) \/ Publish(i) \/ WriteNewFlags(i) PROVE Calm
    BY <2>2 DEF Stage, Publish, WriteNewFlags, Calm
  <2>3. CASE UNCHANGED vars
    BY <2>3 DEF vars, Calm
  <2> QED BY <1>1, <2>1, <2>2, <2>3 DEF Next
<1>3. AllDelivered /\ InOrder' /\ Ahead' \subseteq Ahead
  <2>1. AllDelivered => InOrder
    BY <1>2 DEF Ordered
  <2> QED BY <1>0, <1>1, <2>1, InOrderStep, AheadStep
<1>4. InOrder /\ \A s \in Sessions : Numbered(s)
  BY <1>2, <1>3 DEF Ordered
\* A session whose scan, snapshot and numbers stay keeps them in order.
<1>5. ASSUME NEW t \in Sessions, view'[t] = view[t], DOMAIN snap'[t] = DOMAIN snap[t],
             pc'[t] # "out" /\ op'[t].kind # "select" => pc[t] # "out" /\ op[t].kind # "select",
             pc'[t] \in Scanning => /\ pc[t] \in Scanning
                                    /\ DOMAIN scanned'[t] \cup op'[t].ids = DOMAIN scanned[t] \cup op[t].ids
      PROVE  Numbered(t)'
  <2>1. Numbered(t)
    BY <1>4
  <2>2. pc'[t] \in Scanning => Fits(DOMAIN scanned'[t] \cup op'[t].ids, Ahead')
    BY <1>3, <1>5, <2>1, FitsLess DEF Numbered
  <2>3. pc'[t] # "out" /\ op'[t].kind # "select" => Fits(DOMAIN snap'[t], Ahead') /\ view'[t] = Ascending(DOMAIN snap'[t])
    BY <1>3, <1>5, <2>1, FitsLess DEF Numbered
  <2> QED BY <2>2, <2>3 DEF Numbered
<1>6. ASSUME UNCHANGED <<op, scanned, snap, view>>, \A t \in Sessions : pc'[t] = pc[t] \/ pc'[t] = "out"
      PROVE  \A t \in Sessions : Numbered(t)'
  <2> SUFFICES ASSUME NEW t \in Sessions PROVE Numbered(t)'
    OBVIOUS
  <2>1. pc'[t] # "out" => pc'[t] = pc[t]
    BY <1>6
  <2>2. pc'[t] \in Scanning => pc'[t] = pc[t]
    BY <2>1 DEF Scanning
  <2> QED BY <1>5, <1>6, <2>1, <2>2
<1>7. ASSUME NEW i \in Msgs, Stage(i) \/ Publish(i) \/ WriteNewFlags(i) PROVE \A t \in Sessions : Numbered(t)'
  BY <1>6, <1>7 DEF Stage, Publish, WriteNewFlags, sessVars
<1>8. ASSUME UNCHANGED vars PROVE \A t \in Sessions : Numbered(t)'
  BY <1>6, <1>8 DEF vars, sessVars
<1>9. ASSUME NEW s \in Sessions, Unselect(s) PROVE \A t \in Sessions : Numbered(t)'
  <2>1. UNCHANGED <<op, scanned, snap, view>> /\ \A t \in Sessions : pc'[t] = pc[t] \/ pc'[t] = "out"
    BY <1>0, <1>9 DEF Unselect, Goto, TypeOK
  <2> QED BY <1>6, <2>1
<1>10. ASSUME NEW s \in Sessions, Step(s), ~Unselect(s) PROVE \A t \in Sessions : Numbered(t)'
  <2>1. /\ Only(s) /\ Only(s)' /\ Effect(s) /\ Shape(s) /\ Shape(s)' /\ op[s] \in Op /\ Numbered(s)
        /\ \A t \in Sessions : t # s => /\ snap'[t] = snap[t] /\ view'[t] = view[t] /\ pc'[t] = pc[t]
                                        /\ op'[t] = op[t] /\ scanned'[t] = scanned[t]
    BY <1>0, <1>4, <1>10, OnlyStep, Effects, StepLocal DEF Shapes, TypeOK
  <2>2. ASSUME NEW t \in Sessions, t # s PROVE Numbered(t)'
    BY <1>5, <2>1, <2>2
  <2>3. CASE Starts(s)
    <3>1. op[s].kind = "none" /\ pc'[s] \notin Scanning
      BY <2>1, <2>3 DEF Starts, Shape, NoOp, Scanning
    <3>2. pc'[s] # "out" /\ op'[s].kind # "select" => pc[s] # "out" /\ op[s].kind # "select"
      BY <2>3, <3>1 DEF Starts
    <3>3. Numbered(s)'
      BY <1>5, <2>3, <3>1, <3>2 DEF Starts, Views
    <3> QED BY <2>2, <3>3
  <2>4. CASE Advances(s)
    <3>1. view'[s] = view[s] /\ snap'[s] = snap[s] /\ op'[s].kind = op[s].kind /\ pc[s] # "out" /\ scanned'[s] = scanned[s]
      BY <2>4 DEF Advances, Views
    <3>2. CASE pc'[s] \notin Scanning
      <4>1. Numbered(s)'
        BY <1>5, <3>1, <3>2
      <4> QED BY <2>2, <4>1
    <3>3. CASE pc[s] = "uidnext" /\ op'[s] = op[s]
      <4>1. pc[s] \in Scanning /\ DOMAIN scanned'[s] \cup op'[s].ids = DOMAIN scanned[s] \cup op[s].ids
        BY <3>1, <3>3 DEF Scanning
      <4>2. Numbered(s)'
        BY <1>5, <3>1, <4>1
      <4> QED BY <2>2, <4>2
    <3>4. CASE pc[s] = "list" /\ op'[s].ids = eml
      <4>1. scanned'[s] = NoMsgs
        BY <2>1, <3>1, <3>4 DEF Shape, Scanning
      <4>2. DOMAIN scanned'[s] \cup op'[s].ids = eml
        BY <3>4, <4>1 DEF NoMsgs
      <4>3. Fits(DOMAIN scanned'[s] \cup op'[s].ids, Ahead')
        BY <1>0, <1>3, <1>4, <4>2, FitsThere, FitsLess
      <4>4. op'[s].kind # "select" => Fits(DOMAIN snap'[s], Ahead') /\ view'[s] = Ascending(DOMAIN snap'[s])
        BY <1>3, <2>1, <3>1, FitsLess DEF Numbered
      <4>5. Numbered(s)'
        BY <4>3, <4>4 DEF Numbered
      <4> QED BY <2>2, <4>5
    <3> QED BY <2>4, <3>2, <3>3, <3>4 DEF Advances, Scanning
  <2>5. ASSUME NEW refs, NEW n, Opens(s, refs, n) PROVE Numbered(s)'
    <3>1. Fits(DOMAIN snap'[s], Ahead') /\ view'[s] = Ascending(DOMAIN snap'[s])
      BY <1>2, <1>4, <2>1, <2>5, NumberedOpened
    <3>2. pc'[s] = "idle"
      BY <1>0, <2>5, OpenedFacts
    <3> QED BY <3>1, <3>2 DEF Numbered, Scanning
  <2>6. ASSUME NEW i \in DOMAIN snap[s], Stores(s, i) PROVE Numbered(s)'
    <3>1. op[s].kind = "none" /\ pc[s] = "idle" /\ pc'[s] \notin Scanning
      BY <2>1, <2>6 DEF Stores, Shape, NoOp, Scanning
    <3> QED BY <1>5, <2>6, <3>1 DEF Stores
  <2>7. CASE Flagging(s) \/ Counts(s) \/ Bumps(s)
    <3>1. /\ op'[s].kind = op[s].kind /\ pc[s] # "out" /\ pc'[s] \notin Scanning
          /\ view'[s] = view[s] /\ snap'[s] = snap[s]
      BY <2>7 DEF Flagging, Counts, Bumps, Views, Scanning
    <3>2. Numbered(s)'
      BY <1>5, <3>1
    <3> QED BY <2>2, <3>2
  <2>8. CASE Stamps(s) \/ Dooms(s) \/ Records(s)
    <3>1. /\ op[s].kind # "select" /\ pc[s] # "out" /\ pc'[s] \notin Scanning
          /\ view'[s] = view[s] /\ DOMAIN snap'[s] = DOMAIN snap[s]
      BY <2>1, <2>8 DEF Stamps, Dooms, Records, Views, Scanning, Shape, NoOp
    <3>2. Numbered(s)'
      BY <1>5, <3>1
    <3> QED BY <2>2, <3>2
  <2>9. ASSUME NEW i \in Msgs, Removes(s, i) PROVE Numbered(s)'
    <3>1. Fits(DOMAIN snap'[s], Ahead') /\ view'[s] = Ascending(DOMAIN snap'[s])
      BY <1>3, <2>1, <2>9, NumberedRemoved
    <3>2. pc'[s] \notin Scanning
      BY <2>9 DEF Removes, Scanning
    <3> QED BY <3>1, <3>2 DEF Numbered
  <2>10. ASSUME NEW i \in op[s].ids, NEW uid \in Nat, NEW ctr \in Nat, NEW w \in {"scan", "uidnext", "build"},
                Scans(s, i, uid, ctr, w)
         PROVE  Numbered(s)'
    <3>1. DOMAIN scanned'[s] = DOMAIN scanned[s] \cup {i} /\ op'[s].ids = op[s].ids \ {i} /\ op'[s].kind = op[s].kind
      BY <1>0, <2>1, <2>10 DEF Scans, With, TypeOK, Op
    <3>2. DOMAIN scanned'[s] \cup op'[s].ids = DOMAIN scanned[s] \cup op[s].ids
      BY <3>1
    <3>3. pc[s] = "scan" /\ snap' = snap /\ view' = view
      BY <2>10 DEF Scans
    <3> QED BY <1>5, <3>1, <3>2, <3>3 DEF Scanning
  <2> QED BY <2>1, <2>2, <2>3, <2>4, <2>5, <2>6, <2>7, <2>8, <2>9, <2>10 DEF Effect
<1> QED BY <1>1, <1>3, <1>7, <1>8, <1>9, <1>10 DEF Next, Ordered

\* Until a crash, for delivered mail, the numbers a client derives from the
\* EXPUNGE and EXISTS lines of sync.rs are the positions of the session's
\* snapshot.
THEOREM NumbersAreSound == ASSUME ~Overlap PROVE Spec => []NumbersSound
<1> DEFINE Inv == Core /\ (Calm /\ AllDelivered => Ordered)
<1>1. Init => Inv
  <2>1. Init => Ordered
    BY DEF Init, Ordered, InOrder, Numbered, Scanning
  <2> QED BY <2>1, CoreInit
<1>2. Inv /\ [Next]_vars => Inv'
  BY CoreStep, OrderedStep
<1>3. Inv => NumbersSound
  <2> SUFFICES ASSUME Core, Ordered, NEW s \in Sessions, pc[s] = "idle"
               PROVE  view[s] = Ascending(DOMAIN snap[s])
    BY DEF NumbersSound, ClientAgrees, Calm, AllDelivered
  <2>1. op[s].kind = "none"
    BY DEF Core, Shapes, Shape, NoOp
  <2> QED BY <2>1 DEF Ordered, Numbered
<1> QED BY <1>1, <1>2, <1>3, PTL DEF Spec
=============================================================================
