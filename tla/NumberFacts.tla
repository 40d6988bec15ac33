---------------------------- MODULE NumberFacts ----------------------------
(* Least and greatest elements of sets of natural numbers, induction over    *)
(* them, and the sums, sequences and texts of Arrangement.                   *)
EXTENDS Arrangement, FiniteSetTheorems, SequenceTheorems, WellFoundedInduction, TLAPS

\* A non-empty set of natural numbers has a least element.
LEMMA LeastExists ==
    ASSUME NEW S, S \subseteq Nat, S # {}
    PROVE  \E x \in S : \A y \in S : x <= y
<1> DEFINE R == {p \in Nat \X Nat : p[1] < p[2]}
<1>1. R = OpToRel(<, Nat)
  BY DEF OpToRel
<1>2. IsWellFoundedOn(R, Nat)
  BY <1>1, NatLessThanWellFounded
<1>3. ASSUME NEW x \in Nat, NEW y \in Nat, y < x
      PROVE  <<y, x>> \in R
  <2>1. <<y, x>> \in Nat \X Nat
    OBVIOUS
  <2>2. <<y, x>>[1] < <<y, x>>[2]
    BY <1>3
  <2> QED
    BY <2>1, <2>2, Zenon
<1> HIDE DEF R
<1>4. PICK x \in S : \A y \in S : <<y, x>> \notin R
  BY <1>2, WFMin
<1>5. \A y \in S : ~(y < x)
  BY <1>3, <1>4
<1> QED
  BY <1>5

\* A non-empty set of natural numbers with a bound has a greatest element.
LEMMA GreatestExists ==
    ASSUME NEW S, NEW n \in Nat, S \subseteq 0 .. n, S # {}
    PROVE  \E x \in S : \A y \in S : y <= x
<1> DEFINE T == {n - x : x \in S}
<1>1. T \subseteq Nat /\ T # {}
  <2>1. \A x \in S : n - x \in Nat
    OBVIOUS
  <2>2. PICK x \in S : TRUE
    OBVIOUS
  <2>3. n - x \in T
    BY <2>2
  <2> QED
    BY <2>1, <2>3
<1>2. PICK m \in T : \A y \in T : m <= y
  BY <1>1, LeastExists
<1>3. PICK x \in S : m = n - x
  BY <1>2
<1>4. \A y \in S : n - x <= n - y
  BY <1>2, <1>3
<1> QED
  BY <1>4

-----------------------------------------------------------------------------
(* Induction and recursion                                                 *)

\* A set of natural numbers with 0 and the successors of its elements has all.
LEMMA Induction ==
    ASSUME NEW S, S \subseteq Nat, 0 \in S, \A n \in S : n + 1 \in S
    PROVE  S = Nat
<1> SUFFICES ASSUME Nat \ S # {} PROVE FALSE
  OBVIOUS
<1>1. PICK x \in Nat \ S : \A y \in Nat \ S : x <= y
  BY LeastExists
<1>2. x # 0 /\ x - 1 \in Nat
  BY <1>1
<1>3. x - 1 \in S
  BY <1>1, <1>2
<1> QED
  BY <1>1, <1>2, <1>3

\* Functions that start alike and go on alike are the same on an interval.
Alike(n, f, g) == \A m \in 0 .. n : f[m] = g[m]

LEMMA StepAlike ==
    ASSUME NEW n \in Nat, NEW f, NEW g, f[0] = g[0],
           \A m \in 1 .. n : f[m - 1] = g[m - 1] => f[m] = g[m]
    PROVE  Alike(n, f, g)
<1> DEFINE S == {m \in Nat : m <= n => f[m] = g[m]}
<1>1. 0 \in S
  OBVIOUS
<1>2. ASSUME NEW m \in S PROVE m + 1 \in S
  <2>1. CASE m + 1 <= n
    <3>1. m + 1 \in 1 .. n /\ (m + 1) - 1 = m /\ f[m] = g[m]
      BY <2>1
    <3> QED
      BY <3>1
  <2>2. CASE ~(m + 1 <= n)
    BY <2>2
  <2> QED
    BY <2>1, <2>2
<1>3. S = Nat
  <2> HIDE DEF S
  <2>1. S \subseteq Nat
    BY DEF S
  <2> QED
    BY <1>1, <1>2, <2>1, Induction
<1>4. \A m \in 0 .. n : m \in Nat /\ m <= n
  OBVIOUS
<1> QED
  BY <1>3, <1>4 DEF Alike

\* A start and a step determine a function on an interval: the recursive functions
\* of the modules, which are chosen to satisfy their equations, do so.
Recurses(N, A, a, step) ==
    \E f \in [0 .. N -> A] : f[0] = a /\ \A n \in 1 .. N : f[n] = step[<<n, f[n - 1]>>]

LEMMA Recursion ==
    ASSUME NEW N \in Nat, NEW A, NEW a \in A, NEW step \in [(1 .. N) \X A -> A]
    PROVE  Recurses(N, A, a, step)
<1> DEFINE Upto(n, f) ==
               f \in [0 .. n -> A] /\ f[0] = a /\ \A m \in 1 .. n : f[m] = step[<<m, f[m - 1]>>]
           S == {n \in Nat : n <= N => \E f : Upto(n, f)}
<1>1. 0 \in S
  <2> DEFINE f == [i \in 0 .. 0 |-> a]
  <2>1. Upto(0, f)
    OBVIOUS
  <2> QED
    BY <2>1
<1>2. ASSUME NEW n \in S PROVE n + 1 \in S
  <2>1. CASE n + 1 <= N
    <3>1. PICK f : Upto(n, f)
      BY <2>1
    <3> DEFINE g == [i \in 0 .. n + 1 |-> IF i = n + 1 THEN step[<<n + 1, f[n]>>] ELSE f[i]]
    <3>2. f[n] \in A /\ n + 1 \in 1 .. N
      BY <2>1, <3>1
    <3>3. step[<<n + 1, f[n]>>] \in A
      BY <3>2
    <3>4. g \in [0 .. n + 1 -> A] /\ g[0] = a
      BY <3>1, <3>3
    <3>5. ASSUME NEW m \in 1 .. n + 1 PROVE g[m] = step[<<m, g[m - 1]>>]
      <4>1. CASE m = n + 1
        <5>1. m - 1 = n /\ g[n] = f[n] /\ g[m] = step[<<n + 1, f[n]>>]
          BY <4>1
        <5> QED
          BY <4>1, <5>1
      <4>2. CASE m # n + 1
        <5>1. m \in 1 .. n /\ m - 1 \in 0 .. n /\ m \in 0 .. n + 1 /\ m - 1 \in 0 .. n + 1
              /\ m - 1 # n + 1
          BY <4>2
        <5>2. g[m] = f[m] /\ g[m - 1] = f[m - 1]
          BY <4>2, <5>1
        <5> QED
          BY <3>1, <5>1, <5>2
      <4> QED
        BY <4>1, <4>2
    <3>6. Upto(n + 1, g)
      BY <3>4, <3>5
    <3> HIDE DEF Upto
    <3> QED
      BY <3>6
  <2>2. CASE ~(n + 1 <= N)
    BY <2>2
  <2> QED
    BY <2>1, <2>2
<1>3. S = Nat
  <2> HIDE DEF S
  <2>1. S \subseteq Nat
    BY DEF S
  <2> QED
    BY <1>1, <1>2, <2>1, Induction
<1>4. N \in S
  BY <1>3
<1> QED
  BY <1>4 DEF Recurses

-----------------------------------------------------------------------------
(* Sums                                                                    *)

\* s has the sums of the first elements, up to n of them.
SumsTo(s, n, amounts) ==
    s = [m \in 0 .. n |-> IF m = 0 THEN 0 ELSE s[m - 1] + amounts[m]]

\* There is one such function.
LEMMA SumsExist ==
    ASSUME NEW n \in Nat, NEW amounts \in [1 .. n -> Int]
    PROVE  \E s \in [0 .. n -> Int] : SumsTo(s, n, amounts) /\ Total(n, amounts) = s[n]
<1> DEFINE step == [p \in (1 .. n) \X Int |-> p[2] + amounts[p[1]]]
<1>1. step \in [(1 .. n) \X Int -> Int]
  OBVIOUS
<1>2. PICK s \in [0 .. n -> Int] : s[0] = 0 /\ \A m \in 1 .. n : s[m] = step[<<m, s[m - 1]>>]
  <2> HIDE DEF step
  <2>0. 0 \in Int
    OBVIOUS
  <2>1. Recurses(n, Int, 0, step)
    BY <1>1, <2>0, Recursion
  <2> QED
    BY <2>1 DEF Recurses
<1>3. SumsTo(s, n, amounts)
  <2>1. \A m \in 1 .. n : m - 1 \in 0 .. n /\ s[m] = s[m - 1] + amounts[m]
    <3>1. \A m \in 1 .. n : m - 1 \in 0 .. n /\ s[m - 1] \in Int
      BY <1>2
    <3> QED
      BY <1>2, <3>1
  <2>2. \A m \in 0 .. n : m = 0 \/ m \in 1 .. n
    OBVIOUS
  <2> QED
    BY <1>2, <2>1, <2>2 DEF SumsTo
<1> DEFINE sum == CHOOSE x : SumsTo(x, n, amounts)
<1>4. Total(n, amounts) = sum[n]
  BY DEF Total, SumsTo
<1>5. SumsTo(sum, n, amounts)
  BY <1>3
<1> HIDE DEF sum
<1>6. sum = s
  <2> DEFINE S == {m \in Nat : m <= n => sum[m] = s[m]}
  <2>1. \A m \in 0 .. n : /\ sum[m] = IF m = 0 THEN 0 ELSE sum[m - 1] + amounts[m]
                          /\ s[m] = IF m = 0 THEN 0 ELSE s[m - 1] + amounts[m]
    BY <1>3, <1>5 DEF SumsTo
  <2>2. 0 \in S
    BY <2>1
  <2>3. ASSUME NEW m \in S PROVE m + 1 \in S
    <3>1. CASE m + 1 <= n
      <4>1. m + 1 \in 0 .. n /\ m + 1 # 0 /\ (m + 1) - 1 = m /\ sum[m] = s[m]
        BY <3>1
      <4>2. sum[m + 1] = sum[m] + amounts[m + 1] /\ s[m + 1] = s[m] + amounts[m + 1]
        BY <2>1, <4>1
      <4> QED
        BY <4>1, <4>2
    <3>2. CASE ~(m + 1 <= n)
      BY <3>2
    <3> QED
      BY <3>1, <3>2
  <2>4. S = Nat
    <3> HIDE DEF S
    <3>1. S \subseteq Nat
      BY DEF S
    <3> QED
      BY <2>2, <2>3, <3>1, Induction
  <2>5. \A m \in 0 .. n : sum[m] = s[m]
    <3>1. \A m \in 0 .. n : m \in Nat /\ m <= n
      OBVIOUS
    <3>2. \A m \in Nat : m <= n => sum[m] = s[m]
      BY <2>4
    <3> QED
      BY <3>1, <3>2
  <2>6. sum = [m \in 0 .. n |-> sum[m]]
    BY <1>5 DEF SumsTo
  <2>7. s = [m \in 0 .. n |-> s[m]]
    BY <1>2
  <2> QED
    BY <2>5, <2>6, <2>7
<1> QED
  BY <1>2, <1>3, <1>4, <1>6

\* The sum of none is 0.
LEMMA TotalNone ==
    ASSUME NEW amounts \in [1 .. 0 -> Int]
    PROVE  Total(0, amounts) = 0
<1>1. PICK s \in [0 .. 0 -> Int] : SumsTo(s, 0, amounts) /\ Total(0, amounts) = s[0]
  BY SumsExist
<1> QED
  BY <1>1 DEF SumsTo

\* A sum is a number.
LEMMA TotalType ==
    ASSUME NEW n \in Nat, NEW amounts \in [1 .. n -> Int]
    PROVE  Total(n, amounts) \in Int
<1>1. PICK s \in [0 .. n -> Int] : SumsTo(s, n, amounts) /\ Total(n, amounts) = s[n]
  BY SumsExist
<1>2. n \in 0 .. n
  OBVIOUS
<1> QED
  BY <1>1, <1>2

\* An amount at the end is added.
LEMMA TotalNext ==
    ASSUME NEW n \in Nat, NEW old \in [1 .. n -> Int], NEW new \in [1 .. n + 1 -> Int],
           \A i \in 1 .. n : new[i] = old[i]
    PROVE  Total(n + 1, new) = Total(n, old) + new[n + 1] /\ Total(n, old) \in Int
<1>1. PICK s \in [0 .. n -> Int] : SumsTo(s, n, old) /\ Total(n, old) = s[n]
  BY SumsExist
<1>2. PICK t \in [0 .. n + 1 -> Int] : SumsTo(t, n + 1, new) /\ Total(n + 1, new) = t[n + 1]
  <2>1. n + 1 \in Nat
    OBVIOUS
  <2> QED
    BY <2>1, SumsExist
<1>3. \A m \in 0 .. n : s[m] = IF m = 0 THEN 0 ELSE s[m - 1] + old[m]
  BY <1>1 DEF SumsTo
<1>4. \A m \in 0 .. n + 1 : t[m] = IF m = 0 THEN 0 ELSE t[m - 1] + new[m]
  BY <1>2 DEF SumsTo
<1> DEFINE S == {m \in Nat : m <= n => t[m] = s[m]}
<1>5. 0 \in S
  BY <1>3, <1>4
<1>6. ASSUME NEW m \in S PROVE m + 1 \in S
  <2>1. CASE m + 1 <= n
    <3>1. /\ m + 1 \in 0 .. n /\ m + 1 \in 0 .. n + 1 /\ m + 1 \in 1 .. n
          /\ m + 1 # 0 /\ (m + 1) - 1 = m /\ t[m] = s[m]
      BY <2>1
    <3>2. s[m + 1] = s[m] + old[m + 1] /\ t[m + 1] = t[m] + new[m + 1]
      BY <1>3, <1>4, <3>1
    <3> QED
      BY <3>1, <3>2
  <2>2. CASE ~(m + 1 <= n)
    BY <2>2
  <2> QED
    BY <2>1, <2>2
<1>7. S = Nat
  <2> HIDE DEF S
  <2>1. S \subseteq Nat
    BY DEF S
  <2> QED
    BY <1>5, <1>6, <2>1, Induction
<1>8. t[n] = s[n]
  <2>1. \A m \in Nat : m <= n => t[m] = s[m]
    BY <1>7
  <2> QED
    BY <2>1
<1>9. t[n + 1] = t[n] + new[n + 1]
  <2>1. n + 1 \in 0 .. n + 1 /\ n + 1 # 0 /\ (n + 1) - 1 = n
    OBVIOUS
  <2> QED
    BY <1>4, <2>1
<1> QED
  BY <1>1, <1>2, <1>8, <1>9

-----------------------------------------------------------------------------
(* Arrangements                                                            *)

\* A strict total order of S.
StrictOrder(S, lt) ==
    /\ \A x \in S : <<x, x>> \notin lt
    /\ \A x, y \in S : x # y => (<<x, y>> \in lt \/ <<y, x>> \in lt)
    /\ \A x, y, z \in S : (<<x, y>> \in lt /\ <<y, z>> \in lt) => <<x, z>> \in lt

\* A finite set arranged in a strict total order is a sequence that has each of its
\* elements once, and each one before those it is less than.
LEMMA ArrangedIs ==
    ASSUME NEW S, IsFiniteSet(S), NEW lt, StrictOrder(S, lt)
    PROVE  LET A == Arranged(S, lt)  n == Cardinality(S) IN
           /\ n \in Nat
           /\ A \in [1 .. n -> S]
           /\ \A x \in S : \E k \in 1 .. n : A[k] = x
           /\ \A i, j \in 1 .. n : i < j => <<A[i], A[j]>> \in lt
           /\ \A i, j \in 1 .. n : A[i] = A[j] => i = j
           /\ \A k \in 1 .. n : Cardinality({y \in S : <<y, A[k]>> \in lt}) = k - 1
<1> DEFINE Below(x) == {y \in S : <<y, x>> \in lt}
           n == Cardinality(S)
           rank == [x \in S |-> Cardinality(Below(x)) + 1]
           A == Arranged(S, lt)
<1>1. n \in Nat
  BY FS_CardinalityType
<1>2. ASSUME NEW x \in S
      PROVE  IsFiniteSet(Below(x)) /\ Cardinality(Below(x)) \in 0 .. n - 1
  <2>1. Below(x) \in SUBSET (S \ {x}) /\ IsFiniteSet(S \ {x})
        /\ Cardinality(S \ {x}) = n - 1
    BY FS_RemoveElement DEF StrictOrder
  <2> HIDE DEF Below, n
  <2>2. IsFiniteSet(Below(x)) /\ Cardinality(Below(x)) <= n - 1
    BY <2>1, FS_Subset
  <2>3. Cardinality(Below(x)) \in Nat
    BY <2>2, FS_CardinalityType
  <2> QED
    BY <1>1, <2>2, <2>3
<1>3. ASSUME NEW x \in S, NEW y \in S, <<x, y>> \in lt
      PROVE  Cardinality(Below(x)) < Cardinality(Below(y))
  <2>1. Below(x) \in SUBSET Below(y) /\ x \in Below(y) /\ x \notin Below(x)
    BY <1>3 DEF StrictOrder
  <2> HIDE DEF Below, n
  <2>2. Cardinality(Below(x)) <= Cardinality(Below(y))
        /\ Cardinality(Below(x)) # Cardinality(Below(y))
    BY <1>2, <2>1, FS_Subset
  <2> QED
    BY <1>2, <2>2
<1>4. rank \in [S -> 1 .. n]
  <2> HIDE DEF Below, n
  <2>1. \A x \in S : Cardinality(Below(x)) + 1 \in 1 .. n
    BY <1>1, <1>2
  <2> QED
    BY <2>1
<1>5. \A x, y \in S : rank[x] = rank[y] => x = y
  <2> HIDE DEF Below, n
  <2>1. ASSUME NEW x \in S, NEW y \in S, x # y
        PROVE  Cardinality(Below(x)) # Cardinality(Below(y))
    <3>1. \/ Cardinality(Below(x)) < Cardinality(Below(y))
          \/ Cardinality(Below(y)) < Cardinality(Below(x))
      BY <1>3, <2>1 DEF StrictOrder
    <3> QED
      BY <1>2, <3>1
  <2>2. \A x \in S : Cardinality(Below(x)) \in Int
    BY <1>2
  <2> QED
    BY <2>1, <2>2
<1>6. \A k \in 1 .. n : \E x \in S : rank[x] = k
  <2> HIDE DEF rank
  <2>1. rank \in Injection(S, 1 .. n)
    BY <1>4, <1>5 DEF Injection, IsInjective
  <2>2. IsFiniteSet(1 .. n) /\ Cardinality(1 .. n) = n
    <3>1. IsFiniteSet(1 .. n) /\ Cardinality(1 .. n) = IF 1 > n THEN 0 ELSE n - 1 + 1
      BY <1>1, FS_Interval
    <3> QED
      BY <1>1, <3>1
  <2>3. rank \in Surjection(S, 1 .. n)
    BY <2>1, <2>2, FS_Injection
  <2> QED
    BY <2>3 DEF Surjection
<1>7. ASSUME NEW k \in 1 .. n
      PROVE  A[k] \in S /\ rank[A[k]] = k /\ Cardinality(Below(A[k])) = k - 1
  <2>1. PICK x \in S : rank[x] = k
    BY <1>6
  <2>2. Cardinality(Below(x)) = k - 1
    <3>1. Cardinality(Below(x)) \in Int /\ Cardinality(Below(x)) + 1 = k
      BY <1>2, <2>1
    <3> HIDE DEF Below
    <3> QED
      BY <3>1
  <2>3. A[k] = CHOOSE y \in S : Cardinality(Below(y)) = k - 1
    BY DEF Arranged
  <2> HIDE DEF Below, A, n
  <2>4. A[k] \in S /\ Cardinality(Below(A[k])) = k - 1
    BY <2>2, <2>3
  <2> QED
    BY <2>4
<1>8. A \in [1 .. n -> S]
  <2> DEFINE pick(k) == CHOOSE x \in S : Cardinality(Below(x)) = k - 1
  <2>1. A = [k \in 1 .. n |-> pick(k)]
    BY DEF Arranged
  <2> HIDE DEF A, n, pick
  <2>2. \A k \in 1 .. n : pick(k) \in S
    BY <1>7, <2>1
  <2> QED
    BY <2>1, <2>2
<1>9. ASSUME NEW x \in S PROVE \E k \in 1 .. n : A[k] = x
  <2>1. rank[x] \in 1 .. n
    BY <1>4
  <2> HIDE DEF rank, A, n
  <2>2. rank[A[rank[x]]] = rank[x] /\ A[rank[x]] \in S
    BY <1>7, <2>1
  <2>3. A[rank[x]] = x
    BY <1>5, <2>2
  <2> QED
    BY <2>1, <2>3
<1>10. ASSUME NEW i \in 1 .. n, NEW j \in 1 .. n, i < j
       PROVE  <<A[i], A[j]>> \in lt
  <2> HIDE DEF rank, Below, A, n
  <2>1. A[i] \in S /\ A[j] \in S /\ A[i] # A[j]
    BY <1>7, <1>10
  <2>2. ~(<<A[j], A[i]>> \in lt)
    <3>1. Cardinality(Below(A[i])) = i - 1 /\ Cardinality(Below(A[j])) = j - 1
      BY <1>7
    <3>2. ~(j - 1 < i - 1)
      BY <1>10
    <3> QED
      BY <1>3, <2>1, <3>1, <3>2
  <2> QED
    BY <2>1, <2>2 DEF StrictOrder
<1>11. \A i, j \in 1 .. n : A[i] = A[j] => i = j
  <2> HIDE DEF rank, A, n
  <2> QED
    BY <1>7
<1> QED
  BY <1>1, <1>7, <1>8, <1>9, <1>10, <1>11

\* A finite set of numbers in ascending order.
LEMMA AscendingIs ==
    ASSUME NEW S, IsFiniteSet(S), S \subseteq Int
    PROVE  LET A == Ascending(S)  n == Cardinality(S) IN
           /\ n \in Nat
           /\ A \in [1 .. n -> S]
           /\ \A x \in S : \E k \in 1 .. n : A[k] = x
           /\ \A i, j \in 1 .. n : i < j => A[i] < A[j]
           /\ \A i, j \in 1 .. n : A[i] = A[j] => i = j
           /\ \A k \in 1 .. n : Cardinality({y \in S : y < A[k]}) = k - 1
<1> DEFINE lt == {p \in S \X S : p[1] < p[2]}
<1>1. \A x, y \in S : <<x, y>> \in lt <=> x < y
  OBVIOUS
<1>2. Ascending(S) = Arranged(S, lt)
  BY DEF Ascending
<1> HIDE DEF lt
<1>3. StrictOrder(S, lt)
  BY <1>1 DEF StrictOrder
<1> DEFINE A == Arranged(S, lt)
           n == Cardinality(S)
<1>4. /\ n \in Nat
      /\ A \in [1 .. n -> S]
      /\ \A x \in S : \E k \in 1 .. n : A[k] = x
      /\ \A i, j \in 1 .. n : i < j => <<A[i], A[j]>> \in lt
      /\ \A i, j \in 1 .. n : A[i] = A[j] => i = j
      /\ \A k \in 1 .. n : Cardinality({y \in S : <<y, A[k]>> \in lt}) = k - 1
  BY <1>3, ArrangedIs
<1> HIDE DEF A, n
<1>5. \A k \in 1 .. n : {y \in S : <<y, A[k]>> \in lt} = {y \in S : y < A[k]}
  BY <1>1, <1>4
<1>6. \A i, j \in 1 .. n : i < j => A[i] < A[j]
  BY <1>1, <1>4
<1> QED
  BY <1>2, <1>4, <1>5, <1>6 DEF A, n

\* It comes to each of them, after those below it.
AscendsThrough(S) ==
    /\ \A x \in S : \E k \in 1 .. Cardinality(S) : Ascending(S)[k] = x
    /\ \A k \in 1 .. Cardinality(S) : Cardinality({y \in S : y < Ascending(S)[k]}) = k - 1

LEMMA AscendingThrough ==
    ASSUME NEW S, IsFiniteSet(S), S \subseteq Int
    PROVE  AscendsThrough(S)
<1>1. \A x \in S : \E k \in 1 .. Cardinality(S) : Ascending(S)[k] = x
  BY AscendingIs
<1>2. \A k \in 1 .. Cardinality(S) : Cardinality({y \in S : y < Ascending(S)[k]}) = k - 1
  BY AscendingIs
<1> QED
  BY <1>1, <1>2 DEF AscendsThrough

-----------------------------------------------------------------------------
(* Joined texts                                                            *)

\* j has the first texts joined, up to n of them.
JoinedTo(j, n, texts) ==
    j = [m \in 0 .. n |-> IF m = 0 THEN <<>> ELSE j[m - 1] \o texts[m]]

\* There is one such function.
LEMMA JoinedExist ==
    ASSUME NEW n \in Nat, NEW A, NEW texts, \A i \in 1 .. n : texts[i] \in Seq(A)
    PROVE  \E j \in [0 .. n -> Seq(A)] : JoinedTo(j, n, texts) /\ Joined(n, texts) = j[n]
<1> DEFINE step == [p \in (1 .. n) \X Seq(A) |-> p[2] \o texts[p[1]]]
<1>1. step \in [(1 .. n) \X Seq(A) -> Seq(A)]
  <2>1. ASSUME NEW p \in (1 .. n) \X Seq(A) PROVE p[2] \o texts[p[1]] \in Seq(A)
    <3>1. p[2] \in Seq(A) /\ texts[p[1]] \in Seq(A)
      OBVIOUS
    <3> QED
      BY <3>1, ConcatProperties
  <2> QED
    BY <2>1
<1>2. PICK j \in [0 .. n -> Seq(A)] :
        j[0] = <<>> /\ \A m \in 1 .. n : j[m] = step[<<m, j[m - 1]>>]
  <2> HIDE DEF step
  <2>1. <<>> \in Seq(A)
    BY EmptySeq
  <2>2. Recurses(n, Seq(A), <<>>, step)
    BY <1>1, <2>1, Recursion
  <2> QED
    BY <2>2 DEF Recurses
<1>3. JoinedTo(j, n, texts)
  <2>1. \A m \in 1 .. n : m - 1 \in 0 .. n /\ j[m] = j[m - 1] \o texts[m]
    <3>1. \A m \in 1 .. n : m - 1 \in 0 .. n /\ j[m - 1] \in Seq(A)
      BY <1>2
    <3> QED
      BY <1>2, <3>1
  <2>2. \A m \in 0 .. n : m = 0 \/ m \in 1 .. n
    OBVIOUS
  <2>3. j = [m \in 0 .. n |-> j[m]]
    BY <1>2
  <2> HIDE DEF step
  <2>4. \A m \in 0 .. n : j[m] = IF m = 0 THEN <<>> ELSE j[m - 1] \o texts[m]
    <3>1. \A m \in 1 .. n : m # 0
      OBVIOUS
    <3> QED
      BY <1>2, <2>1, <2>2, <3>1
  <2> QED
    BY <2>3, <2>4 DEF JoinedTo
<1> DEFINE joined == CHOOSE x : JoinedTo(x, n, texts)
<1>4. Joined(n, texts) = joined[n]
  BY DEF Joined, JoinedTo
<1>5. JoinedTo(joined, n, texts)
  BY <1>3
<1> HIDE DEF joined
<1>6. joined = j
  <2> DEFINE S == {m \in Nat : m <= n => joined[m] = j[m]}
  <2>1. \A m \in 0 .. n : /\ joined[m] = IF m = 0 THEN <<>> ELSE joined[m - 1] \o texts[m]
                          /\ j[m] = IF m = 0 THEN <<>> ELSE j[m - 1] \o texts[m]
    BY <1>3, <1>5 DEF JoinedTo
  <2>2. 0 \in S
    <3>1. 0 \in 0 .. n
      OBVIOUS
    <3>2. joined[0] = <<>> /\ j[0] = <<>>
      BY <2>1, <3>1, Zenon
    <3> QED
      BY <3>2
  <2>3. ASSUME NEW m \in S PROVE m + 1 \in S
    <3>1. CASE m + 1 <= n
      <4>1. m + 1 \in 0 .. n /\ m + 1 # 0 /\ (m + 1) - 1 = m /\ joined[m] = j[m]
        BY <3>1
      <4>2. joined[m + 1] = joined[m] \o texts[m + 1] /\ j[m + 1] = j[m] \o texts[m + 1]
        BY <2>1, <4>1, Zenon
      <4>3. joined[m + 1] = j[m + 1] /\ m + 1 \in Nat
        BY <4>1, <4>2
      <4> HIDE DEF joined
      <4> QED
        BY <4>3
    <3>2. CASE ~(m + 1 <= n)
      BY <3>2
    <3> QED
      BY <3>1, <3>2
  <2>4. S = Nat
    <3> HIDE DEF S
    <3>1. S \subseteq Nat
      BY DEF S
    <3> QED
      BY <2>2, <2>3, <3>1, Induction
  <2>5. \A m \in 0 .. n : joined[m] = j[m]
    <3>1. \A m \in 0 .. n : m \in Nat /\ m <= n
      OBVIOUS
    <3>2. \A m \in Nat : m <= n => joined[m] = j[m]
      BY <2>4
    <3> QED
      BY <3>1, <3>2
  <2>6. joined = [m \in 0 .. n |-> joined[m]]
    BY <1>5 DEF JoinedTo
  <2>7. j = [m \in 0 .. n |-> j[m]]
    BY <1>2
  <2> QED
    BY <2>5, <2>6, <2>7
<1> QED
  BY <1>2, <1>3, <1>4, <1>6

\* Texts joined are none, or the last of them after the others.
LEMMA JoinedIs ==
    ASSUME NEW n \in Nat, NEW A, NEW texts, \A i \in 1 .. n : texts[i] \in Seq(A)
    PROVE  /\ Joined(n, texts) \in Seq(A)
           /\ Joined(0, texts) = <<>>
           /\ n > 0 => Joined(n, texts) = Joined(n - 1, texts) \o texts[n]
<1>1. PICK j \in [0 .. n -> Seq(A)] : JoinedTo(j, n, texts) /\ Joined(n, texts) = j[n]
  BY JoinedExist
<1>2. Joined(n, texts) \in Seq(A)
  <2>1. n \in 0 .. n
    OBVIOUS
  <2> QED
    BY <1>1, <2>1
<1>3. Joined(0, texts) = <<>>
  <2>1. PICK k \in [0 .. 0 -> Seq(A)] : JoinedTo(k, 0, texts) /\ Joined(0, texts) = k[0]
    <3>1. \A i \in 1 .. 0 : texts[i] \in Seq(A)
      OBVIOUS
    <3> QED
      BY <3>1, JoinedExist
  <2> QED
    BY <2>1 DEF JoinedTo
<1>4. ASSUME n > 0 PROVE Joined(n, texts) = Joined(n - 1, texts) \o texts[n]
  <2>1. n - 1 \in Nat /\ \A i \in 1 .. n - 1 : texts[i] \in Seq(A)
    BY <1>4
  <2>2. PICK k \in [0 .. n - 1 -> Seq(A)] :
            JoinedTo(k, n - 1, texts) /\ Joined(n - 1, texts) = k[n - 1]
    BY <2>1, JoinedExist
  <2>3. \A m \in 0 .. n : j[m] = IF m = 0 THEN <<>> ELSE j[m - 1] \o texts[m]
    BY <1>1 DEF JoinedTo
  <2>4. \A m \in 0 .. n - 1 : k[m] = IF m = 0 THEN <<>> ELSE k[m - 1] \o texts[m]
    BY <2>2 DEF JoinedTo
  <2> DEFINE S == {m \in Nat : m <= n - 1 => k[m] = j[m]}
  <2>5. 0 \in S
    <3>1. 0 \in 0 .. n /\ 0 \in 0 .. n - 1
      BY <1>4
    <3>2. k[0] = <<>> /\ j[0] = <<>>
      BY <2>3, <2>4, <3>1, Zenon
    <3> QED
      BY <3>2
  <2>6. ASSUME NEW m \in S PROVE m + 1 \in S
    <3>1. CASE m + 1 <= n - 1
      <4>1. m + 1 \in 0 .. n /\ m + 1 \in 0 .. n - 1 /\ m + 1 # 0 /\ (m + 1) - 1 = m
            /\ k[m] = j[m]
        BY <3>1
      <4>2. k[m + 1] = k[m] \o texts[m + 1] /\ j[m + 1] = j[m] \o texts[m + 1]
        BY <2>3, <2>4, <4>1, Zenon
      <4>3. k[m + 1] = j[m + 1] /\ m + 1 \in Nat
        BY <4>1, <4>2
      <4> QED
        BY <4>3
    <3>2. CASE ~(m + 1 <= n - 1)
      BY <3>2
    <3> QED
      BY <3>1, <3>2
  <2>7. S = Nat
    <3> HIDE DEF S
    <3>1. S \subseteq Nat
      BY DEF S
    <3> QED
      BY <2>5, <2>6, <3>1, Induction
  <2>8. k[n - 1] = j[n - 1]
    <3>1. \A m \in Nat : m <= n - 1 => k[m] = j[m]
      BY <2>7
    <3> QED
      BY <2>1, <3>1
  <2>9. n \in 0 .. n /\ n # 0
    BY <1>4
  <2> QED
    BY <1>1, <2>2, <2>3, <2>8, <2>9
<1> QED
  BY <1>2, <1>3, <1>4

\* The first m + 1 texts are the first m and the next.
JoinedBy(A, texts, m) ==
    /\ Joined(m, texts) \in Seq(A) /\ Joined(m + 1, texts) \in Seq(A)
    /\ texts[m + 1] \in Seq(A)
    /\ Joined(m + 1, texts) = Joined(m, texts) \o texts[m + 1]
    /\ Len(Joined(m + 1, texts)) = Len(Joined(m, texts)) + Len(texts[m + 1])

LEMMA JoinedNext ==
    ASSUME NEW n \in Nat, NEW A, NEW texts, \A i \in 1 .. n : texts[i] \in Seq(A),
           NEW m \in Nat, m + 1 <= n
    PROVE  JoinedBy(A, texts, m)
<1>1. /\ m + 1 \in Nat /\ m + 1 > 0 /\ (m + 1) - 1 = m /\ m + 1 \in 1 .. n
      /\ \A i \in 1 .. m + 1 : texts[i] \in Seq(A)
      /\ \A i \in 1 .. m : texts[i] \in Seq(A)
  OBVIOUS
<1>2. Joined(m, texts) \in Seq(A)
  BY <1>1, JoinedIs
<1>3. /\ Joined(m + 1, texts) \in Seq(A)
      /\ Joined(m + 1, texts) = Joined((m + 1) - 1, texts) \o texts[m + 1]
  BY <1>1, JoinedIs
<1>4. texts[m + 1] \in Seq(A)
  BY <1>1
<1>5. Len(Joined(m, texts) \o texts[m + 1]) = Len(Joined(m, texts)) + Len(texts[m + 1])
  BY <1>2, <1>4, ConcatProperties
<1> QED
  BY <1>1, <1>2, <1>3, <1>4, <1>5 DEF JoinedBy

\* Equal texts are joined equally.
JoinedAlike(n, others, texts) ==
    \A m \in 0 .. n : Joined(m, others) = Joined(m, texts)

LEMMA JoinedSame ==
    ASSUME NEW n \in Nat, NEW A, NEW texts, \A i \in 1 .. n : texts[i] \in Seq(A),
           NEW others, \A i \in 1 .. n : others[i] = texts[i]
    PROVE  JoinedAlike(n, others, texts)
<1> DEFINE S == {m \in Nat : m <= n => Joined(m, others) = Joined(m, texts)}
<1>0. \A i \in 1 .. n : others[i] \in Seq(A)
  OBVIOUS
<1>1. 0 \in S
  <2>1. Joined(0, others) = <<>> /\ Joined(0, texts) = <<>>
    BY <1>0, JoinedIs
  <2> QED
    BY <2>1
<1>2. ASSUME NEW m \in S PROVE m + 1 \in S
  <2>0. m \in Nat /\ (m <= n => Joined(m, others) = Joined(m, texts))
    OBVIOUS
  <2> HIDE DEF S
  <2>1. CASE m + 1 <= n
    <3>1. m \in Nat /\ m + 1 \in 1 .. n /\ Joined(m, others) = Joined(m, texts)
      BY <2>0, <2>1
    <3>2. JoinedBy(A, texts, m)
      BY <2>1, <3>1, JoinedNext
    <3>3. JoinedBy(A, others, m)
      BY <1>0, <2>1, <3>1, JoinedNext
    <3>4. others[m + 1] = texts[m + 1]
      BY <3>1
    <3>5. Joined(m + 1, others) = Joined(m + 1, texts)
      BY <3>1, <3>2, <3>3, <3>4, Zenon DEF JoinedBy
    <3> QED
      BY <3>1, <3>5 DEF S
  <2>2. CASE ~(m + 1 <= n)
    BY <2>0, <2>2 DEF S
  <2> QED
    BY <2>1, <2>2
<1>3. S = Nat
  <2> HIDE DEF S
  <2>1. S \subseteq Nat
    BY DEF S
  <2> QED
    BY <1>1, <1>2, <2>1, Induction
<1>4. \A m \in Nat : m <= n => Joined(m, others) = Joined(m, texts)
  BY <1>3
<1> QED
  BY <1>4 DEF JoinedAlike

\* The first texts are at the beginning of all of them.
BeginsWith(A, text, first) == \E rest \in Seq(A) : text = first \o rest

LEMMA JoinedBegins ==
    ASSUME NEW n \in Nat, NEW A, NEW texts, \A i \in 1 .. n : texts[i] \in Seq(A),
           NEW m \in 0 .. n
    PROVE  BeginsWith(A, Joined(n, texts), Joined(m, texts))
<1> DEFINE Begins(i) == \E rest \in Seq(A) : Joined(i, texts) = Joined(m, texts) \o rest
           S == {i \in Nat : m <= i /\ i <= n => Begins(i)}
<1>0. Joined(m, texts) \in Seq(A)
  <2>1. m \in Nat /\ \A i \in 1 .. m : texts[i] \in Seq(A)
    OBVIOUS
  <2> QED
    BY <2>1, JoinedIs
<1>1. Begins(m)
  BY <1>0, ConcatEmptySeq, EmptySeq
<1>2. 0 \in S
  <2>1. m <= 0 => m = 0
    OBVIOUS
  <2> HIDE DEF Begins
  <2> QED
    BY <1>1, <2>1
<1>3. ASSUME NEW i \in S PROVE i + 1 \in S
  <2>0. i \in Nat /\ i + 1 \in Nat
    OBVIOUS
  <2>1. CASE m <= i /\ i + 1 <= n
    <3>1. Begins(i)
      <4> HIDE DEF Begins
      <4> QED
        BY <2>0, <2>1
    <3>2. PICK rest \in Seq(A) : Joined(i, texts) = Joined(m, texts) \o rest
      BY <3>1
    <3> HIDE DEF Begins, S
    <3> DEFINE first == Joined(m, texts)
               next == texts[i + 1]
    <3>3. JoinedBy(A, texts, i)
      BY <2>0, <2>1, JoinedNext
    <3>7. /\ Joined(i, texts) = first \o rest
          /\ Joined(i + 1, texts) = Joined(i, texts) \o next
          /\ first \in Seq(A) /\ next \in Seq(A)
      BY <1>0, <3>2, <3>3, Zenon DEF JoinedBy
    <3> HIDE DEF first, next
    <3>4. Joined(i + 1, texts) = first \o (rest \o next)
      <4>1. (first \o rest) \o next = first \o (rest \o next)
        BY <3>7, ConcatAssociative
      <4> QED
        BY <3>7, <4>1, Zenon
    <3>5. rest \o next \in Seq(A)
      BY <3>7, ConcatProperties
    <3>6. Begins(i + 1)
      BY <3>4, <3>5, Zenon DEF Begins, first
    <3> QED
      BY <2>0, <3>6 DEF S
  <2>2. CASE m = i + 1
    <3> HIDE DEF Begins
    <3> QED
      BY <1>1, <2>0, <2>2
  <2>3. CASE ~(m <= i + 1 /\ i + 1 <= n)
    <3> HIDE DEF Begins
    <3> QED
      BY <2>0, <2>3
  <2>4. (m <= i /\ i + 1 <= n) \/ m = i + 1 \/ ~(m <= i + 1 /\ i + 1 <= n)
    BY <2>0
  <2> HIDE DEF Begins, S
  <2> QED
    BY <2>1, <2>2, <2>3, <2>4
<1>4. S = Nat
  <2> HIDE DEF S
  <2>1. S \subseteq Nat
    BY DEF S
  <2> QED
    BY <1>2, <1>3, <2>1, Induction
<1>5. Begins(n)
  <2> HIDE DEF Begins
  <2> QED
    BY <1>4
<1> QED
  BY <1>5 DEF BeginsWith

\* What is joined is as long as the texts together.
LEMMA JoinedLen ==
    ASSUME NEW n \in Nat, NEW A, NEW texts, \A i \in 1 .. n : texts[i] \in Seq(A),
           NEW lens \in [1 .. n -> Int], \A i \in 1 .. n : lens[i] = Len(texts[i])
    PROVE  Len(Joined(n, texts)) = Total(n, lens)
<1> DEFINE upto(m) == [i \in 1 .. m |-> lens[i]]
           S == {m \in Nat : m <= n => Len(Joined(m, texts)) = Total(m, upto(m))}
<1>1. 0 \in S
  <2>1. Joined(0, texts) = <<>> /\ Len(<<>>) = 0
    BY JoinedIs, EmptySeq
  <2>2. upto(0) \in [1 .. 0 -> Int]
    OBVIOUS
  <2>3. Total(0, upto(0)) = 0
    BY <2>2, TotalNone
  <2> QED
    BY <2>1, <2>3
<1>2. ASSUME NEW m \in S PROVE m + 1 \in S
  <2>0. m \in Nat /\ (m <= n => Len(Joined(m, texts)) = Total(m, upto(m)))
    OBVIOUS
  <2> HIDE DEF S
  <2>1. CASE m + 1 <= n
    <3>1. upto(m) \in [1 .. m -> Int] /\ upto(m + 1) \in [1 .. m + 1 -> Int]
          /\ \A i \in 1 .. m : upto(m + 1)[i] = upto(m)[i]
      BY <2>0, <2>1
    <3>2. m + 1 \in 1 .. n /\ upto(m + 1)[m + 1] = Len(texts[m + 1])
      BY <2>0, <2>1
    <3> HIDE DEF upto
    <3>3. Total(m + 1, upto(m + 1)) = Total(m, upto(m)) + upto(m + 1)[m + 1]
      BY <2>0, <3>1, TotalNext
    <3>4. Len(Joined(m + 1, texts)) = Len(Joined(m, texts)) + Len(texts[m + 1])
      <4>1. JoinedBy(A, texts, m)
        BY <2>0, <2>1, JoinedNext
      <4> QED
        BY <4>1 DEF JoinedBy
    <3>5. Len(Joined(m + 1, texts)) = Total(m + 1, upto(m + 1))
      BY <2>0, <2>1, <3>2, <3>3, <3>4
    <3> QED
      BY <2>0, <3>5 DEF S
  <2>2. CASE ~(m + 1 <= n)
    BY <2>0, <2>2 DEF S
  <2> QED
    BY <2>1, <2>2
<1>3. S = Nat
  <2> HIDE DEF S
  <2>1. S \subseteq Nat
    BY DEF S
  <2> QED
    BY <1>1, <1>2, <2>1, Induction
<1>4. upto(n) = lens
  OBVIOUS
<1>5. Len(Joined(n, texts)) = Total(n, upto(n))
  <2> HIDE DEF upto
  <2> QED
    BY <1>3
<1> QED
  BY <1>4, <1>5

\* Changing one amount changes the sum by as much.
LEMMA TotalChanged ==
    ASSUME NEW n \in Nat, NEW old \in [1 .. n -> Int], NEW new \in [1 .. n -> Int],
           NEW c \in 1 .. n, \A i \in 1 .. n : i # c => new[i] = old[i]
    PROVE  Total(n, new) = Total(n, old) + (new[c] - old[c])
<1> DEFINE was(m) == [i \in 1 .. m |-> old[i]]
           is(m) == [i \in 1 .. m |-> new[i]]
           change(m) == IF c <= m THEN new[c] - old[c] ELSE 0
           S == {m \in Nat : m <= n => Total(m, is(m)) = Total(m, was(m)) + change(m)}
<1>1. 0 \in S
  <2>1. was(0) \in [1 .. 0 -> Int] /\ is(0) \in [1 .. 0 -> Int] /\ change(0) = 0
    OBVIOUS
  <2> HIDE DEF was, is, change
  <2>2. Total(0, was(0)) = 0 /\ Total(0, is(0)) = 0
    BY <2>1, TotalNone
  <2> QED
    BY <2>1, <2>2
<1>2. ASSUME NEW m \in S PROVE m + 1 \in S
  <2>0. m \in Nat /\ (m <= n => Total(m, is(m)) = Total(m, was(m)) + change(m))
    OBVIOUS
  <2> HIDE DEF S
  <2>1. CASE m + 1 <= n
    <3>1. /\ was(m) \in [1 .. m -> Int] /\ was(m + 1) \in [1 .. m + 1 -> Int]
          /\ \A i \in 1 .. m : was(m + 1)[i] = was(m)[i]
      BY <2>0, <2>1
    <3>2. /\ is(m) \in [1 .. m -> Int] /\ is(m + 1) \in [1 .. m + 1 -> Int]
          /\ \A i \in 1 .. m : is(m + 1)[i] = is(m)[i]
      BY <2>0, <2>1
    <3>3. /\ m + 1 \in 1 .. n
          /\ was(m + 1)[m + 1] = old[m + 1] /\ is(m + 1)[m + 1] = new[m + 1]
          /\ old[m + 1] \in Int /\ new[m + 1] \in Int /\ old[c] \in Int /\ new[c] \in Int
      BY <2>0, <2>1
    <3>4. change(m + 1) = change(m) + (new[m + 1] - old[m + 1])
      <4>1. CASE c = m + 1
        BY <2>0, <3>3, <4>1
      <4>2. CASE c # m + 1
        <5>1. new[m + 1] = old[m + 1]
          BY <3>3, <4>2
        <5>2. c <= m <=> c <= m + 1
          BY <2>0, <4>2
        <5> QED
          BY <3>3, <5>1, <5>2
      <4> QED
        BY <4>1, <4>2
    <3>5. change(m) \in Int
      BY <3>3
    <3> HIDE DEF was, is, change
    <3>6. /\ Total(m + 1, was(m + 1)) = Total(m, was(m)) + was(m + 1)[m + 1]
          /\ Total(m, was(m)) \in Int
      BY <2>0, <3>1, TotalNext
    <3>7. Total(m + 1, is(m + 1)) = Total(m, is(m)) + is(m + 1)[m + 1]
      BY <2>0, <3>2, TotalNext
    <3>8. Total(m + 1, is(m + 1)) = Total(m + 1, was(m + 1)) + change(m + 1)
      BY <2>0, <2>1, <3>3, <3>4, <3>5, <3>6, <3>7
    <3> QED
      BY <2>0, <3>8 DEF S
  <2>2. CASE ~(m + 1 <= n)
    BY <2>0, <2>2 DEF S
  <2> QED
    BY <2>1, <2>2
<1>3. S = Nat
  <2> HIDE DEF S
  <2>1. S \subseteq Nat
    BY DEF S
  <2> QED
    BY <1>1, <1>2, <2>1, Induction
<1>4. was(n) = old /\ is(n) = new /\ change(n) = new[c] - old[c]
  OBVIOUS
<1>5. Total(n, is(n)) = Total(n, was(n)) + change(n)
  <2> HIDE DEF was, is, change
  <2> QED
    BY <1>3
<1> QED
  BY <1>4, <1>5
=============================================================================
