--------------------------- MODULE SortedSequences ---------------------------
(***************************************************************************)
(* What the proofs need to know of sequences that list a finite set, and   *)
(* of those that list it in an order: ORDER BY, sorted() and the positions *)
(* that both hand out. An order is a set of pairs.                         *)
(***************************************************************************)
EXTENDS Integers, Sequences, FiniteSets, SequencesExt, TLAPS, SequenceTheorems,
        FiniteSetTheorems, NaturalsInduction, WellFoundedInduction

Ascends(s, R) == \A i, j \in 1..Len(s) : i < j => <<s[i], s[j]>> \in R

Asymmetric(R) == \A x, y : <<x, y>> \in R => <<y, x>> \notin R

(* A set of naturals has a least element, and a greatest if it is bounded. *)
LEMMA LeastNatural ==
  ASSUME NEW S, S \subseteq Nat, S # {}
  PROVE  \E i \in S : \A j \in S : i <= j
<1> DEFINE Before == OpToRel(<, Nat)
<1>1. \E i \in S : \A j \in S : <<j, i>> \notin Before
  <2>1. IsWellFoundedOn(Before, Nat)
    BY NatLessThanWellFounded
  <2> HIDE DEF Before
  <2> QED BY <2>1, WFMin
<1>2. \A i, j \in Nat : j < i => <<j, i>> \in Before
  BY DEF OpToRel
<1> HIDE DEF Before
<1>3. PICK i \in S : \A j \in S : <<j, i>> \notin Before
  BY <1>1
<1>4. \A j \in S : ~(j < i)
  BY <1>2, <1>3, Zenon
<1> QED BY <1>3, <1>4

LEMMA LeastIsMin ==
  ASSUME NEW S, S \subseteq Nat, S # {}
  PROVE  Min(S) \in S /\ \A j \in S : Min(S) <= j
BY LeastNatural DEF Min

LEMMA GreatestNatural ==
  ASSUME NEW n \in Nat, NEW S, S \subseteq 0..n, S # {}
  PROVE  Max(S) \in S /\ \A x \in S : x <= Max(S)
<1> DEFINE T == {n - x : x \in S}
<1>1. T \subseteq Nat /\ T # {}
  <2>1. \A x \in S : n - x \in Nat
    OBVIOUS
  <2> QED BY <2>1
<1>2. PICK m \in T : \A j \in T : m <= j
  <2> HIDE DEF T
  <2> QED BY <1>1, LeastNatural
<1>3. PICK x \in S : m = n - x
  OBVIOUS
<1>4. \A y \in S : x >= y
  <2> TAKE y \in S
  <2>1. n - x <= n - y
    BY <1>2, <1>3
  <2> QED BY <2>1
<1>5. \E z \in S : \A y \in S : z >= y
  BY <1>4
<1>6. Max(S) \in S /\ \A y \in S : Max(S) >= y
  BY <1>5 DEF Max
<1> QED BY <1>6

LEMMA MinOfTwo ==
  ASSUME NEW a \in Int, NEW b \in Int
  PROVE  Min({a, b}) = IF a <= b THEN a ELSE b
<1> DEFINE m == IF a <= b THEN a ELSE b
<1>1. m \in {a, b} /\ \A y \in {a, b} : m <= y
  OBVIOUS
<1>2. \A x \in {a, b} : (\A y \in {a, b} : x <= y) => x = m
  OBVIOUS
<1> HIDE DEF m
<1>3. Min({a, b}) = m
  BY <1>1, <1>2 DEF Min
<1> QED BY <1>3 DEF m

------------------------------------------------------------------------------
(* A sequence of SetToSeqs(S) holds each element of S once.                *)

LEMMA Listing ==
  ASSUME NEW S, IsFiniteSet(S), NEW s \in SetToSeqs(S)
  PROVE  /\ s \in Seq(S) /\ Len(s) = Cardinality(S) /\ ToSet(s) = S
         /\ DOMAIN s = 1..Len(s)
         /\ \A i, j \in 1..Len(s) : s[i] = s[j] => i = j
<1> DEFINE n == Cardinality(S)
<1>1. n \in Nat
  BY FS_CardinalityType
<1> HIDE DEF n
<1>2. s \in [1..n -> S] /\ \A i, j \in 1..n : i # j => s[i] # s[j]
  BY DEF SetToSeqs, n
<1>3. IsFiniteSet(1..n) /\ Cardinality(1..n) = n
  BY <1>1, FS_Interval
<1>4. s \in Injection(1..n, S)
  BY <1>2 DEF Injection, IsInjective
<1>5. s \in Surjection(1..n, S)
  BY <1>3, <1>4, FS_Injection DEF n
<1>6. \A x \in S : \E i \in 1..n : s[i] = x
  BY <1>5 DEF Surjection
<1>7. s \in Seq(S) /\ Len(s) = n
  BY <1>1, <1>2
<1>8. DOMAIN s = 1..n
  BY <1>2
<1>9. ToSet(s) = S
  BY <1>2, <1>6, <1>8 DEF ToSet
<1> QED BY <1>2, <1>7, <1>8, <1>9 DEF n

(* The other way round.                                                    *)
LEMMA InToSet ==
  ASSUME NEW S, NEW s \in Seq(S)
  PROVE  /\ ToSet(s) \subseteq S
         /\ \A i \in 1..Len(s) : s[i] \in ToSet(s)
         /\ \A x \in ToSet(s) : \E i \in 1..Len(s) : s[i] = x
BY DEF ToSet

LEMMA InjectiveCardinality ==
  ASSUME NEW S, NEW s \in Seq(S),
         \A i, j \in 1..Len(s) : s[i] = s[j] => i = j
  PROVE  IsFiniteSet(ToSet(s)) /\ Cardinality(ToSet(s)) = Len(s)
<1>1. s \in [1..Len(s) -> ToSet(s)] /\ Len(s) \in Nat
  BY DEF ToSet
<1>2. s \in Bijection(1..Len(s), ToSet(s))
  BY <1>1 DEF ToSet, Bijection, Injection, Surjection, IsInjective
<1>3. ExistsBijection(1..Len(s), ToSet(s))
  BY <1>2 DEF ExistsBijection
<1> QED BY <1>1, <1>3, FS_NatBijection, FS_CountingElements

------------------------------------------------------------------------------
(* A sequence in a strict order holds nothing twice, there is at most one  *)
(* of given elements, and an element's position is its rank.               *)

LEMMA AscendingInjective ==
  ASSUME NEW R, Asymmetric(R), NEW S, NEW s \in Seq(S), Ascends(s, R)
  PROVE  \A i, j \in 1..Len(s) : s[i] = s[j] => i = j
<1>1. \A x : <<x, x>> \notin R
  BY DEF Asymmetric
<1>2. \A i, j \in 1..Len(s) : i < j => s[i] # s[j]
  BY <1>1 DEF Ascends
<1> QED BY <1>2

LEMMA AscendingAgree ==
  ASSUME NEW R, Asymmetric(R), NEW S,
         NEW s \in Seq(S), NEW t \in Seq(S), Ascends(s, R), Ascends(t, R),
         ToSet(s) = ToSet(t)
  PROVE  Len(s) <= Len(t) /\ \A i \in 1..Len(s) : s[i] = t[i]
<1> DEFINE K == {i \in 1..Len(s) : i > Len(t) \/ s[i] # t[i]}
<1>1. SUFFICES ASSUME K # {} PROVE FALSE
  BY DEF K
<1>2. K \subseteq Nat
  OBVIOUS
<1>3. PICK k \in K : \A j \in K : k <= j
  <2> HIDE DEF K
  <2> QED BY <1>1, <1>2, LeastNatural
<1>4. \A i \in 1..Len(s) : i < k => i <= Len(t) /\ s[i] = t[i]
  BY <1>3
<1>5. \A x : <<x, x>> \notin R
  BY DEF Asymmetric
<1>6. PICK m \in 1..Len(t) : t[m] = s[k]
  BY InToSet
<1>7. ~(m < k)
  <2> SUFFICES ASSUME m < k PROVE FALSE
    OBVIOUS
  <2>1. s[m] = t[m] /\ <<s[m], s[k]>> \in R
    BY <1>4 DEF Ascends
  <2> QED BY <1>5, <1>6, <2>1
<1>8. k <= Len(t) /\ k < m
  BY <1>6, <1>7
<1>9. PICK n \in 1..Len(s) : s[n] = t[k]
  <2>1. t[k] \in ToSet(s)
    BY <1>8, InToSet
  <2> QED BY <2>1, InToSet
<1>10. <<t[k], t[m]>> \in R
  BY <1>8 DEF Ascends
<1>11. ~(n < k)
  <2> SUFFICES ASSUME n < k PROVE FALSE
    OBVIOUS
  <2>1. t[n] = t[k] /\ <<t[n], t[k]>> \in R
    BY <1>4, <1>8, <1>9 DEF Ascends
  <2> QED BY <1>5, <2>1
<1>12. k < n
  BY <1>8, <1>9, <1>11
<1>13. <<s[k], s[n]>> \in R
  BY <1>12 DEF Ascends
<1> QED BY <1>6, <1>9, <1>10, <1>13 DEF Asymmetric

LEMMA AscendingUnique ==
  ASSUME NEW R, Asymmetric(R), NEW S,
         NEW s \in Seq(S), NEW t \in Seq(S), Ascends(s, R), Ascends(t, R),
         ToSet(s) = ToSet(t)
  PROVE  s = t
<1>1. Len(s) <= Len(t) /\ \A i \in 1..Len(s) : s[i] = t[i]
  BY AscendingAgree
<1>2. Len(t) <= Len(s)
  BY AscendingAgree
<1>3. Len(s) = Len(t)
  BY <1>1, <1>2
<1> QED BY <1>1, <1>3, SeqEqual

LEMMA AscendingRank ==
  ASSUME NEW R, Asymmetric(R), NEW S, NEW s \in Seq(S), Ascends(s, R),
         NEW i \in 1..Len(s)
  PROVE  Cardinality({x \in ToSet(s) : x = s[i] \/ <<x, s[i]>> \in R}) = i
<1> DEFINE below == {x \in ToSet(s) : x = s[i] \/ <<x, s[i]>> \in R}
           first == [j \in 1..i |-> s[j]]
<1>1. \A j, k \in 1..Len(s) : s[j] = s[k] => j = k
  BY AscendingInjective
<1>2. \A j \in 1..Len(s) : s[j] \in below <=> j <= i
  <2> TAKE j \in 1..Len(s)
  <2>1. s[j] \in ToSet(s)
    BY DEF ToSet
  <2>2. j < i => <<s[j], s[i]>> \in R
    BY DEF Ascends
  <2>3. i < j => <<s[i], s[j]>> \in R
    BY DEF Ascends
  <2>4. i < j => s[i] # s[j] /\ <<s[j], s[i]>> \notin R
    BY <1>1, <2>3 DEF Asymmetric
  <2> QED BY <2>1, <2>2, <2>4
<1>3. \A x \in below : \E j \in 1..i : s[j] = x
  <2> TAKE x \in below
  <2>1. PICK j \in 1..Len(s) : s[j] = x
    BY InToSet
  <2>2. s[j] \in below
    BY <2>1
  <2>3. j \in 1..i
    BY <1>2, <2>2
  <2> QED BY <2>1, <2>3
<1>4. \A j \in 1..i : s[j] \in below
  BY <1>2
<1> HIDE DEF below
<1>5. first \in Bijection(1..i, below)
  BY <1>1, <1>3, <1>4 DEF Bijection, Injection, Surjection, IsInjective
<1>6. ExistsBijection(1..i, below)
  BY <1>5 DEF ExistsBijection
<1>7. Cardinality(below) = i
  BY <1>6, FS_CountingElements
<1> QED BY <1>7 DEF below
------------------------------------------------------------------------------
(* The elements of a finite set by their rank: a key, different for each   *)
(* of them, orders them.                                                   *)

RankBy(S, key, x) == Cardinality({y \in S : key[y] <= key[x]})

LEMMA RanksBy ==
  ASSUME NEW S, IsFiniteSet(S), NEW key \in [S -> Int],
         \A x, y \in S : key[x] = key[y] => x = y
  PROVE  /\ Cardinality(S) \in Nat
         /\ \A x \in S : RankBy(S, key, x) \in 1..Cardinality(S)
         /\ \A x, y \in S : key[x] < key[y] => RankBy(S, key, x) < RankBy(S, key, y)
         /\ \A x, y \in S : RankBy(S, key, x) = RankBy(S, key, y) => x = y
         /\ \A k \in 1..Cardinality(S) : \E x \in S : RankBy(S, key, x) = k
<1> DEFINE n == Cardinality(S)
           rank(x) == RankBy(S, key, x)
           f == [x \in S |-> rank(x)]
           below(x) == {y \in S : key[y] <= key[x]}
<1>1. n \in Nat
  BY FS_CardinalityType
<1>2. ASSUME NEW x \in S
      PROVE  IsFiniteSet(below(x)) /\ rank(x) = Cardinality(below(x)) /\ rank(x) \in 1..n
  <2>1. below(x) \subseteq S /\ x \in below(x)
    OBVIOUS
  <2> HIDE DEF below
  <2>2. IsFiniteSet(below(x)) /\ Cardinality(below(x)) <= n /\ Cardinality(below(x)) \in Nat
    BY <2>1, FS_Subset, FS_CardinalityType
  <2>3. Cardinality(below(x)) # 0
    BY <2>1, <2>2, FS_EmptySet
  <2>4. rank(x) = Cardinality(below(x))
    BY DEF RankBy, below
  <2> QED BY <1>1, <2>2, <2>3, <2>4
<1>3. ASSUME NEW x \in S, NEW y \in S, key[x] < key[y] PROVE rank(x) < rank(y)
  <2>1. below(x) \cup {y} \subseteq below(y) /\ y \notin below(x)
    <3>1. \A z \in S : key[z] <= key[x] => key[z] <= key[y]
      BY <1>3
    <3>2. ~(key[y] <= key[x]) /\ key[y] <= key[y]
      BY <1>3
    <3> QED BY <3>1, <3>2
  <2> HIDE DEF below
  <2>2. Cardinality(below(x) \cup {y}) = Cardinality(below(x)) + 1
    BY <1>2, <2>1, FS_AddElement
  <2>3. Cardinality(below(x) \cup {y}) <= Cardinality(below(y))
    BY <1>2, <2>1, FS_Subset
  <2>4. Cardinality(below(x)) \in Nat /\ Cardinality(below(y)) \in Nat
    BY <1>2, FS_CardinalityType
  <2> QED BY <1>2, <2>2, <2>3, <2>4
<1>4. ASSUME NEW x \in S, NEW y \in S, rank(x) = rank(y) PROVE x = y
  <2>1. rank(x) \in Int /\ rank(y) \in Int
    <3> HIDE DEF n, rank, below, f
    <3>1. rank(x) \in 1..n /\ rank(y) \in 1..n
      BY <1>2
    <3> QED BY <1>1, <3>1
  <2> HIDE DEF rank
  <2>2. ~(key[x] < key[y]) /\ ~(key[y] < key[x])
    BY <1>3, <1>4, <2>1
  <2>3. key[x] = key[y]
    BY <2>2
  <2> QED BY <2>3
<1>5. f \in Injection(S, 1..n)
  BY <1>2, <1>4 DEF Injection, IsInjective
<1>6. IsFiniteSet(1..n) /\ Cardinality(1..n) = n
  BY <1>1, FS_Interval
<1>7. f \in Surjection(S, 1..n)
  <2> HIDE DEF f
  <2> QED BY <1>5, <1>6, FS_Injection DEF n
<1>8. \A k \in 1..n : \E x \in S : rank(x) = k
  BY <1>7 DEF Surjection
<1> QED BY <1>1, <1>2, <1>3, <1>4, <1>8

(* The set in the order of the key.                                        *)
InKeyOrder(S, key) == [k \in 1..Cardinality(S) |-> CHOOSE x \in S : RankBy(S, key, x) = k]

LEMMA RankedSeq ==
  ASSUME NEW S, IsFiniteSet(S), NEW key \in [S -> Int],
         \A x, y \in S : key[x] = key[y] => x = y
  PROVE  LET s == InKeyOrder(S, key)
         IN  /\ s \in Seq(S) /\ Len(s) = Cardinality(S) /\ ToSet(s) = S
             /\ DOMAIN s = 1..Len(s)
             /\ \A i, j \in 1..Len(s) : i < j => key[s[i]] < key[s[j]]
<1> DEFINE n == Cardinality(S)
           s == InKeyOrder(S, key)
<1>1. n \in Nat
  BY FS_CardinalityType
<1>2. /\ \A x \in S : RankBy(S, key, x) \in 1..n
      /\ \A x, y \in S : key[x] < key[y] => RankBy(S, key, x) < RankBy(S, key, y)
      /\ \A x, y \in S : RankBy(S, key, x) = RankBy(S, key, y) => x = y
      /\ \A k \in 1..n : \E x \in S : RankBy(S, key, x) = k
  BY RanksBy
<1>3. s = [k \in 1..n |-> CHOOSE x \in S : RankBy(S, key, x) = k]
  BY DEF InKeyOrder
<1> HIDE DEF n, s
<1>4. /\ \A k \in 1..n : s[k] \in S /\ RankBy(S, key, s[k]) = k
      /\ s \in [1..n -> S]
  BY <1>2, <1>3
<1>5. s \in Seq(S) /\ Len(s) = n /\ DOMAIN s = 1..n
  BY <1>1, <1>4
<1>6. \A x \in S : s[RankBy(S, key, x)] = x /\ RankBy(S, key, x) \in 1..n
  BY <1>2, <1>4
<1>7. ToSet(s) = S
  BY <1>4, <1>5, <1>6 DEF ToSet
<1>8. ASSUME NEW i \in 1..n, NEW j \in 1..n, i < j PROVE key[s[i]] < key[s[j]]
  <2>1. s[i] \in S /\ s[j] \in S /\ key[s[i]] \in Int /\ key[s[j]] \in Int
    BY <1>4
  <2>2. s[i] # s[j]
    BY <1>4, <1>8
  <2>3. key[s[i]] # key[s[j]]
    BY <2>1, <2>2
  <2>4. ~(key[s[j]] < key[s[i]])
    <3> SUFFICES ASSUME key[s[j]] < key[s[i]] PROVE FALSE
      OBVIOUS
    <3>1. RankBy(S, key, s[j]) < RankBy(S, key, s[i])
      BY <1>2, <2>1
    <3> QED BY <1>4, <1>8, <3>1
  <2> QED BY <2>1, <2>3, <2>4
<1> QED BY <1>5, <1>7, <1>8 DEF n, s

(* The elements that rank within a budget are as many as it allows.        *)
LEMMA LeastOf ==
  ASSUME NEW S, IsFiniteSet(S), NEW key \in [S -> Int],
         \A x, y \in S : key[x] = key[y] => x = y, NEW m \in Nat,
         NEW T, T = {x \in S : RankBy(S, key, x) <= m}
  PROVE  IsFiniteSet(T) /\ Cardinality(T) = Min({m, Cardinality(S)})
<1> DEFINE n == Cardinality(S)
           k == IF m <= n THEN m ELSE n
           f == [x \in T |-> RankBy(S, key, x)]
<1>1. n \in Nat /\ k \in Nat /\ k <= n
  BY FS_CardinalityType
<1>2. Min({m, n}) = k
  BY <1>1, MinOfTwo
<1>3. /\ \A x \in S : RankBy(S, key, x) \in 1..n
      /\ \A x, y \in S : RankBy(S, key, x) = RankBy(S, key, y) => x = y
      /\ \A i \in 1..n : \E x \in S : RankBy(S, key, x) = i
  BY RanksBy
<1> HIDE DEF n
<1>4. \A x \in S : x \in T <=> RankBy(S, key, x) \in 1..k
  BY <1>1, <1>3
<1>5. \A i \in 1..k : \E x \in T : RankBy(S, key, x) = i
  BY <1>1, <1>3, <1>4
<1>6. f \in Bijection(T, 1..k)
  BY <1>3, <1>4, <1>5 DEF Bijection, Injection, Surjection, IsInjective
<1>7. IsFiniteSet(T)
  BY FS_Subset
<1>8. ExistsBijection(T, 1..k)
  BY <1>6 DEF ExistsBijection
<1>9. Cardinality(1..k) = Cardinality(T)
  BY <1>7, <1>8, FS_Bijection
<1>10. Cardinality(1..k) = k
  BY <1>1, FS_Interval
<1> QED BY <1>2, <1>7, <1>9, <1>10 DEF n

(* The same of positions, which are their own key.                         *)
RankIn(S, i) == Cardinality({j \in S : j <= i})

LEMMA OwnKey ==
  ASSUME NEW S, S \subseteq Nat
  PROVE  /\ [i \in S |-> i] \in [S -> Int]
         /\ \A i, j \in S : [k \in S |-> k][i] = [k \in S |-> k][j] => i = j
         /\ \A i \in S : RankBy(S, [k \in S |-> k], i) = RankIn(S, i)
<1> DEFINE key == [k \in S |-> k]
<1>1. key \in [S -> Int] /\ \A i \in S : key[i] = i
  OBVIOUS
<1> HIDE DEF key
<1>2. ASSUME NEW i \in S PROVE RankBy(S, key, i) = RankIn(S, i)
  <2>1. {j \in S : key[j] <= key[i]} = {j \in S : j <= i}
    BY <1>1
  <2> QED BY <2>1 DEF RankBy, RankIn
<1>3. \A i, j \in S : key[i] = key[j] => i = j
  BY <1>1
<1> QED BY <1>1, <1>2, <1>3 DEF key

LEMMA RanksOfOwn ==
  ASSUME NEW S, IsFiniteSet(S), NEW key \in [S -> Int],
         \A i, j \in S : key[i] = key[j] => i = j,
         \A i \in S : RankBy(S, key, i) = RankIn(S, i), \A i \in S : key[i] = i
  PROVE  /\ Cardinality(S) \in Nat
         /\ \A i \in S : RankIn(S, i) \in 1..Cardinality(S)
         /\ \A i, j \in S : i < j => RankIn(S, i) < RankIn(S, j)
         /\ \A k \in 1..Cardinality(S) : \E i \in S : RankIn(S, i) = k
<1>1. /\ Cardinality(S) \in Nat
      /\ \A x \in S : RankBy(S, key, x) \in 1..Cardinality(S)
      /\ \A x, y \in S : key[x] < key[y] => RankBy(S, key, x) < RankBy(S, key, y)
      /\ \A k \in 1..Cardinality(S) : \E x \in S : RankBy(S, key, x) = k
  BY RanksBy
<1> QED BY <1>1

LEMMA Ranks ==
  ASSUME NEW S, S \subseteq Nat, IsFiniteSet(S)
  PROVE  /\ Cardinality(S) \in Nat
         /\ \A i \in S : RankIn(S, i) \in 1..Cardinality(S)
         /\ \A i, j \in S : i < j => RankIn(S, i) < RankIn(S, j)
         /\ \A k \in 1..Cardinality(S) : \E i \in S : RankIn(S, i) = k
<1>1. PICK key \in [S -> Int] :
        /\ \A i, j \in S : key[i] = key[j] => i = j
        /\ \A i \in S : RankBy(S, key, i) = RankIn(S, i)
        /\ \A i \in S : key[i] = i
  <2> DEFINE own == [i \in S |-> i]
  <2>1. /\ own \in [S -> Int]
        /\ \A i, j \in S : own[i] = own[j] => i = j
        /\ \A i \in S : RankBy(S, own, i) = RankIn(S, i)
    BY OwnKey
  <2>2. \A i \in S : own[i] = i
    OBVIOUS
  <2> HIDE DEF own
  <2> QED BY <2>1, <2>2
<1> QED BY <1>1, RanksOfOwn
=============================================================================
