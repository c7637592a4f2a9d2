------------------------------- MODULE PickProofs --------------------------------
(***************************************************************************)
(* Proofs about the choice of products, for every catalogue and customer:  *)
(* what the operators on lists return, and that the rotation, the fallback *)
(* and the cross-sell are fair.                                            *)
(***************************************************************************)
EXTENDS Services, FiniteSetTheorems, SequenceTheorems, TLAPS

-----------------------------------------------------------------------------
(* Ordering and filtering.                                                 *)

Ordered(before, S) ==
    /\ \A x \in S : <<x, x>> \notin before
    /\ \A x, y, z \in S : <<x, y>> \in before /\ <<y, z>> \in before => <<x, z>> \in before
    /\ \A x, y \in S : x = y \/ <<x, y>> \in before \/ <<y, x>> \in before

\* The library of products counts with the same operator as this module.
LEMMA SameCounts == \A S : Pick!Cardinality(S) = Cardinality(S)
  BY Zenon DEF Pick!Cardinality, Cardinality

\* A set of naturals has a least element.
LEMMA SmallestExists == ASSUME NEW S \in SUBSET Nat, S # {} PROVE \E m \in S : \A x \in S : m <= x
<1>1. PICK m \in S : \A x \in S : <<x, m>> \notin OpToRel(<, Nat)
  BY NatLessThanWellFounded, WFMin, Zenon
<1>2. ASSUME NEW x \in S PROVE m <= x
  <2>1. <<x, m>> \in Nat \X Nat
    OBVIOUS
  <2>2. ~(x < m)
    BY <1>1, <2>1 DEF OpToRel
  <2>3. QED
    BY <2>2
<1>3. QED
  BY <1>2

LEMMA CountedUp == \A n \in Nat : IsFiniteSet(1 .. n) /\ Cardinality(1 .. n) = n
<1> SUFFICES ASSUME NEW n \in Nat PROVE IsFiniteSet(1 .. n) /\ Cardinality(1 .. n) = n
  OBVIOUS
<1>1. IsFiniteSet(1 .. n) /\ Cardinality(1 .. n) = IF 1 > n THEN 0 ELSE n - 1 + 1
  BY FS_Interval
<1>2. QED
  BY <1>1

\* pos lists the elements of S, each once, in the order "before".
Lists(pos, S, before) ==
    /\ pos \in [1 .. Cardinality(S) -> S]
    /\ \A x \in S : \E n \in 1 .. Cardinality(S) : pos[n] = x
    /\ \A n, m \in 1 .. Cardinality(S) : n < m <=> <<pos[n], pos[m]>> \in before

LEMMA InOrderLists ==
    ASSUME NEW S, IsFiniteSet(S), NEW before, Ordered(before, S)
    PROVE  Lists(Pick!InOrder(S, before), S, before)
<1> DEFINE N == Cardinality(S)
           Less(x) == {y \in S : <<y, x>> \in before}
           rank == [x \in S |-> Cardinality(Less(x))]
           pos == Pick!InOrder(S, before)
<1>1. N \in Nat /\ \A x \in S : IsFiniteSet(Less(x)) /\ Cardinality(Less(x)) \in Nat
  BY FS_Subset, FS_CardinalityType
<1>2. ASSUME NEW x \in S PROVE rank[x] \in 0 .. N - 1
  <2>1. Less(x) \in SUBSET S /\ x \notin Less(x)
    BY DEF Ordered
  <2> HIDE DEF Less
  <2>2. Cardinality(Less(x)) <= N /\ N # Cardinality(Less(x))
    BY <1>1, <2>1, FS_Subset
  <2>3. QED
    BY <1>1, <2>2
<1>3. ASSUME NEW x \in S, NEW y \in S, <<x, y>> \in before PROVE rank[x] < rank[y]
  <2>1. Less(x) \in SUBSET Less(y) /\ x \in Less(y) /\ x \notin Less(x)
    BY <1>3 DEF Ordered
  <2>2. rank[x] = Cardinality(Less(x)) /\ rank[y] = Cardinality(Less(y))
    OBVIOUS
  <2> HIDE DEF Less, rank
  <2>3. Cardinality(Less(x)) <= Cardinality(Less(y)) /\ Cardinality(Less(y)) # Cardinality(Less(x))
    BY <1>1, <2>1, FS_Subset
  <2>4. QED
    BY <1>1, <2>2, <2>3
<1>4. rank \in [S -> 0 .. N - 1]
  BY <1>2
<1> HIDE DEF rank
<1>5. \A x, y \in S : rank[x] < rank[y] <=> <<x, y>> \in before
  <2> SUFFICES ASSUME NEW x \in S, NEW y \in S, rank[x] < rank[y] PROVE <<x, y>> \in before
    BY <1>3
  <2>1. ~(rank[y] < rank[x]) /\ x # y
    BY <1>4
  <2>2. QED
    BY <1>3, <2>1 DEF Ordered
<1>6. \A x, y \in S : rank[x] = rank[y] => x = y
  <2> SUFFICES ASSUME NEW x \in S, NEW y \in S, rank[x] = rank[y] PROVE x = y
    OBVIOUS
  <2>1. ~(rank[x] < rank[y]) /\ ~(rank[y] < rank[x])
    BY <1>4
  <2>2. QED
    BY <1>3, <2>1 DEF Ordered
<1>7. \A n \in 1 .. N : \E x \in S : rank[x] = n - 1
  <2>1. rank \in Injection(S, 0 .. N - 1)
    BY <1>4, <1>6 DEF Injection, IsInjective
  <2>2. IsFiniteSet(0 .. N - 1) /\ Cardinality(0 .. N - 1) = N
    BY SMTT(20), <1>1, FS_Interval
  <2>3. rank \in Surjection(S, 0 .. N - 1)
    BY <2>1, <2>2, FS_Injection
  <2>4. \A k \in 0 .. N - 1 : \E x \in S : rank[x] = k
    BY <2>3 DEF Surjection
  <2>5. \A n \in 1 .. N : n - 1 \in 0 .. N - 1
    BY <1>1
  <2>6. QED
    BY <2>4, <2>5
<1>8. pos = [n \in 1 .. N |-> CHOOSE x \in S : Pick!Cardinality(Less(x)) = n - 1]
  BY SameCounts DEF Pick!InOrder
<1> HIDE DEF pos
<1>9. ASSUME NEW n \in 1 .. N PROVE pos[n] \in S /\ rank[pos[n]] = n - 1
  <2>1. \E x \in S : Pick!Cardinality(Less(x)) = n - 1
    BY <1>7, SameCounts DEF rank
  <2>2. pos[n] = CHOOSE x \in S : Pick!Cardinality(Less(x)) = n - 1
    BY <1>8
  <2>3. pos[n] \in S /\ Pick!Cardinality(Less(pos[n])) = n - 1
    BY <2>1, <2>2, Zenon
  <2>4. QED
    BY <2>3, SameCounts DEF rank
<1>10. pos \in [1 .. N -> S]
  BY <1>8, <1>9
<1>11. \A x \in S : \E n \in 1 .. N : pos[n] = x
  <2> SUFFICES ASSUME NEW x \in S PROVE \E n \in 1 .. N : pos[n] = x
    OBVIOUS
  <2>1. rank[x] + 1 \in 1 .. N
    BY <1>1, <1>4
  <2>2. rank[pos[rank[x] + 1]] = rank[x] /\ pos[rank[x] + 1] \in S
    BY <1>4, <1>9, <2>1
  <2>3. QED
    BY <1>6, <2>1, <2>2
<1>12. \A n, m \in 1 .. N : n < m <=> <<pos[n], pos[m]>> \in before
  <2> SUFFICES ASSUME NEW n \in 1 .. N, NEW m \in 1 .. N PROVE n < m <=> <<pos[n], pos[m]>> \in before
    OBVIOUS
  <2>1. n < m <=> rank[pos[n]] < rank[pos[m]]
    BY <1>9
  <2>2. QED
    BY <1>5, <1>9, <2>1
<1>13. QED
  BY <1>10, <1>11, <1>12 DEF Lists, pos

-----------------------------------------------------------------------------
\* The places K of a list, in order; t is what stands there in s.
KeepsPlaces(t, s, K, pos) ==
    /\ pos \in [1 .. Len(t) -> K]
    /\ \A k \in K : \E n \in 1 .. Len(t) : pos[n] = k
    /\ \A n, m \in 1 .. Len(t) : n < m <=> pos[n] < pos[m]
    /\ \A n \in 1 .. Len(t) : t[n] = s[pos[n]]

LEMMA KeepFacts ==
    ASSUME NEW X, NEW s \in Seq(X), NEW K \in SUBSET (1 .. Len(s))
    PROVE  /\ IsFiniteSet(K) /\ Pick!Keep(s, K) \in Seq(X) /\ Len(Pick!Keep(s, K)) = Cardinality(K)
           /\ \E pos : KeepsPlaces(Pick!Keep(s, K), s, K, pos)
<1> DEFINE less == {p \in K \X K : p[1] < p[2]}
           pos == Pick!InOrder(K, less)
           N == Cardinality(K)
           t == Pick!Keep(s, K)
<1>1. Len(s) \in Nat
  OBVIOUS
<1>2. IsFiniteSet(1 .. Len(s))
  BY <1>1, FS_Interval
<1>3. IsFiniteSet(K) /\ N \in Nat
  BY <1>2, FS_Subset, FS_CardinalityType
<1>4. \A x, y \in K : <<x, y>> \in less <=> x < y
  OBVIOUS
<1>5. Ordered(less, K)
  <2> HIDE DEF less
  <2>1. K \subseteq Int
    BY <1>1
  <2>2. QED
    BY <1>4, <2>1 DEF Ordered
<1>6. Lists(pos, K, less)
  BY <1>3, <1>5, InOrderLists
<1>7. t = [n \in 1 .. N |-> s[pos[n]]]
  BY SameCounts DEF Pick!Keep
<1> HIDE DEF less, pos, t
<1>8. pos \in [1 .. N -> K]
  BY <1>6 DEF Lists
<1>9. ASSUME NEW n \in 1 .. N PROVE s[pos[n]] \in X
  <2>1. pos[n] \in 1 .. Len(s)
    BY <1>8
  <2>2. QED
    BY <2>1, ElementOfSeq
<1>10. t \in [1 .. N -> X]
  BY <1>7, <1>9
<1>11. t \in Seq(X) /\ Len(t) = N
  BY <1>3, <1>10
<1>12. KeepsPlaces(t, s, K, pos)
  BY <1>4, <1>6, <1>7, <1>8, <1>11 DEF Lists, KeepsPlaces
<1>13. QED
  BY <1>3, <1>11, <1>12 DEF t

\* If a member of own follows a stranger, it has been there before the stranger.
OwnFirst(s, own) ==
    \A i, j \in DOMAIN s : i < j /\ s[j] \in own /\ s[i] \notin own => \E h \in DOMAIN s : h < i /\ s[h] = s[j]

\* What a filter leaves: whether a place stays depends on what stands there.
LEMMA FilterFacts ==
    ASSUME NEW X, NEW s \in Seq(X), NEW K \in SUBSET (1 .. Len(s)), NEW t, t = Pick!Keep(s, K),
           \A i, j \in 1 .. Len(s) : s[i] = s[j] /\ i \in K => j \in K
    PROVE  /\ t \in Seq(X) /\ Len(t) <= Len(s) /\ Len(t) = Cardinality(K)
           /\ Pick!ToSet(t) = {s[k] : k \in K}
           /\ Pick!IsInjective(s) => Pick!IsInjective(t)
           /\ \A own : OwnFirst(s, own) => OwnFirst(t, own)
           /\ t # <<>> => \E k \in K : t[1] = s[k] /\ \A j \in K : k <= j
<1>1. IsFiniteSet(K) /\ t \in Seq(X) /\ Len(t) = Cardinality(K)
  BY KeepFacts
<1>2. PICK pos : KeepsPlaces(t, s, K, pos)
  BY KeepFacts
<1>3. /\ Len(s) \in Nat /\ DOMAIN s = 1 .. Len(s) /\ Len(t) \in Nat /\ DOMAIN t = 1 .. Len(t)
  BY <1>1, LenProperties
<1>4. /\ \A n \in 1 .. Len(t) : pos[n] \in K /\ t[n] = s[pos[n]]
      /\ \A k \in K : \E n \in 1 .. Len(t) : pos[n] = k
      /\ \A n, m \in 1 .. Len(t) : n < m <=> pos[n] < pos[m]
  BY <1>2 DEF KeepsPlaces
<1>5. Len(t) <= Len(s)
  <2>1. IsFiniteSet(1 .. Len(s)) /\ Cardinality(1 .. Len(s)) = Len(s)
    BY <1>3, CountedUp
  <2>2. QED
    BY ZenonT(30), <1>1, <2>1, FS_Subset
<1>6. Pick!ToSet(t) = {s[k] : k \in K}
  <2>1. \A n \in DOMAIN t : \E k \in K : t[n] = s[k]
    BY <1>3, <1>4
  <2>2. \A k \in K : \E n \in DOMAIN t : t[n] = s[k]
    BY <1>3, <1>4
  <2>3. QED
    BY <2>1, <2>2 DEF Pick!ToSet
<1>7. \A n, m \in 1 .. Len(t) : pos[n] = pos[m] => n = m
  <2> SUFFICES ASSUME NEW n \in 1 .. Len(t), NEW m \in 1 .. Len(t), pos[n] = pos[m] PROVE n = m
    OBVIOUS
  <2>1. pos[n] \in 1 .. Len(s) /\ pos[m] = pos[n]
    BY <1>4
  <2>2. ~(pos[n] < pos[m]) /\ ~(pos[m] < pos[n])
    BY <1>3, <2>1
  <2>3. ~(n < m) /\ ~(m < n)
    BY <1>4, <2>2
  <2>4. QED
    BY <1>3, <2>3
<1>8. ASSUME Pick!IsInjective(s) PROVE Pick!IsInjective(t)
  <2> SUFFICES ASSUME NEW n \in 1 .. Len(t), NEW m \in 1 .. Len(t), t[n] = t[m] PROVE n = m
    BY <1>3 DEF Pick!IsInjective
  <2>1. pos[n] \in DOMAIN s /\ pos[m] \in DOMAIN s /\ s[pos[n]] = s[pos[m]]
    BY <1>3, <1>4
  <2>2. pos[n] = pos[m]
    BY <1>8, <2>1 DEF Pick!IsInjective
  <2>3. QED
    BY <1>7, <2>2
<1>9. ASSUME NEW own, OwnFirst(s, own) PROVE OwnFirst(t, own)
  <2> SUFFICES ASSUME NEW n \in 1 .. Len(t), NEW m \in 1 .. Len(t), n < m, t[m] \in own, t[n] \notin own
               PROVE  \E h \in 1 .. Len(t) : h < n /\ t[h] = t[m]
    BY <1>3 DEF OwnFirst
  <2>1. pos[n] < pos[m] /\ pos[n] \in DOMAIN s /\ pos[m] \in DOMAIN s /\ s[pos[m]] \in own /\ s[pos[n]] \notin own
    BY <1>3, <1>4
  <2>2. PICK h \in DOMAIN s : h < pos[n] /\ s[h] = s[pos[m]]
    BY <1>9, <2>1 DEF OwnFirst
  <2>3. h \in K
    BY <1>3, <1>4, <2>1, <2>2
  <2>4. PICK i \in 1 .. Len(t) : pos[i] = h
    BY <1>4, <2>3
  <2>5. QED
    BY <1>4, <2>2, <2>4
<1>10. ASSUME t # <<>> PROVE \E k \in K : t[1] = s[k] /\ \A j \in K : k <= j
  <2>1. 1 \in 1 .. Len(t) /\ \A n \in 1 .. Len(t) : n = 1 \/ 1 < n
    BY <1>1, <1>3, <1>10, EmptySeq
  <2>2. pos[1] \in K /\ t[1] = s[pos[1]]
    BY <1>4, <2>1
  <2>3. ASSUME NEW j \in K PROVE pos[1] <= j
    <3>1. PICK n \in 1 .. Len(t) : pos[n] = j
      BY <1>4
    <3>2. pos[1] = pos[n] \/ pos[1] < pos[n]
      BY <1>4, <2>1
    <3>3. QED
      BY <1>3, <2>2, <3>1, <3>2
  <2>4. QED
    BY <2>2, <2>3
<1>11. QED
  BY <1>1, <1>5, <1>6, <1>8, <1>9, <1>10

\* t begins with the first element of s that is not in S.
BeginsLeft(t, s, S) ==
    t # <<>> => \E k \in 1 .. Len(s) : /\ t[1] = s[k] /\ s[k] \notin S
                                       /\ \A j \in 1 .. Len(s) : s[j] \notin S => k <= j

LEMMA WithoutFacts ==
    ASSUME NEW X, NEW s \in Seq(X), NEW S, NEW t, t = Pick!Without(s, S)
    PROVE  /\ t \in Seq(X) /\ Len(t) <= Len(s) /\ Pick!ToSet(t) = Pick!ToSet(s) \ S
           /\ Len(t) = Cardinality({i \in 1 .. Len(s) : s[i] \notin S})
           /\ Pick!IsInjective(s) => Pick!IsInjective(t)
           /\ \A own : OwnFirst(s, own) => OwnFirst(t, own)
           /\ BeginsLeft(t, s, S)
<1> DEFINE K == {i \in 1 .. Len(s) : s[i] \notin S}
<1>1. DOMAIN s = 1 .. Len(s)
  OBVIOUS
<1>2. t = Pick!Keep(s, K)
  BY <1>1 DEF Pick!Without
<1>3. K \in SUBSET (1 .. Len(s)) /\ \A i, j \in 1 .. Len(s) : s[i] = s[j] /\ i \in K => j \in K
  OBVIOUS
<1>4. {s[k] : k \in K} = Pick!ToSet(s) \ S
  BY <1>1 DEF Pick!ToSet
<1>5. \A i : i \in K <=> i \in 1 .. Len(s) /\ s[i] \notin S
  OBVIOUS
<1>6. K = {i \in 1 .. Len(s) : s[i] \notin S}
  OBVIOUS
<1> HIDE DEF K
<1>7. /\ t \in Seq(X) /\ Len(t) <= Len(s) /\ Len(t) = Cardinality(K)
      /\ Pick!ToSet(t) = {s[k] : k \in K}
      /\ Pick!IsInjective(s) => Pick!IsInjective(t)
      /\ \A own : OwnFirst(s, own) => OwnFirst(t, own)
      /\ t # <<>> => \E k \in K : t[1] = s[k] /\ \A j \in K : k <= j
  BY <1>2, <1>3, FilterFacts
<1>8. BeginsLeft(t, s, S)
  BY <1>5, <1>7 DEF BeginsLeft
<1>9. QED
  BY <1>4, <1>6, <1>7, <1>8

LEMMA OnlyFacts ==
    ASSUME NEW X, NEW s \in Seq(X), NEW S, NEW t, t = Pick!Only(s, S)
    PROVE  /\ t \in Seq(X) /\ Len(t) <= Len(s) /\ Pick!ToSet(t) = Pick!ToSet(s) \intersect S
           /\ Pick!IsInjective(s) => Pick!IsInjective(t)
<1> DEFINE K == {i \in 1 .. Len(s) : s[i] \in S}
<1>1. DOMAIN s = 1 .. Len(s)
  OBVIOUS
<1>2. t = Pick!Keep(s, K)
  BY <1>1 DEF Pick!Only
<1>3. K \in SUBSET (1 .. Len(s)) /\ \A i, j \in 1 .. Len(s) : s[i] = s[j] /\ i \in K => j \in K
  OBVIOUS
<1>4. {s[k] : k \in K} = Pick!ToSet(s) \intersect S
  BY <1>1 DEF Pick!ToSet
<1> HIDE DEF K
<1>5. /\ t \in Seq(X) /\ Len(t) <= Len(s) /\ Pick!ToSet(t) = {s[k] : k \in K}
      /\ Pick!IsInjective(s) => Pick!IsInjective(t)
  BY <1>2, <1>3, FilterFacts
<1>6. QED
  BY <1>4, <1>5

\* The first occurrences, in order.
LEMMA DistinctFacts ==
    ASSUME NEW X, NEW s \in Seq(X), NEW t, t = Pick!Distinct(s)
    PROVE  /\ t \in Seq(X) /\ Len(t) <= Len(s) /\ Pick!ToSet(t) = Pick!ToSet(s)
           /\ Pick!IsInjective(t)
           /\ \A own : OwnFirst(s, own) => OwnFirst(t, own)
           /\ s # <<>> => t # <<>> /\ t[1] = s[1]
<1> DEFINE K == {i \in 1 .. Len(s) : \A j \in 1 .. Len(s) : j < i => s[j] # s[i]}
<1>1. DOMAIN s = 1 .. Len(s) /\ Len(s) \in Nat
  OBVIOUS
<1>2. t = Pick!Keep(s, K)
  BY <1>1 DEF Pick!Distinct
<1>3. K \in SUBSET (1 .. Len(s))
  OBVIOUS
<1>4. ASSUME NEW i \in 1 .. Len(s) PROVE \E k \in K : s[k] = s[i] /\ k <= i
  <2> DEFINE Same == {j \in 1 .. Len(s) : s[j] = s[i]}
  <2>1. Same \in SUBSET Nat /\ Same # {}
    OBVIOUS
  <2>2. PICK k \in Same : \A x \in Same : k <= x
    <3> HIDE DEF Same
    <3>1. QED
      BY <2>1, SmallestExists
  <2>3. k \in 1 .. Len(s) /\ s[k] = s[i] /\ k <= i
    BY <2>2
  <2>4. ASSUME NEW j \in 1 .. Len(s), j < k PROVE s[j] # s[k]
    BY <2>2, <2>3, <2>4
  <2>5. QED
    BY <2>3, <2>4
<1>5. \A i, j \in K : s[i] = s[j] => i = j
  OBVIOUS
<1>6. 1 \in 1 .. Len(s) => 1 \in K
  OBVIOUS
<1>7. \A i \in K : \A j \in 1 .. Len(s) : j < i => s[j] # s[i]
  OBVIOUS
<1> HIDE DEF K
<1>8. IsFiniteSet(K) /\ t \in Seq(X) /\ Len(t) = Cardinality(K)
  BY <1>2, <1>3, KeepFacts
<1>9. PICK pos : KeepsPlaces(t, s, K, pos)
  BY <1>2, <1>3, KeepFacts
<1>10. Len(t) \in Nat /\ DOMAIN t = 1 .. Len(t)
  BY <1>8, LenProperties
<1>11. /\ \A n \in 1 .. Len(t) : pos[n] \in K /\ pos[n] \in 1 .. Len(s) /\ t[n] = s[pos[n]]
       /\ \A k \in K : \E n \in 1 .. Len(t) : pos[n] = k
       /\ \A n, m \in 1 .. Len(t) : n < m <=> pos[n] < pos[m]
  BY <1>3, <1>9 DEF KeepsPlaces
<1>12. Len(t) <= Len(s)
  <2>1. IsFiniteSet(1 .. Len(s)) /\ Cardinality(1 .. Len(s)) = Len(s)
    BY <1>1, CountedUp
  <2>2. Cardinality(K) <= Cardinality(1 .. Len(s))
    BY <1>3, <2>1, FS_Subset
  <2>3. QED
    BY <1>8, <2>1, <2>2
<1>13. Pick!ToSet(t) = Pick!ToSet(s)
  <2>1. \A n \in DOMAIN t : \E i \in DOMAIN s : t[n] = s[i]
    BY <1>1, <1>10, <1>11
  <2>2. ASSUME NEW i \in DOMAIN s PROVE \E n \in DOMAIN t : t[n] = s[i]
    <3>1. PICK k \in K : s[k] = s[i]
      BY <1>1, <1>4
    <3>2. QED
      BY <1>10, <1>11, <3>1
  <2>3. QED
    BY <2>1, <2>2 DEF Pick!ToSet
<1>14. Pick!IsInjective(t)
  <2> SUFFICES ASSUME NEW n \in 1 .. Len(t), NEW m \in 1 .. Len(t), t[n] = t[m] PROVE n = m
    BY <1>10 DEF Pick!IsInjective
  <2>0. pos[n] \in K /\ pos[m] \in K /\ s[pos[n]] = s[pos[m]]
    BY <1>11
  <2>1. pos[n] \in 1 .. Len(s) /\ pos[m] = pos[n]
    BY <1>3, <1>5, <2>0
  <2>2. ~(pos[n] < pos[m]) /\ ~(pos[m] < pos[n])
    BY <1>1, <2>1
  <2>3. ~(n < m) /\ ~(m < n)
    BY <1>11, <2>2
  <2>4. QED
    BY <1>10, <2>3
<1>15. ASSUME NEW own, OwnFirst(s, own) PROVE OwnFirst(t, own)
  <2> SUFFICES ASSUME NEW n \in 1 .. Len(t), NEW m \in 1 .. Len(t), n < m, t[m] \in own, t[n] \notin own PROVE FALSE
    BY <1>10 DEF OwnFirst
  <2>1. pos[n] < pos[m] /\ pos[n] \in DOMAIN s /\ pos[m] \in DOMAIN s /\ s[pos[m]] \in own /\ s[pos[n]] \notin own
    BY <1>1, <1>11
  <2>2. PICK h \in DOMAIN s : h < pos[n] /\ s[h] = s[pos[m]]
    BY <1>15, <2>1 DEF OwnFirst
  <2>3. h < pos[m]
    BY <1>1, <2>1, <2>2
  <2>4. QED
    BY <1>1, <1>7, <1>11, <2>2, <2>3
<1>16. ASSUME s # <<>> PROVE t # <<>> /\ t[1] = s[1]
  <2>1. 1 \in 1 .. Len(s)
    BY <1>1, <1>16, EmptySeq
  <2>2. PICK n \in 1 .. Len(t) : pos[n] = 1
    BY <1>6, <1>11, <2>1
  <2>3. 1 \in 1 .. Len(t) /\ (n = 1 \/ 1 < n)
    BY <1>10
  <2>4. ~(pos[1] < pos[n])
    BY <1>1, <1>11, <2>2, <2>3
  <2>5. n = 1
    BY <1>11, <2>3, <2>4
  <2>6. t # <<>>
    BY <1>8, <2>3, EmptySeq
  <2>7. QED
    BY <1>11, <2>2, <2>5, <2>6
<1>17. QED
  BY <1>8, <1>12, <1>13, <1>14, <1>15, <1>16

-----------------------------------------------------------------------------
(* Counting, cutting and turning lists.                                    *)

\* What holds up to some place holds up to its number.
LEMMA PrefixCount ==
    ASSUME NEW n \in Nat, NEW A \in SUBSET (1 .. n), \A i \in A : \A j \in 1 .. n : j < i => j \in A
    PROVE  IsFiniteSet(A) /\ Cardinality(A) \in 0 .. n /\ \A i \in 1 .. n : i <= Cardinality(A) <=> i \in A
<1>1. IsFiniteSet(1 .. n) /\ Cardinality(1 .. n) = n
  BY CountedUp
<1>2. IsFiniteSet(A) /\ Cardinality(A) <= Cardinality(1 .. n)
  BY <1>1, FS_Subset
<1>3. Cardinality(A) \in Nat
  BY <1>2, FS_CardinalityType
<1>4. ASSUME NEW i \in A PROVE i <= Cardinality(A)
  <2>1. 1 .. i \in SUBSET A /\ i \in Nat
    OBVIOUS
  <2>2. Cardinality(1 .. i) = i
    BY <2>1, CountedUp
  <2>3. Cardinality(1 .. i) <= Cardinality(A)
    BY <1>2, <2>1, FS_Subset
  <2>4. QED
    BY <2>2, <2>3
<1>5. ASSUME NEW i \in 1 .. n, i \notin A PROVE Cardinality(A) < i
  <2>1. \A j \in A : j < i
    BY <1>5
  <2>2. A \in SUBSET (1 .. (i - 1)) /\ i - 1 \in Nat
    BY <2>1
  <2>3. IsFiniteSet(1 .. (i - 1)) /\ Cardinality(1 .. (i - 1)) = i - 1
    BY <2>2, CountedUp
  <2>4. Cardinality(A) <= Cardinality(1 .. (i - 1))
    BY <2>2, <2>3, FS_Subset
  <2>5. QED
    BY <1>3, <2>3, <2>4
<1>6. ASSUME NEW i \in 1 .. n PROVE i <= Cardinality(A) <=> i \in A
  BY <1>3, <1>4, <1>5
<1>7. QED
  BY <1>1, <1>2, <1>3, <1>6

LEMMA ListCounts ==
    ASSUME NEW X, NEW t \in Seq(X)
    PROVE  /\ IsFiniteSet(Pick!ToSet(t)) /\ Cardinality(Pick!ToSet(t)) \in Nat /\ Cardinality(Pick!ToSet(t)) <= Len(t)
           /\ Pick!IsInjective(t) => Cardinality(Pick!ToSet(t)) = Len(t)
           /\ Pick!ToSet(t) \in SUBSET X
<1> DEFINE I == 1 .. Len(t)
           S == Pick!ToSet(t)
<1>1. Len(t) \in Nat /\ DOMAIN t = I /\ t \in [I -> X]
  BY LenProperties
<1>2. S = {t[i] : i \in I}
  BY <1>1 DEF Pick!ToSet
<1>3. IsFiniteSet(I) /\ Cardinality(I) = Len(t)
  BY <1>1, CountedUp
<1> HIDE DEF I, S
<1>4. t \in Surjection(I, S)
  BY <1>1, <1>2 DEF Surjection
<1>5. IsFiniteSet(S) /\ Cardinality(S) <= Cardinality(I) /\ (Cardinality(S) = Cardinality(I) <=> t \in Injection(I, S))
  BY <1>3, <1>4, FS_Surjection
<1>6. ASSUME Pick!IsInjective(t) PROVE t \in Injection(I, S)
  BY <1>1, <1>4, <1>6 DEF Pick!IsInjective, Injection, IsInjective, Surjection
<1>7. Cardinality(S) \in Nat
  BY <1>5, FS_CardinalityType
<1>8. S \in SUBSET X
  BY <1>1, <1>2
<1>9. QED
  BY <1>3, <1>5, <1>6, <1>7, <1>8 DEF S

LEMMA SmallerIs ==
    \A a, b \in Nat : /\ Pick!Smaller(a, b) \in Nat /\ Pick!Smaller(a, b) <= b
                      /\ Pick!Smaller(a, b) <= a /\ (b <= a => Pick!Smaller(a, b) = b)
                      /\ (Pick!Smaller(a, b) = a \/ Pick!Smaller(a, b) = b)
  BY DEF Pick!Smaller

LEMMA TakeFacts ==
    ASSUME NEW X, NEW s \in Seq(X), NEW n \in Nat, NEW t, t = Pick!Take(s, n)
    PROVE  /\ t \in Seq(X) /\ Len(t) = Pick!Smaller(n, Len(s))
           /\ \A i \in 1 .. Len(t) : i \in 1 .. Len(s) /\ t[i] = s[i]
           /\ Pick!ToSet(t) \in SUBSET Pick!ToSet(s)
           /\ Len(s) <= n => t = s
           /\ Pick!IsInjective(s) => Pick!IsInjective(t)
<1> DEFINE m == Pick!Smaller(n, Len(s))
<1>1. Len(s) \in Nat /\ DOMAIN s = 1 .. Len(s)
  BY LenProperties
<1>2. m \in Nat /\ m <= Len(s) /\ (Len(s) <= n => m = Len(s))
  BY <1>1, SmallerIs
<1>3. t = SubSeq(s, 1, m)
  BY DEF Pick!Take
<1> HIDE DEF m
<1>4. ASSUME NEW i \in 1 .. m PROVE i \in 1 .. Len(s) /\ s[i] \in X
  <2>1. i \in 1 .. Len(s)
    <3>1. m \in Nat /\ m <= Len(s) /\ Len(s) \in Nat
      BY <1>1, <1>2
    <3>2. QED
      BY <3>1
  <2>2. QED
    BY <2>1, ElementOfSeq
<1>5. /\ t \in Seq(X) /\ Len(t) = (IF 1 <= m THEN m - 1 + 1 ELSE 0)
      /\ \A i \in 1 .. m - 1 + 1 : t[i] = s[1 + i - 1]
  BY <1>2, <1>3, <1>4, SubSeqProperties
<1>6. Len(t) = m
  BY <1>2, <1>5
<1>7. \A i \in 1 .. m : t[i] = s[i]
  BY <1>2, <1>5
<1>8. DOMAIN t = 1 .. m
  BY <1>5, <1>6
<1>9. Pick!ToSet(t) \in SUBSET Pick!ToSet(s)
  <2>1. \A i \in DOMAIN t : i \in DOMAIN s /\ t[i] = s[i]
    BY <1>1, <1>4, <1>7, <1>8
  <2>2. QED
    BY <2>1 DEF Pick!ToSet
<1>10. ASSUME Len(s) <= n PROVE t = s
  BY <1>2, <1>3, <1>10, SubSeqFull
<1>11. ASSUME Pick!IsInjective(s) PROVE Pick!IsInjective(t)
  <2>1. \A i \in DOMAIN t : i \in DOMAIN s /\ t[i] = s[i]
    BY <1>1, <1>4, <1>7, <1>8
  <2>2. QED
    BY <1>11, <2>1 DEF Pick!IsInjective
<1>12. QED
  BY <1>4, <1>5, <1>6, <1>7, <1>9, <1>10, <1>11 DEF m

\* A place and the place the turned list takes its element from.
Turned(i, o, n) == IF i + o <= n THEN i + o ELSE i + o - n

LEMMA TurnedFacts ==
    ASSUME NEW n \in Nat, NEW o \in 0 .. n - 1
    PROVE  /\ \A i \in 1 .. n : Turned(i, o, n) \in 1 .. n
           /\ \A i, j \in 1 .. n : Turned(i, o, n) = Turned(j, o, n) => i = j
           /\ \A j \in 1 .. n : \E i \in 1 .. n : Turned(i, o, n) = j
<1>1. \A i \in 1 .. n : Turned(i, o, n) \in 1 .. n
  BY DEF Turned
<1>2. \A i, j \in 1 .. n : Turned(i, o, n) = Turned(j, o, n) => i = j
  BY DEF Turned
<1>3. ASSUME NEW j \in 1 .. n PROVE \E i \in 1 .. n : Turned(i, o, n) = j
  <2>1. CASE o < j
    <3>1. j - o \in 1 .. n /\ Turned(j - o, o, n) = j
      BY <2>1 DEF Turned
    <3>2. QED
      BY <3>1
  <2>2. CASE j <= o
    <3>1. j - o + n \in 1 .. n /\ Turned(j - o + n, o, n) = j
      BY <2>2 DEF Turned
    <3>2. QED
      BY <3>1
  <2>3. QED
    BY <2>1, <2>2
<1>4. QED
  BY <1>1, <1>2, <1>3

LEMMA RemainderFacts ==
    \A a \in Nat : \A n \in Nat \ {0} : a % n \in 0 .. n - 1 /\ (a < n => a % n = a)
  OBVIOUS

LEMMA RotateFacts ==
    ASSUME NEW X, NEW s \in Seq(X), NEW k \in Nat, NEW t, t = Pick!rotate_ids(s, k)
    PROVE  /\ t \in Seq(X) /\ Len(t) = Len(s) /\ Pick!ToSet(t) = Pick!ToSet(s)
           /\ Pick!IsInjective(s) => Pick!IsInjective(t)
           /\ k < Len(s) => \A i \in 1 .. Len(s) : t[i] = s[Turned(i, k, Len(s))]
<1> DEFINE n == Len(s)
           o == k % n
<1>1. n \in Nat /\ DOMAIN s = 1 .. n /\ s \in [1 .. n -> X]
  BY LenProperties
<1>2. t = [i \in 1 .. n |-> s[Turned(i, o, n)]]
  BY DEF Pick!rotate_ids, Turned
<1>3. n # 0 => o \in 0 .. n - 1 /\ (k < n => o = k)
  BY <1>1, RemainderFacts
<1> HIDE DEF n, o
<1>4. n # 0 => /\ \A i \in 1 .. n : Turned(i, o, n) \in 1 .. n
               /\ \A i, j \in 1 .. n : Turned(i, o, n) = Turned(j, o, n) => i = j
               /\ \A j \in 1 .. n : \E i \in 1 .. n : Turned(i, o, n) = j
  BY <1>1, <1>3, TurnedFacts
<1>5. \A i \in 1 .. n : n # 0
  BY <1>1
<1>6. /\ \A i \in 1 .. n : Turned(i, o, n) \in 1 .. n
      /\ \A i, j \in 1 .. n : Turned(i, o, n) = Turned(j, o, n) => i = j
      /\ \A j \in 1 .. n : \E i \in 1 .. n : Turned(i, o, n) = j
  BY <1>4, <1>5
<1>7. t \in [1 .. n -> X]
  <2>1. \A i \in 1 .. n : s[Turned(i, o, n)] \in X
    BY <1>1, <1>6
  <2>2. QED
    BY <1>2, <2>1
<1>8. t \in Seq(X) /\ Len(t) = n /\ DOMAIN t = 1 .. n
  BY <1>1, <1>7
<1>9. Pick!ToSet(t) = Pick!ToSet(s)
  <2>1. \A i \in DOMAIN t : \E j \in DOMAIN s : t[i] = s[j]
    BY <1>1, <1>2, <1>6
  <2>2. \A j \in DOMAIN s : \E i \in DOMAIN t : t[i] = s[j]
    BY <1>1, <1>2, <1>6
  <2>3. QED
    BY <2>1, <2>2 DEF Pick!ToSet
<1>10. ASSUME Pick!IsInjective(s) PROVE Pick!IsInjective(t)
  BY SMTT(20), <1>1, <1>2, <1>6, <1>8, <1>10 DEF Pick!IsInjective
<1>11. ASSUME k < n PROVE \A i \in 1 .. n : t[i] = s[Turned(i, k, n)]
  BY <1>2, <1>3, <1>5, <1>11
<1>12. QED
  BY <1>8, <1>9, <1>10, <1>11 DEF n

\* The lists of ss one after the other: t takes its i-th element from the list
\* blk[i].
JoinsLists(t, ss, blk) ==
    /\ \A i \in DOMAIN t : /\ blk[i] \in DOMAIN ss
                           /\ \E k \in DOMAIN ss[blk[i]] : t[i] = ss[blk[i]][k]
    /\ \A j \in DOMAIN ss : \A k \in DOMAIN ss[j] : \E i \in DOMAIN t : blk[i] = j /\ t[i] = ss[j][k]
    /\ \A i, m \in DOMAIN t : blk[i] < blk[m] => i < m

LEMMA JoinedFacts ==
    ASSUME NEW X, NEW n \in Nat, NEW ss, DOMAIN ss = 1 .. n, \A j \in 1 .. n : ss[j] \in Seq(X),
           NEW t, t = Pick!Joined(ss)
    PROVE  t \in Seq(X) /\ \E blk : JoinsLists(t, ss, blk)
<1> DEFINE Line(j) == {j} \X (DOMAIN ss[j])
           places == UNION {Line(j) : j \in DOMAIN ss}
           lex == {p \in places \X places : \/ p[1][1] < p[2][1]
                                            \/ p[1][1] = p[2][1] /\ p[1][2] < p[2][2]}
           pos == Pick!InOrder(places, lex)
           N == Cardinality(places)
           blk == [i \in 1 .. N |-> pos[i][1]]
<1>1. \A j \in 1 .. n : Len(ss[j]) \in Nat /\ DOMAIN ss[j] = 1 .. Len(ss[j]) /\ \A k \in 1 .. Len(ss[j]) : ss[j][k] \in X
  BY LenProperties, ElementOfSeq
<1>2. \A x : x \in places <=> \E j \in 1 .. n : \E k \in DOMAIN ss[j] : x = <<j, k>>
  OBVIOUS
<1>3. IsFiniteSet(places)
  <2> DEFINE f == [j \in 1 .. n |-> Line(j)]
             T == {Line(j) : j \in 1 .. n}
  <2>1. IsFiniteSet(1 .. n)
    BY CountedUp
  <2>2. \A j \in 1 .. n : IsFiniteSet(Line(j))
    <3> SUFFICES ASSUME NEW j \in 1 .. n PROVE IsFiniteSet(Line(j))
      OBVIOUS
    <3>1. IsFiniteSet({j}) /\ IsFiniteSet(DOMAIN ss[j])
      BY <1>1, CountedUp, FS_Singleton
    <3>2. QED
      BY <3>1, FS_Product
  <2>3. f \in Surjection(1 .. n, T)
    <3> HIDE DEF Line
    <3>1. f \in [1 .. n -> T] /\ \A x \in T : \E j \in 1 .. n : f[j] = x
      OBVIOUS
    <3>2. QED
      BY <3>1 DEF Surjection
  <2>4. IsFiniteSet(T) /\ \A x \in T : IsFiniteSet(x)
    <3>1. \A x \in T : IsFiniteSet(x)
      BY <2>2
    <3> HIDE DEF T, f, Line
    <3>2. QED
      BY <2>1, <2>3, <3>1, FS_Surjection
  <2>5. places = UNION T
    OBVIOUS
  <2> HIDE DEF T, places, Line
  <2>6. QED
    BY <2>4, <2>5, FS_UNION
<1>4. \A x, y : <<x, y>> \in lex <=> x \in places /\ y \in places /\ (x[1] < y[1] \/ (x[1] = y[1] /\ x[2] < y[2]))
  <2> HIDE DEF places
  <2>1. QED
    OBVIOUS
<1>5. t = [i \in 1 .. N |-> ss[pos[i][1]][pos[i][2]]]
  BY SameCounts DEF Pick!Joined
<1> HIDE DEF places, lex, pos
<1>6. \A x \in places : x[1] \in 1 .. n /\ x[2] \in DOMAIN ss[x[1]] /\ x[2] \in Int /\ x = <<x[1], x[2]>>
  BY <1>1, <1>2
<1>7. Ordered(lex, places)
  <2>1. \A x \in places : x[1] \in Int /\ x[2] \in Int
    BY <1>6
  <2>2. \A x \in places : <<x, x>> \notin lex
    BY <1>4, <2>1
  <2>3. \A x, y, z \in places : <<x, y>> \in lex /\ <<y, z>> \in lex => <<x, z>> \in lex
    BY <1>4, <2>1
  <2>4. \A x, y \in places : x = y \/ <<x, y>> \in lex \/ <<y, x>> \in lex
    <3> SUFFICES ASSUME NEW x \in places, NEW y \in places, x # y PROVE <<x, y>> \in lex \/ <<y, x>> \in lex
      OBVIOUS
    <3>1. x[1] # y[1] \/ x[2] # y[2]
      BY <1>6
    <3>2. QED
      BY <1>4, <2>1, <3>1
  <2>5. QED
    BY <2>2, <2>3, <2>4 DEF Ordered
<1>8. Lists(pos, places, lex)
  BY <1>3, <1>7, InOrderLists DEF pos
<1>9. N \in Nat
  BY <1>3, FS_CardinalityType
<1> HIDE DEF N
<1>10. /\ \A i \in 1 .. N : pos[i] \in places
       /\ \A x \in places : \E i \in 1 .. N : pos[i] = x
       /\ \A i, m \in 1 .. N : i < m <=> <<pos[i], pos[m]>> \in lex
  BY <1>8 DEF Lists, N
<1>11. t \in Seq(X) /\ DOMAIN t = 1 .. N
  <2>1. \A i \in 1 .. N : ss[pos[i][1]][pos[i][2]] \in X
    BY <1>1, <1>6, <1>10
  <2>2. t \in [1 .. N -> X]
    BY <1>5, <2>1
  <2>3. QED
    BY <1>9, <2>2
<1>12. JoinsLists(t, ss, blk)
  <2>1. \A i \in 1 .. N : blk[i] = pos[i][1] /\ t[i] = ss[pos[i][1]][pos[i][2]]
    BY <1>5
  <2> HIDE DEF blk
  <2>2. ASSUME NEW i \in 1 .. N PROVE blk[i] \in DOMAIN ss /\ \E k \in DOMAIN ss[blk[i]] : t[i] = ss[blk[i]][k]
    BY <1>6, <1>10, <2>1
  <2>3. ASSUME NEW j \in 1 .. n, NEW k \in DOMAIN ss[j] PROVE \E i \in 1 .. N : blk[i] = j /\ t[i] = ss[j][k]
    <3>1. PICK i \in 1 .. N : pos[i] = <<j, k>>
      BY <1>2, <1>10
    <3>2. QED
      BY SMTT(20), <2>1, <3>1
  <2>4. ASSUME NEW i \in 1 .. N, NEW m \in 1 .. N, blk[i] < blk[m] PROVE i < m
    BY <1>4, <1>10, <2>1, <2>4
  <2>5. /\ \A i \in 1 .. N : blk[i] \in DOMAIN ss /\ \E k \in DOMAIN ss[blk[i]] : t[i] = ss[blk[i]][k]
        /\ \A j \in 1 .. n : \A k \in DOMAIN ss[j] : \E i \in 1 .. N : blk[i] = j /\ t[i] = ss[j][k]
        /\ \A i, m \in 1 .. N : blk[i] < blk[m] => i < m
    BY <2>2, <2>3, <2>4, Zenon
  <2>6. (\A i : i \in DOMAIN t <=> i \in 1 .. N) /\ \A j : j \in DOMAIN ss <=> j \in 1 .. n
    BY <1>11
  <2>7. \A i \in DOMAIN t : blk[i] \in DOMAIN ss /\ \E k \in DOMAIN ss[blk[i]] : t[i] = ss[blk[i]][k]
    BY <2>5, <2>6, Zenon
  <2>8. \A j \in DOMAIN ss : \A k \in DOMAIN ss[j] : \E i \in DOMAIN t : blk[i] = j /\ t[i] = ss[j][k]
    <3> SUFFICES ASSUME NEW j \in DOMAIN ss, NEW k \in DOMAIN ss[j]
                 PROVE  \E i \in DOMAIN t : blk[i] = j /\ t[i] = ss[j][k]
      OBVIOUS
    <3>1. j \in 1 .. n
      BY <2>6
    <3>2. PICK i \in 1 .. N : blk[i] = j /\ t[i] = ss[j][k]
      BY <2>3, <3>1
    <3>3. QED
      BY <2>6, <3>2
  <2>9. \A i, m \in DOMAIN t : blk[i] < blk[m] => i < m
    BY <2>5, <2>6, Zenon
  <2>10. QED
    BY <2>7, <2>8, <2>9 DEF JoinsLists
<1>13. QED
  BY <1>11, <1>12

\* What follows from it: the elements, and that those of the first list lead.
LEMMA JoinedLeads ==
    ASSUME NEW X, NEW n \in Nat, NEW ss, DOMAIN ss = 1 .. n, \A j \in 1 .. n : ss[j] \in Seq(X),
           NEW t, t = Pick!Joined(ss)
    PROVE  /\ t \in Seq(X) /\ \A x : x \in Pick!ToSet(t) <=> \E j \in 1 .. n : x \in Pick!ToSet(ss[j])
           /\ n # 0 => OwnFirst(t, Pick!ToSet(ss[1]))
<1>1. t \in Seq(X) /\ \E blk : JoinsLists(t, ss, blk)
  BY JoinedFacts, Zenon
<1>2. PICK blk : JoinsLists(t, ss, blk)
  BY <1>1
<1>3. \A i \in DOMAIN t : blk[i] \in 1 .. n /\ \E k \in DOMAIN ss[blk[i]] : t[i] = ss[blk[i]][k]
  BY <1>2 DEF JoinsLists
<1>4. \A j \in 1 .. n : \A k \in DOMAIN ss[j] : \E i \in DOMAIN t : blk[i] = j /\ t[i] = ss[j][k]
  BY <1>2 DEF JoinsLists
<1>5. \A i, m \in DOMAIN t : blk[i] < blk[m] => i < m
  BY <1>2 DEF JoinsLists
<1>6. \A j : \A x : x \in Pick!ToSet(ss[j]) <=> \E k \in DOMAIN ss[j] : x = ss[j][k]
  BY DEF Pick!ToSet
<1>7. \A x : x \in Pick!ToSet(t) <=> \E i \in DOMAIN t : x = t[i]
  BY DEF Pick!ToSet
<1>8. \A x : x \in Pick!ToSet(t) <=> \E j \in 1 .. n : x \in Pick!ToSet(ss[j])
  <2>1. ASSUME NEW i \in DOMAIN t PROVE \E j \in 1 .. n : t[i] \in Pick!ToSet(ss[j])
    BY <1>3, <1>6
  <2>2. ASSUME NEW j \in 1 .. n, NEW k \in DOMAIN ss[j] PROVE ss[j][k] \in Pick!ToSet(t)
    BY <1>4, <1>7
  <2>3. ASSUME NEW x, x \in Pick!ToSet(t) PROVE \E j \in 1 .. n : x \in Pick!ToSet(ss[j])
    BY <1>7, <2>1, <2>3
  <2>4. ASSUME NEW j \in 1 .. n, NEW x, x \in Pick!ToSet(ss[j]) PROVE x \in Pick!ToSet(t)
    <3>1. PICK k \in DOMAIN ss[j] : x = ss[j][k]
      BY <1>6, <2>4, Zenon
    <3>2. QED
      BY <2>2, <3>1
  <2>5. QED
    BY <2>3, <2>4
<1>9. ASSUME n # 0 PROVE OwnFirst(t, Pick!ToSet(ss[1]))
  <2>1. 1 \in 1 .. n
    BY <1>9
  <2> SUFFICES ASSUME NEW i \in DOMAIN t, NEW j \in DOMAIN t, t[j] \in Pick!ToSet(ss[1]), t[i] \notin Pick!ToSet(ss[1])
               PROVE  \E h \in DOMAIN t : h < i /\ t[h] = t[j]
    BY DEF OwnFirst
  <2>2. PICK k \in DOMAIN ss[1] : t[j] = ss[1][k]
    BY <1>6
  <2>3. PICK h \in DOMAIN t : blk[h] = 1 /\ t[h] = ss[1][k]
    BY <1>4, <2>1
  <2>4. blk[i] \in 1 .. n /\ blk[i] # 1
    BY <1>3, <1>6
  <2>5. blk[h] < blk[i]
    BY <2>3, <2>4
  <2>6. QED
    BY <1>5, <2>2, <2>3, <2>5
<1>10. QED
  BY <1>1, <1>8, <1>9

LEMMA LeastPicked ==
    ASSUME NEW S \in SUBSET Nat, S # {}
    PROVE  Pick!Min(S) \in S /\ \A x \in S : Pick!Min(S) <= x
<1>1. \E m \in S : \A x \in S : m <= x
  BY SmallestExists
<1>2. QED
  BY <1>1 DEF Pick!Min

\* In a list without repetitions that begins with its own elements, the first
\* ones, as many as there are, are its own.
LEMMA LeadersFirst ==
    ASSUME NEW X, NEW d \in Seq(X), Pick!IsInjective(d), NEW own, OwnFirst(d, own),
           NEW S, S = own \intersect Pick!ToSet(d)
    PROVE  /\ Cardinality(S) \in 0 .. Len(d)
           /\ \A i \in 1 .. Len(d) : i <= Cardinality(S) => d[i] \in S
<1> DEFINE A == {i \in 1 .. Len(d) : d[i] \in own}
           f == [i \in A |-> d[i]]
<1>1. Len(d) \in Nat /\ DOMAIN d = 1 .. Len(d)
  BY LenProperties
<1>2. \A x : x \in Pick!ToSet(d) <=> \E i \in 1 .. Len(d) : x = d[i]
  BY <1>1 DEF Pick!ToSet
<1>3. ASSUME NEW i \in A, NEW j \in 1 .. Len(d), j < i PROVE j \in A
  <2>1. i \in 1 .. Len(d) /\ d[i] \in own
    OBVIOUS
  <2>2. ASSUME d[j] \notin own PROVE FALSE
    <3>1. PICK h \in 1 .. Len(d) : h < j /\ d[h] = d[i]
      BY <1>1, <1>3, <2>1, <2>2 DEF OwnFirst
    <3>2. h = i
      BY <1>1, <2>1, <3>1 DEF Pick!IsInjective
    <3>3. QED
      BY <1>1, <1>3, <2>1, <3>1, <3>2
  <2>3. QED
    BY <2>2
<1>4. A \in SUBSET (1 .. Len(d))
  OBVIOUS
<1>5. f \in [A -> S] /\ \A x \in S : \E i \in A : f[i] = x
  BY <1>2
<1>6. \A i, j \in A : f[i] = f[j] => i = j
  BY <1>1 DEF Pick!IsInjective
<1>7. \A i : i \in A <=> i \in 1 .. Len(d) /\ d[i] \in own
  OBVIOUS
<1> HIDE DEF A, f
<1>8. IsFiniteSet(A) /\ Cardinality(A) \in 0 .. Len(d) /\ \A i \in 1 .. Len(d) : i <= Cardinality(A) <=> i \in A
  BY <1>1, <1>3, <1>4, PrefixCount
<1>9. f \in Surjection(A, S) /\ f \in Injection(A, S)
  BY <1>5, <1>6 DEF Surjection, Injection, IsInjective
<1>10. Cardinality(S) = Cardinality(A)
  BY <1>8, <1>9, FS_Surjection
<1>11. \A i \in 1 .. Len(d) : i <= Cardinality(S) => d[i] \in S
  BY <1>2, <1>7, <1>8, <1>10
<1>12. QED
  BY <1>8, <1>10, <1>11

\* One place on in the turned list is one place on, cyclically, in the list.
LEMMA NextInTurn ==
    ASSUME NEW n \in Nat \ {0}, NEW o \in 0 .. n - 1, NEW k \in 1 .. n
    PROVE  /\ (k % n) + 1 \in 1 .. n
           /\ Turned((k % n) + 1, o, n) = (Turned(k, o, n) % n) + 1
<1>1. \A i \in 1 .. n : i % n = IF i < n THEN i ELSE 0
  <2>1. n % n = 0
    OBVIOUS
  <2>2. \A i \in 1 .. n : i = n \/ (i \in Nat /\ i < n)
    OBVIOUS
  <2>3. \A i \in Nat : i < n => i % n = i
    BY RemainderFacts
  <2>4. QED
    BY <2>1, <2>2, <2>3
<1>2. Turned(k, o, n) \in 1 .. n
  BY TurnedFacts
<1>3. k % n = (IF k < n THEN k ELSE 0) /\ Turned(k, o, n) % n = IF Turned(k, o, n) < n THEN Turned(k, o, n) ELSE 0
  BY <1>1, <1>2
<1>4. QED
  BY <1>3 DEF Turned

\* The pools of the categories: lists of products P.
ArePools(pools, C, P) == pools \in [C -> Seq(P)]

LEMMA FreshCount ==
    ASSUME NEW P, NEW s \in Seq(P), NEW recent
    PROVE  /\ Len(Pick!Without(s, recent)) = Cardinality(Pick!Places(s, recent))
           /\ Pick!IsInjective(s) => Cardinality(Pick!ToSet(s) \ recent) = Cardinality(Pick!Places(s, recent))
<1> DEFINE t == Pick!Without(s, recent)
<1>1. /\ t \in Seq(P) /\ Pick!ToSet(t) = Pick!ToSet(s) \ recent
      /\ Len(t) = Cardinality({i \in 1 .. Len(s) : s[i] \notin recent})
      /\ Pick!IsInjective(s) => Pick!IsInjective(t)
  <2> HIDE DEF t
  <2>1. t = Pick!Without(s, recent)
    BY DEF t
  <2>2. t \in Seq(P) /\ Pick!ToSet(t) = Pick!ToSet(s) \ recent /\ (Pick!IsInjective(s) => Pick!IsInjective(t))
    BY <2>1, WithoutFacts
  <2>3. Len(t) = Cardinality({i \in 1 .. Len(s) : s[i] \notin recent})
    BY <2>1, WithoutFacts
  <2>4. QED
    BY <2>2, <2>3
<1>2. Pick!Places(s, recent) = {i \in 1 .. Len(s) : s[i] \notin recent}
  BY DEF Pick!Places
<1> HIDE DEF t
<1>3. Pick!IsInjective(t) => Cardinality(Pick!ToSet(t)) = Len(t)
  BY <1>1, ListCounts
<1>4. QED
  BY <1>1, <1>2, <1>3 DEF t

\* The letter drawn from a row of products: base is what may be in it, own the
\* products of the category it begins with.
LEMMA LetterDrawn ==
    ASSUME NEW P, NEW base \in Seq(P), NEW own, OwnFirst(base, own), NEW limit \in Nat,
           NEW ids, ids = Pick!Take(Pick!Distinct(base), limit)
    PROVE  /\ Pick!Full(ids, Pick!ToSet(base), limit)
           /\ Pick!ToSet(ids) \subseteq Pick!ToSet(base)
           /\ Pick!ToSet(Pick!Take(ids, Cardinality(own \intersect Pick!ToSet(base)))) \subseteq own \intersect Pick!ToSet(base)
<1> DEFINE d == Pick!Distinct(base)
           S == own \intersect Pick!ToSet(base)
           N == Cardinality(S)
           lead == Pick!Take(ids, N)
<1>1. d \in Seq(P) /\ Pick!ToSet(d) = Pick!ToSet(base) /\ Pick!IsInjective(d) /\ OwnFirst(d, own)
  <2> HIDE DEF d
  <2>1. d = Pick!Distinct(base)
    BY DEF d
  <2>2. QED
    BY <2>1, DistinctFacts
<1>2. ids = Pick!Take(d, limit)
  OBVIOUS
<1> HIDE DEF d
<1>3. S = own \intersect Pick!ToSet(d)
  BY <1>1
<1> HIDE DEF S
<1>4. N \in 0 .. Len(d) /\ \A i \in 1 .. Len(d) : i <= N => d[i] \in S
  BY <1>1, <1>3, LeadersFirst
<1>5. Len(d) \in Nat
  BY <1>1, LenProperties
<1>6. N \in Nat
  BY <1>4, <1>5
<1> HIDE DEF N
<1>7. /\ ids \in Seq(P) /\ Len(ids) = Pick!Smaller(limit, Len(d))
      /\ \A i \in 1 .. Len(ids) : i \in 1 .. Len(d) /\ ids[i] = d[i]
      /\ Pick!ToSet(ids) \in SUBSET Pick!ToSet(d) /\ Pick!IsInjective(ids)
  BY <1>1, <1>2, TakeFacts
<1>8. Cardinality(Pick!ToSet(d)) = Len(d) /\ Cardinality(Pick!ToSet(ids)) = Len(ids)
  BY <1>1, <1>7, ListCounts
<1>9. Pick!Full(ids, Pick!ToSet(base), limit)
  BY <1>1, <1>7, <1>8, SameCounts DEF Pick!Full
<1>10. lead = Pick!Take(ids, N)
  OBVIOUS
<1> HIDE DEF lead
<1>11. /\ lead \in Seq(P) /\ Len(lead) = Pick!Smaller(N, Len(ids))
       /\ \A i \in 1 .. Len(lead) : i \in 1 .. Len(ids) /\ lead[i] = ids[i]
  BY <1>6, <1>7, <1>10, TakeFacts
<1>12. Len(ids) \in Nat /\ DOMAIN lead = 1 .. Len(lead)
  BY <1>7, <1>11, LenProperties
<1>13. Len(lead) <= N
  BY <1>6, <1>11, <1>12, SmallerIs
<1>14. ASSUME NEW i \in 1 .. Len(lead) PROVE lead[i] \in S
  <2>1. Len(lead) \in Nat
    BY <1>11, LenProperties
  <2>2. i <= N
    BY <1>6, <1>13, <2>1
  <2>3. i \in 1 .. Len(d) /\ lead[i] = d[i]
    BY <1>7, <1>11
  <2>4. QED
    BY <1>4, <2>2, <2>3
<1>15. Pick!ToSet(lead) \subseteq S
  BY <1>12, <1>14 DEF Pick!ToSet
<1>16. QED
  BY <1>1, <1>7, <1>9, <1>15 DEF S, N, lead

\* The row a rotation reads, from its k-th category on.
RowOf(turn, k, n, pools, offset) ==
    Pick!Joined([j \in 1 .. n |-> Pick!rotate_ids(pools[Pick!rotate_ids(turn, k - 1)[j]], offset)])

HoldsAll(s, pools, C) == \A x : x \in Pick!ToSet(s) <=> \E c \in C : x \in Pick!ToSet(pools[c])

LEMMA RowFacts ==
    ASSUME NEW P, NEW C, NEW turn \in Seq(C), NEW pools, ArePools(pools, C, P), Pick!ToSet(turn) = C,
           NEW k \in 1 .. Len(turn), NEW offset \in Nat, NEW n, n = Len(turn),
           NEW strip, strip = RowOf(turn, k, n, pools, offset)
    PROVE  /\ strip \in Seq(P)
           /\ HoldsAll(strip, pools, C)
           /\ OwnFirst(strip, Pick!ToSet(pools[turn[k]]))
<1> DEFINE from == Pick!rotate_ids(turn, k - 1)
           List(c) == Pick!rotate_ids(pools[c], offset)
           ss == [j \in 1 .. n |-> List(from[j])]
<1>1. n \in Nat /\ n # 0 /\ k - 1 \in Nat /\ k - 1 < n /\ k \in 1 .. n /\ 1 \in 1 .. n
  BY LenProperties
<1>2. /\ from \in Seq(C) /\ Len(from) = n /\ Pick!ToSet(from) = C
      /\ \A i \in 1 .. n : from[i] = turn[Turned(i, k - 1, n)]
  <2> HIDE DEF from
  <2>1. from = Pick!rotate_ids(turn, k - 1)
    BY DEF from
  <2>2. QED
    BY <1>1, <2>1, RotateFacts
<1> HIDE DEF from
<1>3. DOMAIN from = 1 .. n /\ \A i \in 1 .. n : from[i] \in C
  BY <1>2, LenProperties
<1>4. \A c \in C : \E j \in 1 .. n : from[j] = c
  BY <1>2, <1>3 DEF Pick!ToSet
<1>5. from[1] = turn[k]
  <2>1. Turned(1, k - 1, n) = k
    BY <1>1 DEF Turned
  <2>2. QED
    BY <1>1, <1>2, <2>1
<1>6. ASSUME NEW c \in C PROVE List(c) \in Seq(P) /\ Pick!ToSet(List(c)) = Pick!ToSet(pools[c])
  <2>1. pools[c] \in Seq(P)
    BY DEF ArePools
  <2> HIDE DEF List
  <2>2. List(c) = Pick!rotate_ids(pools[c], offset)
    BY DEF List
  <2>3. QED
    BY <2>1, <2>2, RotateFacts
<1>7. strip = Pick!Joined(ss) /\ DOMAIN ss = 1 .. n /\ \A j \in 1 .. n : ss[j] = List(from[j])
  BY DEF from, RowOf
<1> HIDE DEF ss, List
<1>8. \A j \in 1 .. n : ss[j] \in Seq(P) /\ Pick!ToSet(ss[j]) = Pick!ToSet(pools[from[j]])
  BY <1>3, <1>6, <1>7
<1>9. strip \in Seq(P)
  BY <1>1, <1>7, <1>8, JoinedLeads
<1>10. \A x : x \in Pick!ToSet(strip) <=> \E j \in 1 .. n : x \in Pick!ToSet(ss[j])
  <2>1. n \in Nat /\ DOMAIN ss = 1 .. n /\ (\A j \in 1 .. n : ss[j] \in Seq(P)) /\ strip = Pick!Joined(ss)
    BY <1>1, <1>7, <1>8
  <2>2. QED
    BY <2>1, JoinedLeads, Zenon
<1>11. OwnFirst(strip, Pick!ToSet(ss[1]))
  <2>1. n # 0 => OwnFirst(strip, Pick!ToSet(ss[1]))
    BY <1>1, <1>7, <1>8, JoinedLeads
  <2>2. QED
    BY <1>1, <2>1
<1>12. HoldsAll(strip, pools, C)
  <2>1. \A j \in 1 .. n : \E c \in C : Pick!ToSet(ss[j]) = Pick!ToSet(pools[c])
    BY <1>3, <1>8
  <2>2. ASSUME NEW c \in C PROVE \E j \in 1 .. n : Pick!ToSet(ss[j]) = Pick!ToSet(pools[c])
    <3>1. PICK j \in 1 .. n : from[j] = c
      BY <1>4
    <3>2. QED
      BY <1>8, <3>1
  <2>3. \A x : (\E j \in 1 .. n : x \in Pick!ToSet(ss[j])) <=> \E c \in C : x \in Pick!ToSet(pools[c])
    BY <2>1, <2>2, Zenon
  <2>4. QED
    BY <1>10, <2>3 DEF HoldsAll
<1>13. Pick!ToSet(ss[1]) = Pick!ToSet(pools[turn[k]])
  BY <1>1, <1>5, <1>8
<1>14. QED
  BY <1>9, <1>10, <1>11, <1>12, <1>13

LEMMA RotationFair ==
    ASSUME NEW P, NEW C, NEW ord \in Seq(C), Pick!ToSet(ord) = C, NEW pools, ArePools(pools, C, P),
           NEW recent, NEW start, NEW limit \in Nat, NEW offset \in Nat,
           NEW drawn, drawn = Pick!rotate_and_pick(start, ord, pools, recent, 2, limit, offset)
    PROVE  Pick!FairRotation(ord, pools, recent, limit, drawn)
<1> DEFINE n == Len(ord)
           first == IF Pick!Contains(ord, start) THEN CHOOSE i \in 1 .. n : ord[i] = start ELSE 1
           turn == Pick!rotate_ids(ord, first - 1)
           good == {k \in 1 .. n : Len(Pick!Without(pools[turn[k]], recent)) >= 2}
           some == {k \in 1 .. n : pools[turn[k]] # <<>>}
           k0 == Pick!Min(IF good # {} THEN good ELSE some)
           strip == Pick!Joined([j \in 1 .. n |-> Pick!rotate_ids(pools[Pick!rotate_ids(turn, k0 - 1)[j]], offset)])
           base == IF good # {} THEN Pick!Without(strip, recent) ELSE strip
           all == UNION {Pick!ToSet(pools[c]) : c \in C}
           enough == \E c \in C : Cardinality(Pick!Places(pools[c], recent)) >= 2
           usable == IF enough THEN all \ recent ELSE all
           own == Pick!ToSet(pools[drawn.primary]) \intersect usable
<1>1. n \in Nat /\ DOMAIN ord = 1 .. n /\ ord \in [1 .. n -> C]
  BY LenProperties
<1>2. n # 0 => first \in 1 .. n
  <2>1. CASE Pick!Contains(ord, start)
    <3>1. \E i \in 1 .. n : ord[i] = start
      BY <2>1 DEF Pick!Contains
    <3>2. (CHOOSE i \in 1 .. n : ord[i] = start) \in 1 .. n
      BY <3>1, Zenon
    <3>3. QED
      BY <2>1, <3>2
  <2>2. CASE ~Pick!Contains(ord, start)
    BY <1>1, <2>2
  <2>3. QED
    BY <2>1, <2>2
<1>3. first - 1 \in Nat
  <2>1. CASE n = 0
    <3>1. ~Pick!Contains(ord, start)
      BY <2>1 DEF Pick!Contains
    <3>2. QED
      BY <3>1
  <2>2. CASE n # 0
    BY <1>1, <1>2, <2>2
  <2>3. QED
    BY <2>1, <2>2
<1>4. drawn = IF good \union some = {} THEN [primary |-> None, ids |-> <<>>, pointer |-> start]
              ELSE [primary |-> turn[k0], ids |-> Pick!Take(Pick!Distinct(base), limit), pointer |-> turn[(k0 % n) + 1]]
  BY Zenon DEF Pick!rotate_and_pick
<1> HIDE DEF n, first
<1>5. /\ turn \in Seq(C) /\ Len(turn) = n /\ Pick!ToSet(turn) = C
      /\ first - 1 < n => \A i \in 1 .. n : turn[i] = ord[Turned(i, first - 1, n)]
  <2> HIDE DEF turn
  <2>1. turn = Pick!rotate_ids(ord, first - 1)
    BY DEF turn
  <2>2. QED
    BY <1>3, <2>1, RotateFacts DEF n
<1> HIDE DEF turn
<1>6. DOMAIN turn = 1 .. n /\ (\A k \in 1 .. n : turn[k] \in C) /\ \A c \in C : \E k \in 1 .. n : turn[k] = c
  <2>1. DOMAIN turn = 1 .. n /\ \A k \in 1 .. n : turn[k] \in C
    BY <1>5, LenProperties
  <2>2. \A c \in C : \E k \in 1 .. n : turn[k] = c
    BY <1>5, <2>1 DEF Pick!ToSet
  <2>3. QED
    BY <2>1, <2>2
<1>7. \A c \in C : pools[c] \in Seq(P)
  BY DEF ArePools
<1>8. \A c \in C : /\ Len(Pick!Without(pools[c], recent)) = Cardinality(Pick!Places(pools[c], recent))
                   /\ Pick!IsInjective(pools[c]) =>
                         Cardinality(Pick!ToSet(pools[c]) \ recent) = Cardinality(Pick!Places(pools[c], recent))
  BY <1>7, FreshCount
<1>9. enough <=> good # {}
  BY <1>6, <1>8
<1>10. ASSUME NEW k \in good PROVE k \in 1 .. n /\ Cardinality(Pick!Places(pools[turn[k]], recent)) >= 2
  BY <1>6, <1>8
<1>11. good \in SUBSET (1 .. n) /\ some \in SUBSET (1 .. n)
  OBVIOUS
<1>12. ASSUME NEW c \in C, some = {} PROVE pools[c] = <<>>
  BY <1>6, <1>12
<1> HIDE DEF good, some
<1>13. CASE good \union some = {}
  <2>1. \A c \in C : Pick!ToSet(pools[c]) = {}
    <3> SUFFICES ASSUME NEW c \in C PROVE Pick!ToSet(pools[c]) = {}
      OBVIOUS
    <3>1. pools[c] = <<>>
      BY <1>12, <1>13
    <3>2. QED
      BY <3>1 DEF Pick!ToSet
  <2>2. all = {} /\ usable = {}
    BY <2>1
  <2>3. drawn.ids = <<>>
    BY <1>4, <1>13
  <2>4. Pick!ToSet(drawn.ids) = {} /\ Len(drawn.ids) = 0
    BY <2>3 DEF Pick!ToSet
  <2> HIDE DEF all, usable
  <2>5. Pick!Full(drawn.ids, usable, limit)
    <3>1. Pick!Cardinality({}) = 0
      BY SameCounts, FS_EmptySet
    <3>2. Pick!Smaller(limit, 0) = 0
      BY SmallerIs
    <3>3. QED
      BY <2>2, <2>4, <3>1, <3>2 DEF Pick!Full
  <2>6. QED
    BY <2>2, <2>4, <2>5, SameCounts DEF Pick!FairRotation, all, usable, enough
<1>14. CASE good \union some # {}
  <2>1. k0 \in (IF good # {} THEN good ELSE some)
    <3>1. (IF good # {} THEN good ELSE some) \in SUBSET Nat /\ (IF good # {} THEN good ELSE some) # {}
      BY <1>1, <1>11, <1>14
    <3>2. QED
      BY <3>1, LeastPicked
  <2> HIDE DEF k0
  <2>2. k0 \in 1 .. n
    BY <1>11, <2>1
  <2>3. drawn.primary = turn[k0] /\ drawn.ids = Pick!Take(Pick!Distinct(base), limit) /\ drawn.pointer = turn[(k0 % n) + 1]
    <3> HIDE DEF base
    <3>1. QED
      BY <1>4, <1>14
  <2> DEFINE mine == Pick!ToSet(pools[turn[k0]])
  <2>4. strip \in Seq(P) /\ Pick!ToSet(strip) = all /\ OwnFirst(strip, mine)
    <3> HIDE DEF strip
    <3>1. strip = RowOf(turn, k0, n, pools, offset)
      BY DEF strip, RowOf
    <3>2. k0 \in 1 .. Len(turn)
      BY <1>5, <2>2
    <3>3. n = Len(turn) /\ turn \in Seq(C) /\ Pick!ToSet(turn) = C
      BY <1>5
    <3>4. strip \in Seq(P) /\ OwnFirst(strip, Pick!ToSet(pools[turn[k0]])) /\ HoldsAll(strip, pools, C)
      BY <3>1, <3>2, <3>3, RowFacts
    <3>5. Pick!ToSet(strip) = all
      BY <3>4 DEF HoldsAll
    <3>6. QED
      BY <3>4, <3>5
  <2> HIDE DEF strip, all
  <2>5. base \in Seq(P) /\ Pick!ToSet(base) = usable /\ OwnFirst(base, mine)
    <3>1. CASE good # {}
      <4>1. base = Pick!Without(strip, recent) /\ usable = all \ recent
        BY <1>9, <3>1
      <4> HIDE DEF base, usable, mine
      <4>2. base \in Seq(P) /\ Pick!ToSet(base) = Pick!ToSet(strip) \ recent /\ OwnFirst(base, mine)
        BY <2>4, <4>1, WithoutFacts
      <4>3. QED
        BY <2>4, <4>1, <4>2
    <3>2. CASE good = {}
      <4>1. base = strip /\ usable = all
        BY <1>9, <3>2
      <4>2. QED
        BY <2>4, <4>1
    <3>3. QED
      BY <3>1, <3>2
  <2>6. own = mine \intersect Pick!ToSet(base)
    BY <2>3, <2>5
  <2> HIDE DEF base, usable
  <2>7. /\ Pick!Full(drawn.ids, usable, limit) /\ Pick!ToSet(drawn.ids) \subseteq usable
        /\ Pick!ToSet(Pick!Take(drawn.ids, Cardinality(own))) \subseteq own
    <3> HIDE DEF own, mine
    <3>1. QED
      BY <2>3, <2>5, <2>6, LetterDrawn
  <2>8. enough => /\ Cardinality(Pick!Places(pools[drawn.primary], recent)) >= 2
                  /\ Pick!IsInjective(pools[drawn.primary]) => Cardinality(own) >= 2
    <3>1. ASSUME enough
          PROVE  /\ Cardinality(Pick!Places(pools[drawn.primary], recent)) >= 2
                 /\ Pick!IsInjective(pools[drawn.primary]) => Cardinality(own) >= 2
      <4>1. k0 \in good /\ usable = all \ recent
        BY <1>9, <2>1, <3>1 DEF usable
      <4>2. Cardinality(Pick!Places(pools[turn[k0]], recent)) >= 2 /\ turn[k0] \in C
        BY <1>6, <1>10, <2>2, <4>1
      <4>3. mine \subseteq all
        BY <1>6, <2>2 DEF all
      <4>4. own = mine \ recent
        BY <2>3, <4>1, <4>3
      <4>5. Pick!IsInjective(pools[turn[k0]]) => Cardinality(own) >= 2
        BY <1>8, <4>2, <4>4
      <4>6. QED
        BY <2>3, <4>2, <4>5
    <3>2. QED
      BY <3>1
  <2>9. \E i \in DOMAIN ord : ord[i] = drawn.primary /\ ord[(i % Len(ord)) + 1] = drawn.pointer
    <3>1. n \in Nat \ {0} /\ first - 1 \in 0 .. n - 1 /\ first - 1 < n
      BY <1>1, <1>2, <2>2
    <3>2. /\ (k0 % n) + 1 \in 1 .. n
          /\ Turned((k0 % n) + 1, first - 1, n) = (Turned(k0, first - 1, n) % n) + 1
      BY <2>2, <3>1, NextInTurn
    <3>3. Turned(k0, first - 1, n) \in 1 .. n
      BY <1>1, <2>2, <3>1, TurnedFacts
    <3>4. turn[k0] = ord[Turned(k0, first - 1, n)] /\ turn[(k0 % n) + 1] = ord[(Turned(k0, first - 1, n) % n) + 1]
      BY <1>5, <2>2, <3>1, <3>2
    <3>5. QED
      BY <1>1, <2>3, <3>3, <3>4 DEF n
  <2>10. QED
    BY <2>7, <2>8, <2>9, SameCounts DEF Pick!FairRotation, own, usable, all, enough
<1>15. QED
  BY <1>13, <1>14

-----------------------------------------------------------------------------
(* The pools of the catalogue, and the fallback to the whole of it.        *)

LEMMA AppendedLists ==
    ASSUME NEW X, NEW s \in Seq(X), NEW t \in Seq(X), NEW u, u = s \o t
    PROVE  /\ u \in Seq(X) /\ Len(u) = Len(s) + Len(t)
           /\ \A x : x \in Pick!ToSet(u) <=> x \in Pick!ToSet(s) \/ x \in Pick!ToSet(t)
           /\ Pick!IsInjective(s) /\ Pick!IsInjective(t) /\ Pick!ToSet(s) \intersect Pick!ToSet(t) = {} => Pick!IsInjective(u)
<1>1. /\ u \in Seq(X) /\ Len(u) = Len(s) + Len(t)
      /\ \A i \in 1 .. Len(s) + Len(t) : u[i] = IF i <= Len(s) THEN s[i] ELSE t[i - Len(s)]
  BY ConcatProperties
<1>2. Len(s) \in Nat /\ Len(t) \in Nat /\ DOMAIN s = 1 .. Len(s) /\ DOMAIN t = 1 .. Len(t)
  BY LenProperties
<1>3. DOMAIN u = 1 .. Len(s) + Len(t)
  BY <1>1, LenProperties
<1>4. \A i \in 1 .. Len(s) : i \in 1 .. Len(s) + Len(t) /\ u[i] = s[i]
  BY <1>1, <1>2
<1>5. \A i \in 1 .. Len(t) : i + Len(s) \in 1 .. Len(s) + Len(t) /\ u[i + Len(s)] = t[i]
  BY <1>1, <1>2
<1>6. \A i \in 1 .. Len(s) + Len(t) : \/ i \in 1 .. Len(s) /\ u[i] = s[i]
                                      \/ /\ i - Len(s) \in 1 .. Len(t) /\ u[i] = t[i - Len(s)]
                                         /\ i = (i - Len(s)) + Len(s)
  BY <1>1, <1>2
<1>7. \A x : x \in Pick!ToSet(u) <=> x \in Pick!ToSet(s) \/ x \in Pick!ToSet(t)
  <2>1. ASSUME NEW i \in DOMAIN u PROVE u[i] \in Pick!ToSet(s) \/ u[i] \in Pick!ToSet(t)
    BY <1>2, <1>3, <1>6 DEF Pick!ToSet
  <2>2. ASSUME NEW i \in DOMAIN s PROVE s[i] \in Pick!ToSet(u)
    BY <1>2, <1>3, <1>4 DEF Pick!ToSet
  <2>3. ASSUME NEW i \in DOMAIN t PROVE t[i] \in Pick!ToSet(u)
    BY <1>2, <1>3, <1>5 DEF Pick!ToSet
  <2>4. QED
    BY <2>1, <2>2, <2>3 DEF Pick!ToSet
<1>8. ASSUME Pick!IsInjective(s), Pick!IsInjective(t), Pick!ToSet(s) \intersect Pick!ToSet(t) = {}
      PROVE  Pick!IsInjective(u)
  <2> SUFFICES ASSUME NEW i \in 1 .. Len(s) + Len(t), NEW j \in 1 .. Len(s) + Len(t), u[i] = u[j] PROVE i = j
    BY <1>3 DEF Pick!IsInjective
  <2>1. \A a \in 1 .. Len(s) : \A b \in 1 .. Len(t) : s[a] # t[b]
    BY <1>2, <1>8 DEF Pick!ToSet
  <2>2. \A a, b \in 1 .. Len(s) : s[a] = s[b] => a = b
    BY <1>2, <1>8 DEF Pick!IsInjective
  <2>3. \A a, b \in 1 .. Len(t) : t[a] = t[b] => a = b
    BY <1>2, <1>8 DEF Pick!IsInjective
  <2>4. CASE i \in 1 .. Len(s) /\ u[i] = s[i]
    BY <1>6, <2>1, <2>2, <2>4
  <2>5. CASE i - Len(s) \in 1 .. Len(t) /\ u[i] = t[i - Len(s)] /\ i = (i - Len(s)) + Len(s)
    <3>1. ~(j \in 1 .. Len(s) /\ u[j] = s[j])
      BY <2>1, <2>5
    <3>2. j - Len(s) \in 1 .. Len(t) /\ u[j] = t[j - Len(s)] /\ j = (j - Len(s)) + Len(s)
      BY <1>6, <3>1
    <3>3. i - Len(s) = j - Len(s)
      BY <2>3, <2>5, <3>2
    <3>4. QED
      BY <2>5, <3>2, <3>3
  <2>6. QED
    BY <1>6, <2>4, <2>5
<1>9. QED
  BY <1>1, <1>7, <1>8

LEMMA CatalogueFacts ==
    ASSUME NEW cat, Pick!IsCatalogue(cat)
    PROVE  /\ cat.order \in Seq(Pick!ToSet(cat.order)) /\ cat.shelf \in Seq(Pick!ToSet(cat.shelf))
           /\ Pick!IsInjective(cat.order) /\ Pick!IsInjective(cat.shelf)
           /\ \A c \in Pick!ToSet(cat.order) : cat.top[c] \in Seq(Pick!ToSet(cat.shelf))
           /\ cat.stock \union cat.photo \union cat.live \subseteq Pick!ToSet(cat.shelf)
  BY DEF Pick!IsCatalogue, Pick!IsList

LEMMA PoolsAreLists ==
    ASSUME NEW cat, Pick!IsCatalogue(cat), NEW perCat \in Nat, NEW pools, pools = Pick!top5_map(cat, perCat)
    PROVE  ArePools(pools, Pick!ToSet(cat.order), Pick!ToSet(cat.shelf))
<1> DEFINE C == Pick!ToSet(cat.order)
           P == Pick!ToSet(cat.shelf)
           top(c) == Pick!Only(cat.top[c], cat.stock)
           extra(c) == Pick!Only(cat.shelf, {p \in (cat.stock \intersect cat.photo) \ Pick!ToSet(top(c)) : cat.in[p] = c})
           more(c) == Pick!Take(extra(c), perCat - Len(top(c)))
<1>1. pools = [c \in C |-> IF Len(top(c)) >= perCat THEN top(c) ELSE top(c) \o more(c)]
  BY DEF Pick!top5_map
<1>2. ASSUME NEW c \in C PROVE pools[c] \in Seq(P)
  <2>1. cat.top[c] \in Seq(P) /\ cat.shelf \in Seq(P)
    BY CatalogueFacts
  <2>2. pools[c] = IF Len(top(c)) >= perCat THEN top(c) ELSE top(c) \o more(c)
    BY <1>1
  <2> DEFINE T == top(c)
             left == {p \in (cat.stock \intersect cat.photo) \ Pick!ToSet(T) : cat.in[p] = c}
             E == Pick!Only(cat.shelf, left)
             M == Pick!Take(E, perCat - Len(T))
  <2>3. pools[c] = (IF Len(T) >= perCat THEN T ELSE T \o M) /\ T = Pick!Only(cat.top[c], cat.stock)
    BY <2>2
  <2>4. E = Pick!Only(cat.shelf, left) /\ M = Pick!Take(E, perCat - Len(T))
    OBVIOUS
  <2> HIDE DEF top, extra, more, T, left, E, M, P
  <2>5. T \in Seq(P)
    BY <2>1, <2>3, OnlyFacts
  <2>6. E \in Seq(P)
    BY <2>1, <2>4, OnlyFacts
  <2>7. Len(T) \in Nat
    BY <2>5, LenProperties
  <2>8. CASE Len(T) >= perCat
    BY <2>3, <2>5, <2>8
  <2>9. CASE ~(Len(T) >= perCat)
    <3>1. perCat - Len(T) \in Nat
      BY <2>7, <2>9
    <3>2. M \in Seq(P)
      BY <2>4, <2>6, <3>1, TakeFacts
    <3>3. pools[c] = T \o M
      BY <2>3, <2>9
    <3>4. QED
      BY <2>5, <3>2, <3>3, AppendedLists
  <2>10. QED
    BY <2>8, <2>9
<1>3. DOMAIN pools = C
  BY <1>1
<1>4. pools = [c \in C |-> pools[c]]
  BY <1>1
<1>5. QED
  BY <1>2, <1>3, <1>4 DEF ArePools

IsDrawn(r) == r = [primary |-> r.primary, ids |-> r.ids, pointer |-> r.pointer]

LEMMA DrawnIsRecord ==
    ASSUME NEW start, NEW ord, NEW pools, NEW recent, NEW limit, NEW offset, NEW drawn,
           drawn = Pick!rotate_and_pick(start, ord, pools, recent, 2, limit, offset)
    PROVE  IsDrawn(drawn)
<1>1. \A g, s, c, i, p : IsDrawn(IF g THEN [primary |-> None, ids |-> <<>>, pointer |-> s]
                                 ELSE [primary |-> c, ids |-> i, pointer |-> p])
  BY DEF IsDrawn
<1>2. QED
  BY <1>1, Zenon DEF Pick!rotate_and_pick

\* The fallback has room for all that can be shown.
LEMMA FallbackShowsAll ==
    ASSUME NEW cat, Pick!IsCatalogue(cat), NEW recent, NEW limit \in Nat, NEW offset \in Nat,
           Len(cat.shelf) <= limit, NEW ids, ids = Pick!fallback_catalog_products(cat, recent, limit, offset)
    PROVE  Pick!ToSet(ids) = cat.stock \intersect cat.photo \intersect cat.live
<1> DEFINE P == Pick!ToSet(cat.shelf)
           all == Pick!Only(cat.shelf, cat.stock \intersect cat.photo)
           fresh == Pick!Without(all, recent)
           turned == Pick!rotate_ids(fresh, offset)
           new == Pick!Take(turned, limit)
           left == Pick!Without(all, Pick!ToSet(new))
           rest == Pick!rotate_ids(left, offset)
           both == new \o rest
           cut == Pick!Take(both, limit)
<1>1. ids = Pick!Only(cut, cat.live)
  BY DEF Pick!fallback_catalog_products, Pick!warm_products
<1>2. all = Pick!Only(cat.shelf, cat.stock \intersect cat.photo)
  OBVIOUS
<1>3. cat.shelf \in Seq(P) /\ Pick!IsInjective(cat.shelf) /\ cat.stock \union cat.photo \union cat.live \subseteq P
  BY CatalogueFacts
<1> HIDE DEF all, fresh, turned, new, left, rest, both, cut
<1>4. /\ all \in Seq(P) /\ Len(all) <= Len(cat.shelf) /\ Pick!IsInjective(all)
      /\ Pick!ToSet(all) = P \intersect (cat.stock \intersect cat.photo)
  BY <1>2, <1>3, OnlyFacts
<1> HIDE DEF P
<1>5. fresh \in Seq(P) /\ Pick!IsInjective(fresh) /\ Pick!ToSet(fresh) \in SUBSET Pick!ToSet(all)
  <2>1. fresh = Pick!Without(all, recent)
    BY DEF fresh
  <2>2. fresh \in Seq(P) /\ Pick!IsInjective(fresh) /\ Pick!ToSet(fresh) = Pick!ToSet(all) \ recent
    BY <1>4, <2>1, WithoutFacts
  <2>3. QED
    BY <2>2
<1>6. turned \in Seq(P) /\ Pick!IsInjective(turned) /\ Pick!ToSet(turned) = Pick!ToSet(fresh)
  <2>1. turned = Pick!rotate_ids(fresh, offset)
    BY DEF turned
  <2>2. QED
    BY <1>5, <2>1, RotateFacts
<1>7. new \in Seq(P) /\ Pick!IsInjective(new) /\ Pick!ToSet(new) \in SUBSET Pick!ToSet(turned)
  <2>1. new = Pick!Take(turned, limit)
    BY DEF new
  <2>2. QED
    BY <1>6, <2>1, TakeFacts
<1>8. left \in Seq(P) /\ Pick!IsInjective(left) /\ Pick!ToSet(left) = Pick!ToSet(all) \ Pick!ToSet(new)
  <2> DEFINE shown == Pick!ToSet(new)
  <2>1. left = Pick!Without(all, shown)
    BY DEF left
  <2> HIDE DEF shown
  <2>2. left \in Seq(P) /\ Pick!IsInjective(left) /\ Pick!ToSet(left) = Pick!ToSet(all) \ shown
    BY <1>4, <2>1, WithoutFacts
  <2>3. QED
    BY <2>2 DEF shown
<1>9. rest \in Seq(P) /\ Pick!IsInjective(rest) /\ Pick!ToSet(rest) = Pick!ToSet(left)
  <2>1. rest = Pick!rotate_ids(left, offset)
    BY DEF rest
  <2>2. QED
    BY <1>8, <2>1, RotateFacts
<1>10. /\ both \in Seq(P) /\ Pick!IsInjective(both)
       /\ \A x : x \in Pick!ToSet(both) <=> x \in Pick!ToSet(new) \/ x \in Pick!ToSet(rest)
  <2>1. Pick!ToSet(new) \intersect Pick!ToSet(rest) = {}
    BY <1>8, <1>9
  <2>2. both = new \o rest
    BY DEF both
  <2> DEFINE Parts == \A x : x \in Pick!ToSet(both) <=> x \in Pick!ToSet(new) \/ x \in Pick!ToSet(rest)
  <2>3. both \in Seq(P) /\ Pick!IsInjective(both) /\ Parts
    BY <1>7, <1>9, <2>1, <2>2, AppendedLists
  <2>4. QED
    BY <2>3
<1>11. Pick!ToSet(both) = Pick!ToSet(all)
  BY <1>5, <1>6, <1>7, <1>8, <1>9, <1>10
<1>12. Len(both) <= limit
  <2>1. Len(both) = Cardinality(Pick!ToSet(both)) /\ Len(all) = Cardinality(Pick!ToSet(all))
    BY <1>4, <1>10, ListCounts
  <2>2. Len(all) \in Nat /\ Len(cat.shelf) \in Nat
    BY <1>3, <1>4, LenProperties
  <2>3. QED
    BY <1>4, <1>11, <2>1, <2>2
<1>13. cut = both
  <2>1. cut = Pick!Take(both, limit)
    BY DEF cut
  <2>2. QED
    BY <1>10, <1>12, <2>1, TakeFacts
<1>14. Pick!ToSet(ids) = Pick!ToSet(cut) \intersect cat.live
  BY <1>1, <1>10, <1>13, OnlyFacts
<1>15. QED
  BY <1>3, <1>4, <1>11, <1>13, <1>14

LEMMA NothingIsLeft ==
    ASSUME NEW cat, Pick!IsCatalogue(cat), NEW start, NEW pools, NEW recent, NEW limit \in Nat, NEW offset \in Nat,
           NEW chosen, chosen = Pick!send_one_pick(cat, start, pools, recent, limit, offset)
    PROVE  Pick!NothingToShow(cat, chosen.ids, limit)
<1> DEFINE drawn == Pick!rotate_and_pick(start, cat.order, pools, recent, 2, limit, offset)
           shown == Pick!warm_products(cat, Pick!photo_first(cat, Pick!load_products(cat, drawn.ids), limit))
           fall == Pick!fallback_catalog_products(cat, recent, limit, offset)
<1>1. chosen = IF shown # <<>> THEN [drawn EXCEPT !.ids = shown] ELSE [drawn EXCEPT !.ids = fall]
  BY DEF Pick!send_one_pick
<1>2. IsDrawn(drawn)
  <2> HIDE DEF drawn
  <2>1. drawn = Pick!rotate_and_pick(start, cat.order, pools, recent, 2, limit, offset)
    BY DEF drawn
  <2>2. QED
    BY <2>1, DrawnIsRecord
<1> HIDE DEF drawn, shown, fall
<1>3. \A x : [drawn EXCEPT !.ids = x].ids = x
  BY <1>2 DEF IsDrawn
<1>4. chosen.ids = IF shown # <<>> THEN shown ELSE fall
  BY <1>1, <1>3
<1>5. ASSUME chosen.ids = <<>>, Len(cat.shelf) <= limit PROVE cat.stock \intersect cat.photo \intersect cat.live = {}
  <2>1. fall = <<>>
    BY <1>4, <1>5
  <2>2. Pick!ToSet(fall) = {}
    BY <2>1 DEF Pick!ToSet
  <2>3. Pick!ToSet(fall) = cat.stock \intersect cat.photo \intersect cat.live
    BY <1>5, FallbackShowsAll DEF fall
  <2>4. QED
    BY <2>2, <2>3
<1>6. QED
  BY <1>5 DEF Pick!NothingToShow

-----------------------------------------------------------------------------
(* One choice for one catalogue and one customer.                          *)

Chosen(shop, c) ==
    LET pools == Pick!top5_map(shop, c.limit)
        known == Pick!normalize_order_items(c.items, shop)
    IN  [shop |-> shop, customer |-> c,
         rotation |-> Pick!rotate_and_pick(c.start, shop.order, pools, c.recent, 2, c.limit, c.offset),
         letter |-> Pick!send_one_pick(shop, c.start, pools, c.recent, c.limit, c.offset),
         sell |-> Pick!pick_cross_sell(known, Pick!order_pools(shop, known, c.limit), c.recent, c.limit, c.offset),
         cross |-> Pick!cross_sell_products(shop, c.items, c.recent, c.limit, c.offset)]
ChoiceMade == choice = Pick!NoChoice \/ \E shop \in Shops, c \in Customers : choice = Chosen(shop, c)

LEMMA ChoicesAlone == ASSUME [Next]_vars PROVE Pick!Next \/ UNCHANGED choice
BY DEF Next, vars, OfferStep, ChoiceStep, MailboxStep, WheelStep, AttributionStep, TemplateStep,
       CatalogueStep, PictureStep, MailStep, SettingsStep

LEMMA ChoiceIsMade == Spec => []ChoiceMade
<1>1. Init => ChoiceMade
  BY DEF Init, Pick!Init, ChoiceMade
<1>2. ASSUME ChoiceMade, [Next]_vars PROVE ChoiceMade'
  <2>1. CASE Pick!Next
    BY <2>1, Zenon DEF Pick!Next, Pick!ChooseLetter, ChoiceMade, Chosen
  <2>2. CASE UNCHANGED choice
    BY <1>2, <2>2 DEF ChoiceMade
  <2>3. QED
    BY <1>2, <2>1, <2>2, ChoicesAlone
<1>3. QED
  BY <1>1, <1>2, PTL DEF Spec

\* Best Offer rotates fairly over the categories, as fully as the pools allow and without
\* repeating a recent product it need not, the pointer moves on by one, and a customer is passed
\* over only if nothing can be shown (product_pick.rotate_and_pick, best_offer._send_one).
THEOREM RotationStaysFair == Spec => []FairRotation
<1>1. ChoiceMade => FairRotation
  <2> SUFFICES ASSUME ChoiceMade, choice # Pick!NoChoice PROVE FairRotation
    BY DEF FairRotation, Pick!RotationIsFair
  <2>1. PICK shop \in Shops, c \in Customers : choice = Chosen(shop, c)
    BY DEF ChoiceMade
  <2> DEFINE pools == Pick!top5_map(shop, c.limit)
  <2>2. /\ choice.shop = shop /\ choice.customer = c
        /\ choice.rotation = Pick!rotate_and_pick(c.start, shop.order, pools, c.recent, 2, c.limit, c.offset)
        /\ choice.letter = Pick!send_one_pick(shop, c.start, pools, c.recent, c.limit, c.offset)
    BY <2>1 DEF Chosen
  <2>3. Pick!IsCatalogue(shop) /\ c.limit \in Nat /\ c.offset \in Nat
    BY ChoiceAssumption DEF Pick!IsCustomer
  <2>4. pools = Pick!top5_map(shop, c.limit)
    OBVIOUS
  <2> HIDE DEF pools
  <2>5. ArePools(pools, Pick!ToSet(shop.order), Pick!ToSet(shop.shelf))
    BY <2>3, <2>4, PoolsAreLists
  <2>6. Pick!FairRotation(shop.order, pools, c.recent, c.limit, choice.rotation)
    <3>1. shop.order \in Seq(Pick!ToSet(shop.order))
      BY <2>3, CatalogueFacts
    <3>2. QED
      BY <2>2, <2>3, <2>5, <3>1, RotationFair
  <2>7. Pick!NothingToShow(shop, choice.letter.ids, c.limit)
    BY <2>2, <2>3, NothingIsLeft
  <2>8. QED
    BY <2>2, <2>4, <2>6, <2>7 DEF FairRotation, Pick!RotationIsFair
<1>2. QED
  BY <1>1, ChoiceIsMade, PTL

-----------------------------------------------------------------------------
(* The cross-sell.                                                         *)

LEMMA GreatestPicked ==
    ASSUME NEW S \in SUBSET Int, S # {}, IsFiniteSet(S)
    PROVE  Pick!Max(S) \in S /\ \A x \in S : x <= Pick!Max(S)
<1> DEFINE less == {p \in S \X S : p[1] < p[2]}
           pos == Pick!InOrder(S, less)
           N == Cardinality(S)
<1>1. \A x, y \in S : <<x, y>> \in less <=> x < y
  OBVIOUS
<1> HIDE DEF less
<1>2. Ordered(less, S)
  BY <1>1 DEF Ordered
<1>3. Lists(pos, S, less)
  BY <1>2, InOrderLists
<1> HIDE DEF pos
<1>4. N \in Nat /\ N # 0
  BY FS_CardinalityType, FS_EmptySet
<1> HIDE DEF N
<1>5. N \in 1 .. N
  BY <1>4
<1>6. pos[N] \in S
  BY <1>3, <1>5 DEF Lists, N
<1>7. ASSUME NEW x \in S PROVE x <= pos[N]
  <2>1. PICK n \in 1 .. N : pos[n] = x
    BY <1>3 DEF Lists, N
  <2>2. n = N \/ n < N
    BY <1>4
  <2>3. n < N => x < pos[N]
    BY <1>1, <1>3, <1>5, <1>6, <2>1 DEF Lists, N
  <2>4. x \in Int /\ pos[N] \in Int
    BY <1>6
  <2>5. QED
    BY <2>1, <2>2, <2>3, <2>4
<1>8. \E x \in S : \A y \in S : x >= y
  BY <1>6, <1>7
<1>9. Pick!Max(S) \in S /\ \A y \in S : Pick!Max(S) >= y
  BY <1>8, Zenon DEF Pick!Max
<1>10. QED
  BY <1>9

\* The items of an order by falling price, and their categories.
DearestFirst(cs, items, rank) ==
    /\ DOMAIN cs = DOMAIN items
    /\ \A i \in DOMAIN items : rank[i] \in DOMAIN items /\ cs[i] = items[rank[i]].category
    /\ \A j \in DOMAIN items : \E i \in DOMAIN items : rank[i] = j
    /\ \A q, r \in DOMAIN items : q <= r => items[rank[q]].price >= items[rank[r]].price

LEMMA ByPriceFacts ==
    ASSUME NEW X, NEW items \in Seq(X), \A i \in DOMAIN items : items[i].price \in Int,
           NEW cs, cs = Pick!ByPrice(items)
    PROVE  \E rank : DearestFirst(cs, items, rank)
<1> DEFINE D == DOMAIN items
           dearer == {p \in D \X D : LET a == items[p[1]].price
                                         b == items[p[2]].price
                                     IN  a > b \/ (a = b /\ p[1] < p[2])}
           rank == Pick!InOrder(D, dearer)
           val == [i \in D |-> items[i].price]
<1>1. D = 1 .. Len(items) /\ Len(items) \in Nat
  BY LenProperties
<1>2. cs = [i \in D |-> items[rank[i]].category]
  BY DEF Pick!ByPrice
<1>3. \A p, q : <<p, q>> \in dearer <=> /\ p \in D /\ q \in D
                                        /\ val[p] > val[q] \/ (val[p] = val[q] /\ p < q)
  <2> HIDE DEF D
  <2>1. QED
    OBVIOUS
<1>4. /\ \A i \in D : val[i] = items[i].price /\ i \in Int
      /\ val \in [D -> Int]
  BY <1>1
<1> HIDE DEF D, dearer, val
<1>5. Ordered(dearer, D)
  <2>1. \A x \in D : <<x, x>> \notin dearer
    BY <1>3, <1>4
  <2>2. \A x, y, z \in D : <<x, y>> \in dearer /\ <<y, z>> \in dearer => <<x, z>> \in dearer
    BY <1>3, <1>4
  <2>3. ASSUME NEW x \in D, NEW y \in D, x # y PROVE <<x, y>> \in dearer \/ <<y, x>> \in dearer
    <3>1. val[x] \in Int /\ val[y] \in Int /\ x \in Int /\ y \in Int
      BY <1>4
    <3>2. val[x] > val[y] \/ val[y] > val[x] \/ (val[x] = val[y] /\ x < y) \/ (val[y] = val[x] /\ y < x)
      BY <2>3, <3>1
    <3>3. QED
      BY <1>3, <3>2
  <2>4. QED
    BY <2>1, <2>2, <2>3 DEF Ordered
<1>6. IsFiniteSet(D) /\ Cardinality(D) = Len(items)
  BY <1>1, CountedUp
<1>7. Lists(rank, D, dearer)
  BY <1>5, <1>6, InOrderLists
<1> HIDE DEF rank
<1>8. /\ \A i \in D : rank[i] \in D
      /\ \A j \in D : \E i \in D : rank[i] = j
      /\ \A q, r \in D : q < r <=> <<rank[q], rank[r]>> \in dearer
  BY <1>1, <1>6, <1>7 DEF Lists
<1>9. ASSUME NEW q \in D, NEW r \in D, q <= r PROVE items[rank[q]].price >= items[rank[r]].price
  <2>1. q = r \/ q < r
    BY <1>4, <1>9
  <2>2. val[rank[q]] \in Int /\ val[rank[r]] \in Int
    BY <1>4, <1>8
  <2>3. ASSUME q < r PROVE val[rank[q]] >= val[rank[r]]
    <3>1. <<rank[q], rank[r]>> \in dearer
      BY <1>8, <2>3
    <3>2. val[rank[q]] > val[rank[r]] \/ val[rank[q]] = val[rank[r]]
      BY <1>3, <3>1
    <3>3. QED
      BY <2>2, <3>2
  <2>4. val[rank[q]] >= val[rank[r]]
    BY <2>1, <2>2, <2>3
  <2>5. QED
    BY <1>4, <1>8, <2>4
<1>10. DearestFirst(cs, items, rank)
  BY <1>2, <1>8, <1>9 DEF DearestFirst, D
<1>11. QED
  BY <1>10

\* The row of a cross-sell: the pools of the categories cs, turned, one after
\* the other; a category without a pool adds nothing.
PoolOf(pools, c, offset) == IF c \in DOMAIN pools THEN Pick!rotate_ids(pools[c], offset) ELSE <<>>
SellRow(cs, pools, offset) == Pick!Joined([i \in DOMAIN cs |-> PoolOf(pools, cs[i], offset)])
JoinsPools(s, cs, pools, blk) ==
    /\ \A i \in DOMAIN s : /\ blk[i] \in DOMAIN cs /\ cs[blk[i]] \in DOMAIN pools
                           /\ s[i] \in Pick!ToSet(pools[cs[blk[i]]])
    /\ \A j \in DOMAIN cs : cs[j] \in DOMAIN pools =>
          \A x \in Pick!ToSet(pools[cs[j]]) : \E i \in DOMAIN s : blk[i] = j /\ s[i] = x
    /\ \A i, m \in DOMAIN s : blk[i] < blk[m] => i < m

LEMMA PoolOfFacts ==
    ASSUME NEW P, NEW C, NEW pools, ArePools(pools, C, P), NEW offset \in Nat, NEW c
    PROVE  /\ PoolOf(pools, c, offset) \in Seq(P)
           /\ c \in C => Pick!ToSet(PoolOf(pools, c, offset)) = Pick!ToSet(pools[c])
           /\ c \notin C => PoolOf(pools, c, offset) = <<>>
<1>1. DOMAIN pools = C
  BY DEF ArePools
<1>2. CASE c \in C
  <2>1. pools[c] \in Seq(P)
    BY <1>2 DEF ArePools
  <2>2. PoolOf(pools, c, offset) = Pick!rotate_ids(pools[c], offset)
    BY <1>1, <1>2 DEF PoolOf
  <2>3. PoolOf(pools, c, offset) \in Seq(P) /\ Pick!ToSet(PoolOf(pools, c, offset)) = Pick!ToSet(pools[c])
    BY <2>1, <2>2, RotateFacts
  <2>4. QED
    BY <1>2, <2>3
<1>3. CASE c \notin C
  <2>1. PoolOf(pools, c, offset) = <<>>
    BY <1>1, <1>3 DEF PoolOf
  <2>2. QED
    BY <1>3, <2>1, EmptySeq
<1>4. QED
  BY <1>2, <1>3

LEMMA SellRowFacts ==
    ASSUME NEW P, NEW C, NEW pools, ArePools(pools, C, P), NEW n \in Nat, NEW cs, DOMAIN cs = 1 .. n,
           NEW offset \in Nat, NEW s, s = SellRow(cs, pools, offset)
    PROVE  s \in Seq(P) /\ \E blk : JoinsPools(s, cs, pools, blk)
<1> DEFINE Pool(c) == PoolOf(pools, c, offset)
           ss == [i \in 1 .. n |-> Pool(cs[i])]
<1>1. s = Pick!Joined(ss) /\ DOMAIN ss = 1 .. n /\ \A i \in 1 .. n : ss[i] = Pool(cs[i])
  BY DEF SellRow
<1>2. \A c : /\ Pool(c) \in Seq(P) /\ (c \in C => Pick!ToSet(Pool(c)) = Pick!ToSet(pools[c]))
             /\ (c \notin C => Pool(c) = <<>>)
  BY PoolOfFacts
<1> HIDE DEF ss, Pool
<1>3. DOMAIN pools = C
  BY DEF ArePools
<1>4. \A j \in 1 .. n : ss[j] \in Seq(P)
  BY <1>1, <1>2
<1>5. s \in Seq(P) /\ \E blk : JoinsLists(s, ss, blk)
  <2>1. n \in Nat /\ DOMAIN ss = 1 .. n /\ (\A j \in 1 .. n : ss[j] \in Seq(P)) /\ s = Pick!Joined(ss)
    BY <1>1, <1>4
  <2>2. QED
    BY <2>1, JoinedFacts, Zenon
<1>6. PICK blk : JoinsLists(s, ss, blk)
  BY <1>5
<1>7. /\ \A i \in DOMAIN s : blk[i] \in 1 .. n /\ \E k \in DOMAIN ss[blk[i]] : s[i] = ss[blk[i]][k]
      /\ \A j \in 1 .. n : \A k \in DOMAIN ss[j] : \E i \in DOMAIN s : blk[i] = j /\ s[i] = ss[j][k]
      /\ \A i, m \in DOMAIN s : blk[i] < blk[m] => i < m
  BY <1>1, <1>6 DEF JoinsLists
<1>8. ASSUME NEW i \in DOMAIN s
      PROVE  blk[i] \in DOMAIN cs /\ cs[blk[i]] \in DOMAIN pools /\ s[i] \in Pick!ToSet(pools[cs[blk[i]]])
  <2>1. blk[i] \in 1 .. n /\ \E k \in DOMAIN ss[blk[i]] : s[i] = ss[blk[i]][k]
    BY <1>7
  <2>2. s[i] \in Pick!ToSet(ss[blk[i]])
    BY <2>1 DEF Pick!ToSet
  <2>3. ss[blk[i]] = Pool(cs[blk[i]])
    BY <1>1, <2>1
  <2>4. Pick!ToSet(<<>>) = {}
    BY DEF Pick!ToSet
  <2>5. cs[blk[i]] \in C
    BY <1>2, <2>2, <2>3, <2>4
  <2>6. QED
    BY <1>2, <1>3, <2>1, <2>2, <2>3, <2>5
<1>9. ASSUME NEW j \in DOMAIN cs, cs[j] \in DOMAIN pools, NEW x \in Pick!ToSet(pools[cs[j]])
      PROVE  \E i \in DOMAIN s : blk[i] = j /\ s[i] = x
  <2>1. x \in Pick!ToSet(ss[j])
    BY <1>1, <1>2, <1>3, <1>9
  <2>2. PICK k \in DOMAIN ss[j] : x = ss[j][k]
    BY <2>1 DEF Pick!ToSet
  <2>3. QED
    BY <1>7, <2>2
<1>10. JoinsPools(s, cs, pools, blk)
  BY <1>7, <1>8, <1>9 DEF JoinsPools
<1>11. QED
  BY <1>5, <1>10

\* What is known of the items of an order.  An item that is left out names no
\* product of the catalogue.
SameBuys(items, known, P) ==
    \A p \in P : (\E i \in DOMAIN items : items[i].product = p) <=> \E i \in DOMAIN known : known[i].product = p

LEMMA KnownItems ==
    ASSUME NEW cat, Pick!IsCatalogue(cat), cat.price \in [Pick!ToSet(cat.shelf) -> Int],
           NEW items, Pick!IsList(items), \A i \in Pick!ToSet(items) : i.price = None \/ i.price \in Int,
           NEW known, known = Pick!normalize_order_items(items, cat)
    PROVE  /\ known \in Seq(Pick!ToSet(known)) /\ \A i \in DOMAIN known : known[i].price \in Int
           /\ SameBuys(items, known, Pick!ToSet(cat.shelf))
<1> DEFINE CatOf(i) == IF i.category = None /\ i.product \in DOMAIN cat.in THEN cat.in[i.product] ELSE i.category
           PriceOf(i) == IF i.price # None THEN i.price
                         ELSE IF i.product \in DOMAIN cat.in THEN cat.price[i.product] ELSE 0
           full == [j \in DOMAIN items |-> [product |-> items[j].product, category |-> CatOf(items[j]),
                                            price |-> PriceOf(items[j])]]
           K == {j \in DOMAIN full : full[j].category # None}
           R == {full[j] : j \in DOMAIN items}
<1>1. known = Pick!Keep(full, K)
  BY DEF Pick!normalize_order_items
<1>2. items \in Seq(Pick!ToSet(items)) /\ DOMAIN items = 1 .. Len(items) /\ Len(items) \in Nat
  <2>1. items \in Seq(Pick!ToSet(items))
    BY DEF Pick!IsList
  <2>2. QED
    BY <2>1, LenProperties
<1>3. /\ cat.in \in [Pick!ToSet(cat.shelf) -> Pick!ToSet(cat.order)] /\ None \notin Pick!ToSet(cat.order)
  BY DEF Pick!IsCatalogue
<1>4. \A j \in DOMAIN items : items[j] \in Pick!ToSet(items)
  BY DEF Pick!ToSet
<1>5. DOMAIN full = DOMAIN items /\ full \in [DOMAIN items -> R]
  OBVIOUS
<1>6. ASSUME NEW j \in DOMAIN items
      PROVE  /\ full[j].product = items[j].product /\ full[j].category = CatOf(items[j])
             /\ full[j].price = PriceOf(items[j])
  <2> HIDE DEF CatOf, PriceOf
  <2>1. QED
    OBVIOUS
<1>7. ASSUME NEW j \in DOMAIN items PROVE PriceOf(items[j]) \in Int
  <2>1. items[j].price = None \/ items[j].price \in Int
    BY <1>4
  <2>2. items[j].product \in DOMAIN cat.in => cat.price[items[j].product] \in Int
    BY <1>3
  <2>3. QED
    BY <2>1, <2>2
<1>8. ASSUME NEW j \in DOMAIN items, items[j].product \in Pick!ToSet(cat.shelf) PROVE CatOf(items[j]) # None
  BY <1>3, <1>8
<1> HIDE DEF CatOf, PriceOf, full, R
<1>9. full \in Seq(R) /\ Len(full) = Len(items) /\ DOMAIN full = 1 .. Len(full)
  BY <1>2, <1>5
<1>10. K \in SUBSET (1 .. Len(full)) /\ \A i, j \in 1 .. Len(full) : full[i] = full[j] /\ i \in K => j \in K
  BY <1>9
<1>11. \A j : j \in K <=> j \in DOMAIN items /\ full[j].category # None
  BY <1>5
<1> HIDE DEF K
<1>12. known \in Seq(R) /\ Pick!ToSet(known) = {full[k] : k \in K}
  BY <1>1, <1>9, <1>10, FilterFacts
<1>13. DOMAIN known = 1 .. Len(known) /\ Len(known) \in Nat
  BY <1>12, LenProperties
<1>14. \A i \in DOMAIN known : known[i] \in Pick!ToSet(known)
  BY DEF Pick!ToSet
<1>15. known \in Seq(Pick!ToSet(known))
  <2>1. known \in [1 .. Len(known) -> Pick!ToSet(known)]
    BY <1>12, <1>13, <1>14, LenProperties
  <2>2. QED
    BY <1>13, <2>1
<1>16. \A i \in DOMAIN known : \E k \in DOMAIN items : known[i] = full[k]
  BY <1>11, <1>12, <1>14
<1>17. \A i \in DOMAIN known : known[i].price \in Int
  BY <1>6, <1>7, <1>16
<1>18. ASSUME NEW p \in Pick!ToSet(cat.shelf), NEW j \in DOMAIN items, items[j].product = p
       PROVE  \E i \in DOMAIN known : known[i].product = p
  <2>1. full[j] \in Pick!ToSet(known)
    BY <1>6, <1>8, <1>11, <1>12, <1>18
  <2>2. PICK i \in DOMAIN known : known[i] = full[j]
    BY <2>1 DEF Pick!ToSet
  <2>3. QED
    BY <1>6, <1>18, <2>2
<1>19. ASSUME NEW p, NEW i \in DOMAIN known, known[i].product = p PROVE \E j \in DOMAIN items : items[j].product = p
  <2>1. PICK k \in DOMAIN items : known[i] = full[k]
    BY <1>16
  <2>2. QED
    BY <1>6, <1>19, <2>1
<1>20. SameBuys(items, known, Pick!ToSet(cat.shelf))
  BY <1>18, <1>19 DEF SameBuys
<1>21. QED
  BY <1>15, <1>17, <1>20

LEMMA EmptyList == ASSUME NEW X, NEW s \in Seq(X) PROVE s = <<>> <=> Pick!ToSet(s) = {}
<1>1. ASSUME s = <<>> PROVE Pick!ToSet(s) = {}
  BY <1>1 DEF Pick!ToSet
<1>2. ASSUME s # <<>> PROVE Pick!ToSet(s) # {}
  <2>1. 1 \in DOMAIN s
    BY <1>2, EmptySeq, LenProperties
  <2>2. QED
    BY <2>1 DEF Pick!ToSet
<1>3. QED
  BY <1>1, <1>2

LEMMA WithoutBegins ==
    ASSUME NEW X, NEW s \in Seq(X), NEW S
    PROVE  BeginsLeft(Pick!Without(s, S), s, S)
  BY WithoutFacts

LEMMA WithoutElements ==
    ASSUME NEW X, NEW s \in Seq(X), NEW S
    PROVE  Pick!Without(s, S) \in Seq(X) /\ Pick!ToSet(Pick!Without(s, S)) = Pick!ToSet(s) \ S
<1> DEFINE t == Pick!Without(s, S)
<1>1. t = Pick!Without(s, S)
  OBVIOUS
<1> HIDE DEF t
<1>2. t \in Seq(X) /\ Pick!ToSet(t) = Pick!ToSet(s) \ S
  BY <1>1, WithoutFacts
<1>3. QED
  BY <1>2 DEF t

\* The dearest item of a category.
TopPrice(known, c) == Pick!Max({known[i].price : i \in {j \in DOMAIN known : known[j].category = c}})

IsTop(known, c, p) ==
    /\ p \in Int /\ \A i \in DOMAIN known : known[i].category = c => known[i].price <= p
    /\ \E i \in DOMAIN known : known[i].category = c /\ known[i].price = p

LEMMA TopPriceIs ==
    ASSUME NEW X, NEW known \in Seq(X), \A i \in DOMAIN known : known[i].price \in Int,
           NEW j \in DOMAIN known, NEW c, c = known[j].category
    PROVE  IsTop(known, c, TopPrice(known, c))
<1> DEFINE I == {i \in DOMAIN known : known[i].category = c}
           S == {known[i].price : i \in I}
           f == [i \in I |-> known[i].price]
<1>1. I \in SUBSET (1 .. Len(known)) /\ Len(known) \in Nat /\ j \in I
  BY LenProperties
<1>2. S \in SUBSET Int /\ S # {}
  BY <1>1
<1>3. \A x : x \in S <=> \E i \in DOMAIN known : known[i].category = c /\ x = known[i].price
  OBVIOUS
<1>4. f \in [I -> S] /\ \A x \in S : \E i \in I : f[i] = x
  OBVIOUS
<1>5. TopPrice(known, c) = Pick!Max(S)
  BY DEF TopPrice
<1> HIDE DEF I, S, f
<1>6. IsFiniteSet(S)
  <2>1. IsFiniteSet(1 .. Len(known))
    BY <1>1, CountedUp
  <2>2. IsFiniteSet(I)
    BY <1>1, <2>1, FS_Subset
  <2>3. f \in Surjection(I, S)
    BY <1>4 DEF Surjection
  <2>4. QED
    BY <2>2, <2>3, FS_Surjection
<1>7. TopPrice(known, c) \in S /\ \A x \in S : x <= TopPrice(known, c)
  BY <1>2, <1>5, <1>6, GreatestPicked
<1>8. QED
  BY <1>2, <1>3, <1>7 DEF IsTop

\* FairCrossSell of the items that are known.
FairSell(items, known, pools, recent, limit, sell) ==
    LET mine == {known[i].category : i \in DOMAIN known} \intersect DOMAIN pools
        bought == {items[i].product : i \in DOMAIN items}
        rest == (UNION {Pick!ToSet(pools[c]) : c \in mine}) \ bought
        usable == IF rest \subseteq recent THEN rest ELSE rest \ recent
    IN  /\ Pick!Full(sell.ids, usable, limit) /\ Pick!ToSet(sell.ids) \subseteq usable
        /\ usable # {} => /\ Head(sell.ids) \in Pick!ToSet(pools[sell.primary])
                          /\ \A c \in mine : Pick!ToSet(pools[c]) \intersect usable # {} =>
                                              TopPrice(known, c) <= TopPrice(known, sell.primary)

LEMMA FairSellIs ==
    \A items, cat, pools, recent, limit, sell :
        FairSell(items, Pick!normalize_order_items(items, cat), pools, recent, limit, sell)
        <=> Pick!FairCrossSell(items, cat, pools, recent, limit, sell)
  BY DEF FairSell, Pick!FairCrossSell, TopPrice

\* Pools of some of the order's categories.
OwnPools(pools, known, P) ==
    \E C \in SUBSET {known[i].category : i \in DOMAIN known} : ArePools(pools, C, P)

NoneBought(ids, items) ==
    \A x \in Pick!ToSet(ids) : \A i \in DOMAIN items : items[i].product # x

LEMMA SellFair ==
    ASSUME NEW cat, Pick!IsCatalogue(cat), cat.price \in [Pick!ToSet(cat.shelf) -> Int],
           NEW items, Pick!IsList(items), \A i \in Pick!ToSet(items) : i.price = None \/ i.price \in Int,
           NEW known, known = Pick!normalize_order_items(items, cat),
           NEW pools, OwnPools(pools, known, Pick!ToSet(cat.shelf)),
           NEW recent, NEW limit \in Nat \ {0}, NEW offset \in Nat,
           NEW sell, sell = Pick!pick_cross_sell(known, pools, recent, limit, offset)
    PROVE  /\ Pick!FairCrossSell(items, cat, pools, recent, limit, sell)
           /\ NoneBought(sell.ids, items) /\ sell.ids \in Seq(Pick!ToSet(cat.shelf))
<1>0. PICK C \in SUBSET {known[i].category : i \in DOMAIN known} : ArePools(pools, C, Pick!ToSet(cat.shelf))
  BY DEF OwnPools
<1> DEFINE P == Pick!ToSet(cat.shelf)
           paid == {known[i].product : i \in DOMAIN known}
           bought == {items[i].product : i \in DOMAIN items}
           cs == Pick!ByPrice(known)
           Pool(c) == IF c \in DOMAIN pools THEN Pick!rotate_ids(pools[c], offset) ELSE <<>>
           strip == Pick!Joined([i \in DOMAIN cs |-> Pool(cs[i])])
           strict == Pick!Without(strip, paid \union recent)
           offered == IF strict # <<>> THEN strict ELSE Pick!Without(strip, paid)
           seen == {i \in DOMAIN cs : Pick!Contains(Pool(cs[i]), Head(offered))}
           m == Pick!Min(seen)
           mine == {known[i].category : i \in DOMAIN known} \intersect DOMAIN pools
           rest == (UNION {Pick!ToSet(pools[c]) : c \in mine}) \ bought
           usable == IF rest \subseteq recent THEN rest ELSE rest \ recent
           excl == IF strict # <<>> THEN paid \union recent ELSE paid
<1>1. sell = IF offered = <<>> THEN [primary |-> None, ids |-> <<>>]
             ELSE [primary |-> cs[m], ids |-> Pick!Take(Pick!Distinct(offered), limit)]
  BY Zenon DEF Pick!pick_cross_sell
<1>2. /\ known \in Seq(Pick!ToSet(known)) /\ \A i \in DOMAIN known : known[i].price \in Int
      /\ \A p \in P : p \in bought <=> p \in paid
  <2>1. /\ known \in Seq(Pick!ToSet(known)) /\ \A i \in DOMAIN known : known[i].price \in Int
        /\ SameBuys(items, known, P)
    BY KnownItems
  <2>2. QED
    BY <2>1 DEF SameBuys
<1>3. DOMAIN pools = C /\ mine = C /\ \A c \in C : pools[c] \in Seq(P)
  BY <1>0 DEF ArePools
<1>4. \A c \in C : \E j \in DOMAIN known : known[j].category = c
  BY <1>0
<1>5. PICK rank : DearestFirst(cs, known, rank)
  <2> HIDE DEF cs
  <2>1. cs = Pick!ByPrice(known)
    BY DEF cs
  <2>2. QED
    BY <1>2, <2>1, ByPriceFacts
<1>6. \A c : Pool(c) = PoolOf(pools, c, offset)
  BY DEF PoolOf
<1>7. strip = SellRow(cs, pools, offset)
  BY <1>6 DEF SellRow, PoolOf
<1>8. offered = Pick!Without(strip, excl) /\ strict = Pick!Without(strip, paid \union recent)
  OBVIOUS
<1>9. seen \in SUBSET (DOMAIN cs) /\ \A i : i \in seen <=> i \in DOMAIN cs /\ Pick!Contains(Pool(cs[i]), Head(offered))
  OBVIOUS
<1>10. DOMAIN cs = 1 .. Len(known) /\ Len(known) \in Nat /\ DOMAIN known = 1 .. Len(known)
  BY <1>2, <1>5, LenProperties DEF DearestFirst
<1> HIDE DEF cs, Pool, strip, strict, offered, excl, seen
<1>11. strip \in Seq(P) /\ \E blk : JoinsPools(strip, cs, pools, blk)
  <2> HIDE DEF P
  <2>1. ArePools(pools, C, P)
    BY <1>0 DEF P
  <2>2. QED
    BY <1>7, <1>10, <2>1, SellRowFacts
<1>12. PICK blk : JoinsPools(strip, cs, pools, blk)
  BY <1>11
<1>13. /\ \A i \in DOMAIN strip : /\ blk[i] \in DOMAIN cs /\ cs[blk[i]] \in C
                                  /\ strip[i] \in Pick!ToSet(pools[cs[blk[i]]])
       /\ \A j \in DOMAIN cs : cs[j] \in C =>
             \A x \in Pick!ToSet(pools[cs[j]]) : \E i \in DOMAIN strip : blk[i] = j /\ strip[i] = x
       /\ \A i, k \in DOMAIN strip : blk[i] < blk[k] => i < k
  BY <1>3, <1>12 DEF JoinsPools
<1>14. /\ \A i \in DOMAIN known : rank[i] \in DOMAIN known /\ cs[i] = known[rank[i]].category
       /\ \A j \in DOMAIN known : \E i \in DOMAIN known : rank[i] = j
       /\ \A q, r \in DOMAIN known : q <= r => known[rank[q]].price >= known[rank[r]].price
       /\ DOMAIN cs = DOMAIN known
  BY <1>5 DEF DearestFirst
<1>15. \A x : x \in Pick!ToSet(strip) <=> \E c \in C : x \in Pick!ToSet(pools[c])
  <2>1. ASSUME NEW i \in DOMAIN strip PROVE \E c \in C : strip[i] \in Pick!ToSet(pools[c])
    BY <1>13
  <2>2. ASSUME NEW c \in C, NEW x \in Pick!ToSet(pools[c]) PROVE \E i \in DOMAIN strip : strip[i] = x
    <3>1. PICK j \in DOMAIN known : known[j].category = c
      BY <1>4
    <3>2. PICK i \in DOMAIN known : rank[i] = j
      BY <1>14
    <3>3. i \in DOMAIN cs /\ cs[i] = c
      BY <1>14, <3>1, <3>2
    <3>4. QED
      BY <1>13, <3>3
  <2>3. \A x : x \in Pick!ToSet(strip) <=> \E i \in DOMAIN strip : x = strip[i]
    BY DEF Pick!ToSet
  <2>4. QED
    BY <2>1, <2>2, <2>3
<1>16. \A x \in Pick!ToSet(strip) : x \in P
  BY <1>3, <1>15, ListCounts
<1>17. rest = Pick!ToSet(strip) \ paid
  <2>1. \A x : x \in rest <=> (\E c \in C : x \in Pick!ToSet(pools[c])) /\ x \notin bought
    BY <1>3
  <2> HIDE DEF rest, bought, paid
  <2>2. QED
    BY <1>2, <1>15, <1>16, <2>1
<1> HIDE DEF rest
<1>18. strict \in Seq(P) /\ Pick!ToSet(strict) = Pick!ToSet(strip) \ (paid \union recent)
  BY <1>8, <1>11, WithoutElements
<1>19. strict = <<>> <=> rest \subseteq recent
  <2>1. strict = <<>> <=> Pick!ToSet(strict) = {}
    BY <1>18, EmptyList
  <2> HIDE DEF paid
  <2>2. QED
    BY <1>17, <1>18, <2>1
<1> HIDE DEF P, paid, bought, mine
<1>20. /\ offered \in Seq(P) /\ Pick!ToSet(offered) = Pick!ToSet(strip) \ excl
       /\ BeginsLeft(offered, strip, excl)
  <2>1. offered = Pick!Without(strip, excl)
    BY <1>8
  <2>2. strip \in Seq(P)
    BY <1>11
  <2>3. BeginsLeft(Pick!Without(strip, excl), strip, excl)
    BY <2>2, WithoutBegins
  <2>4. QED
    BY <2>1, <2>2, <2>3, WithoutElements
<1>21. Pick!ToSet(offered) = usable
  <2>1. CASE strict # <<>>
    BY <1>17, <1>19, <1>20, <2>1 DEF excl
  <2>2. CASE strict = <<>>
    BY <1>17, <1>19, <1>20, <2>2 DEF excl
  <2>3. QED
    BY <2>1, <2>2
<1>22. offered = <<>> <=> usable = {}
  BY <1>20, <1>21, EmptyList
<1>23. usable \subseteq rest
  OBVIOUS
<1> HIDE DEF usable
<1>24. CASE offered = <<>>
  <2>1. sell.ids = <<>> /\ usable = {}
    BY <1>1, <1>22, <1>24
  <2>2. Pick!ToSet(sell.ids) = {} /\ Len(sell.ids) = 0
    BY <2>1 DEF Pick!ToSet
  <2>3. Pick!Cardinality({}) = 0
    BY SameCounts, FS_EmptySet
  <2>4. Pick!Smaller(limit, 0) = 0
    BY SmallerIs
  <2>5. Pick!Full(sell.ids, usable, limit)
    BY <2>1, <2>2, <2>3, <2>4 DEF Pick!Full
  <2>6. FairSell(items, known, pools, recent, limit, sell)
    BY <2>1, <2>2, <2>5, Zenon DEF FairSell, usable, rest, mine, bought
  <2>7. Pick!FairCrossSell(items, cat, pools, recent, limit, sell)
    BY <2>6, FairSellIs
  <2>8. sell.ids \in Seq(P)
    BY <2>1, EmptySeq
  <2>9. QED
    BY <2>2, <2>7, <2>8 DEF NoneBought, P
<1>25. CASE offered # <<>>
  <2>1. sell.primary = cs[m] /\ sell.ids = Pick!Take(Pick!Distinct(offered), limit)
    BY <1>1, <1>25
  <2>2. /\ Pick!Full(sell.ids, usable, limit) /\ Pick!ToSet(sell.ids) \subseteq usable
        /\ sell.ids \in Seq(P)
    <3>1. OwnFirst(offered, {})
      BY DEF OwnFirst
    <3>2. Pick!Full(sell.ids, usable, limit) /\ Pick!ToSet(sell.ids) \subseteq usable
      <4>1. sell.ids = Pick!Take(Pick!Distinct(offered), limit)
        BY <2>1
      <4>2. offered \in Seq(P) /\ Pick!ToSet(offered) = usable /\ limit \in Nat
        BY <1>20, <1>21
      <4>3. QED
        BY <3>1, <4>1, <4>2, LetterDrawn
    <3>3. Pick!Distinct(offered) \in Seq(P)
      BY <1>20, DistinctFacts
    <3>4. sell.ids \in Seq(P)
      BY <2>1, <3>3, TakeFacts
    <3>5. QED
      BY <3>2, <3>4
  <2>3. Head(sell.ids) = offered[1] /\ Head(offered) = offered[1]
    <3> DEFINE d == Pick!Distinct(offered)
    <3>1. d \in Seq(P) /\ d # <<>> /\ d[1] = offered[1]
      <4> HIDE DEF d
      <4>1. d = Pick!Distinct(offered)
        BY DEF d
      <4>2. QED
        BY <1>20, <1>25, <4>1, DistinctFacts
    <3>2. sell.ids = Pick!Take(d, limit)
      BY <2>1
    <3> HIDE DEF d
    <3>3. sell.ids \in Seq(P) /\ Len(sell.ids) = Pick!Smaller(limit, Len(d)) /\ \A i \in 1 .. Len(sell.ids) : sell.ids[i] = d[i]
      BY <3>1, <3>2, TakeFacts
    <3>4. Len(d) \in Nat \ {0}
      BY <3>1, EmptySeq
    <3>5. Len(sell.ids) \in Nat \ {0}
      BY <3>3, <3>4, SmallerIs
    <3>6. sell.ids[1] = d[1]
      BY <3>3, <3>5
    <3>7. Head(sell.ids) = sell.ids[1] /\ Head(offered) = offered[1]
      OBVIOUS
    <3>8. QED
      BY <3>1, <3>6, <3>7
  <2>4. PICK k \in 1 .. Len(strip) : /\ offered[1] = strip[k] /\ strip[k] \notin excl
                                     /\ \A j \in 1 .. Len(strip) : strip[j] \notin excl => k <= j
    BY <1>20, <1>25 DEF BeginsLeft
  <2>5. DOMAIN strip = 1 .. Len(strip) /\ Len(strip) \in Nat
    BY <1>11, LenProperties
  <2>6. \A c : Pick!Contains(Pool(c), Head(offered)) <=> c \in C /\ offered[1] \in Pick!ToSet(pools[c])
    <3> SUFFICES ASSUME NEW c PROVE Pick!Contains(Pool(c), Head(offered)) <=> c \in C /\ offered[1] \in Pick!ToSet(pools[c])
      OBVIOUS
    <3>1. /\ Pool(c) \in Seq(P) /\ (c \in C => Pick!ToSet(Pool(c)) = Pick!ToSet(pools[c]))
          /\ (c \notin C => Pool(c) = <<>>)
      BY <1>0, <1>6, PoolOfFacts DEF P
    <3>2. Pick!Contains(Pool(c), Head(offered)) <=> offered[1] \in Pick!ToSet(Pool(c))
      BY <2>3, <3>1, LenProperties DEF Pick!Contains, Pick!ToSet
    <3>3. Pick!ToSet(<<>>) = {}
      BY DEF Pick!ToSet
    <3>4. QED
      BY <3>1, <3>2, <3>3
  <2>7. seen \in SUBSET Nat /\ blk[k] \in seen
    BY <1>9, <1>10, <1>13, <2>4, <2>5, <2>6
  <2>8. m \in seen /\ \A x \in seen : m <= x
    BY <2>7, LeastPicked
  <2> HIDE DEF m
  <2>9. m \in DOMAIN known /\ cs[m] \in C /\ offered[1] \in Pick!ToSet(pools[cs[m]])
    BY <1>9, <1>14, <2>6, <2>8
  <2>10. ASSUME NEW c \in C, Pick!ToSet(pools[c]) \intersect usable # {} PROVE TopPrice(known, c) <= TopPrice(known, cs[m])
    <3>1. PICK x \in Pick!ToSet(pools[c]) : x \in usable
      BY <2>10
    <3>2. PICK j \in DOMAIN known : known[j].category = c /\ known[j].price = TopPrice(known, c)
      BY SMTT(20), <1>2, <1>4, TopPriceIs DEF IsTop
    <3>3. PICK q \in DOMAIN known : rank[q] = j
      BY <1>14
    <3>4. q \in DOMAIN cs /\ cs[q] = c
      BY <1>14, <3>2, <3>3
    <3>5. PICK p \in DOMAIN strip : blk[p] = q /\ strip[p] = x
      BY <1>13, <3>4
    <3>6. x \notin excl
      BY <1>20, <1>21, <3>1
    <3>7. k <= p
      BY <2>4, <2>5, <3>5, <3>6
    <3>8. k \in DOMAIN strip /\ blk[k] \in Nat /\ q \in Nat /\ m \in Nat /\ k \in Nat /\ p \in Nat
      <4>1. k \in DOMAIN strip /\ k \in Nat /\ p \in Nat
        BY <2>5, <3>5
      <4>2. q \in Nat /\ m \in Nat
        BY <1>10, <2>9
      <4>3. QED
        BY <2>7, <4>1, <4>2
    <3>9. blk[k] <= q
      BY <1>13, <3>5, <3>7, <3>8
    <3>10. m <= q
      BY <2>7, <2>8, <3>5, <3>8, <3>9
    <3>11. known[rank[m]].price >= known[rank[q]].price
      BY <1>14, <2>9, <3>10
    <3>12. rank[m] \in DOMAIN known /\ known[rank[m]].category = cs[m]
      BY <1>14, <2>9
    <3>13. IsTop(known, cs[m], TopPrice(known, cs[m]))
      BY <1>2, <3>12, TopPriceIs
    <3>14. known[rank[m]].price <= TopPrice(known, cs[m]) /\ TopPrice(known, cs[m]) \in Int
      BY <3>12, <3>13 DEF IsTop
    <3>15. known[rank[m]].price \in Int /\ known[rank[q]].price \in Int /\ known[rank[q]].price = TopPrice(known, c)
      BY <1>2, <3>2, <3>3, <3>12
    <3>16. QED
      BY <3>11, <3>14, <3>15
  <2>11. Pick!FairCrossSell(items, cat, pools, recent, limit, sell)
    <3>1. /\ Head(sell.ids) \in Pick!ToSet(pools[sell.primary])
          /\ \A c \in mine : Pick!ToSet(pools[c]) \intersect usable # {} => TopPrice(known, c) <= TopPrice(known, sell.primary)
      BY <1>3, <2>1, <2>3, <2>9, <2>10
    <3>2. FairSell(items, known, pools, recent, limit, sell)
      BY <2>2, <3>1, Zenon DEF FairSell, usable, rest, mine, bought
    <3>3. QED
      BY <3>2, FairSellIs
  <2>12. \A x \in Pick!ToSet(sell.ids) : x \notin bought
    BY <1>23, <2>2 DEF rest
  <2>13. QED
    BY <2>2, <2>11, <2>12 DEF bought, NoneBought, P
<1>26. QED
  BY <1>24, <1>25

LEMMA OrderPools ==
    ASSUME NEW cat, Pick!IsCatalogue(cat), NEW known, NEW limit \in Nat,
           NEW pools, pools = Pick!order_pools(cat, known, limit)
    PROVE  OwnPools(pools, known, Pick!ToSet(cat.shelf))
<1> DEFINE all == Pick!top5_map(cat, limit)
           O == Pick!ToSet(cat.order)
           P == Pick!ToSet(cat.shelf)
           C == {known[i].category : i \in DOMAIN known} \intersect O
<1>1. all \in [O -> Seq(P)]
  <2> HIDE DEF all, O, P
  <2>1. all = Pick!top5_map(cat, limit)
    BY DEF all
  <2>2. ArePools(all, O, P)
    BY <2>1, PoolsAreLists DEF O, P
  <2>3. QED
    BY <2>2 DEF ArePools
<1>2. pools = [c \in {known[i].category : i \in DOMAIN known} \intersect DOMAIN all |-> all[c]]
  BY DEF Pick!order_pools
<1>3. pools = [c \in C |-> all[c]]
  BY <1>1, <1>2
<1>4. C \in SUBSET {known[i].category : i \in DOMAIN known} /\ C \subseteq O
  OBVIOUS
<1> HIDE DEF all, O, P, C
<1>5. ArePools(pools, C, P)
  BY <1>1, <1>3, <1>4 DEF ArePools
<1>6. QED
  BY <1>4, <1>5 DEF P, OwnPools

\* What a letter shows of the products chosen for it.
LEMMA ShownProducts ==
    ASSUME NEW X, NEW ids \in Seq(X), NEW cat, NEW limit \in Nat, NEW shown,
           shown = Pick!warm_products(cat, Pick!photo_first(cat, Pick!load_products(cat, ids), limit))
    PROVE  shown \in Seq(X) /\ Pick!ToSet(shown) \subseteq Pick!ToSet(ids) \intersect cat.stock \intersect cat.photo \intersect cat.live
<1> DEFINE first == Pick!Distinct(ids)
           showable == cat.stock \intersect cat.photo
           listed == Pick!Only(first, showable)
           pictured == Pick!Only(listed, cat.photo)
           cut == Pick!Take(pictured, limit)
<1>1. shown = Pick!Only(cut, cat.live)
  BY DEF Pick!warm_products, Pick!photo_first, Pick!load_products
<1> HIDE DEF first, listed, pictured, cut, showable
<1>2. first \in Seq(X) /\ Pick!ToSet(first) = Pick!ToSet(ids)
  BY DistinctFacts DEF first
<1>3. listed \in Seq(X) /\ Pick!ToSet(listed) = Pick!ToSet(first) \intersect showable
  BY <1>2, OnlyFacts DEF listed
<1>4. pictured \in Seq(X) /\ Pick!ToSet(pictured) = Pick!ToSet(listed) \intersect cat.photo
  BY <1>3, OnlyFacts DEF pictured
<1>5. cut \in Seq(X) /\ Pick!ToSet(cut) \in SUBSET Pick!ToSet(pictured)
  BY <1>4, TakeFacts DEF cut
<1>6. shown \in Seq(X) /\ Pick!ToSet(shown) = Pick!ToSet(cut) \intersect cat.live
  BY <1>1, <1>5, OnlyFacts
<1>7. QED
  BY <1>2, <1>3, <1>4, <1>5, <1>6 DEF showable

LEMMA SellIsList ==
    ASSUME NEW known, NEW pools, NEW recent, NEW limit, NEW offset, NEW sell,
           sell = Pick!pick_cross_sell(known, pools, recent, limit, offset)
    PROVE  sell = [primary |-> sell.primary, ids |-> sell.ids]
<1>1. \A g, c, i : LET r == IF g THEN [primary |-> None, ids |-> <<>>] ELSE [primary |-> c, ids |-> i]
                   IN  r = [primary |-> r.primary, ids |-> r.ids]
  OBVIOUS
<1>2. QED
  BY <1>1, Zenon DEF Pick!pick_cross_sell

\* The post-sale letter offers what goes with the dearest category that has something left, as
\* fully as the pools allow and without repeating a recent product it need not; it never shows
\* what was bought, is sold out or has no picture (product_pick.pick_cross_sell,
\* postsale._process_one).
THEOREM CrossSellStaysFair == Spec => []FairCrossSell
<1>1. ChoiceMade => FairCrossSell
  <2> SUFFICES ASSUME ChoiceMade, choice # Pick!NoChoice PROVE FairCrossSell
    BY DEF FairCrossSell, Pick!CrossSellIsFair
  <2>1. PICK shop \in Shops, c \in Customers : choice = Chosen(shop, c)
    BY DEF ChoiceMade
  <2> DEFINE known == Pick!normalize_order_items(c.items, shop)
             pools == Pick!order_pools(shop, known, c.limit)
             sell == Pick!pick_cross_sell(known, pools, c.recent, c.limit, c.offset)
             shown == Pick!warm_products(shop, Pick!photo_first(shop, Pick!load_products(shop, sell.ids), c.limit))
  <2>2. /\ choice.shop = shop /\ choice.customer = c /\ choice.sell = sell
        /\ choice.cross = [sell EXCEPT !.ids = shown]
    BY <2>1 DEF Chosen, Pick!cross_sell_products
  <2>3. /\ Pick!IsCatalogue(shop) /\ shop.price \in [Pick!ToSet(shop.shelf) -> Int]
        /\ c.limit \in Nat \ {0} /\ c.limit \in Nat /\ c.offset \in Nat
        /\ Pick!IsList(c.items) /\ \A i \in Pick!ToSet(c.items) : i.price = None \/ i.price \in Int
    BY ChoiceAssumption DEF Pick!IsCustomer
  <2>4. /\ known = Pick!normalize_order_items(c.items, shop)
        /\ pools = Pick!order_pools(shop, known, c.limit)
        /\ sell = Pick!pick_cross_sell(known, pools, c.recent, c.limit, c.offset)
        /\ shown = Pick!warm_products(shop, Pick!photo_first(shop, Pick!load_products(shop, sell.ids), c.limit))
    OBVIOUS
  <2> HIDE DEF known, pools, sell, shown
  <2>5. OwnPools(pools, known, Pick!ToSet(shop.shelf))
    BY <2>3, <2>4, OrderPools
  <2>6. /\ Pick!FairCrossSell(c.items, shop, pools, c.recent, c.limit, sell)
        /\ NoneBought(sell.ids, c.items) /\ sell.ids \in Seq(Pick!ToSet(shop.shelf))
    BY <2>3, <2>4, <2>5, SellFair
  <2>7. choice.cross.ids = shown
    <3>1. sell = [primary |-> sell.primary, ids |-> sell.ids]
      BY <2>4, SellIsList
    <3>2. QED
      BY <2>2, <3>1
  <2>8. /\ shown \in Seq(Pick!ToSet(shop.shelf))
        /\ Pick!ToSet(shown) \subseteq Pick!ToSet(sell.ids) \intersect shop.stock \intersect shop.photo \intersect shop.live
    BY <2>3, <2>4, <2>6, ShownProducts
  <2>9. ASSUME NEW i \in DOMAIN choice.cross.ids
        PROVE  /\ choice.cross.ids[i] \in shop.stock \intersect shop.photo \intersect shop.live
               /\ \A j \in DOMAIN c.items : c.items[j].product # choice.cross.ids[i]
    <3>1. choice.cross.ids[i] \in Pick!ToSet(shown)
      BY <2>7, <2>8 DEF Pick!ToSet
    <3>2. QED
      BY <2>6, <2>8, <3>1 DEF NoneBought
  <2>10. Pick!FairCrossSell(choice.customer.items, choice.shop,
             Pick!order_pools(choice.shop, Pick!normalize_order_items(choice.customer.items, choice.shop), choice.customer.limit),
             choice.customer.recent, choice.customer.limit, choice.sell)
    BY <2>2, <2>6, Zenon DEF known, pools
  <2>11. QED
    BY <2>2, <2>9, <2>10, Zenon DEF FairCrossSell, Pick!CrossSellIsFair
<1>2. QED
  BY <1>1, ChoiceIsMade, PTL

=============================================================================
