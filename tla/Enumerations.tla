---------------------------- MODULE Enumerations ----------------------------
(***************************************************************************)
(* The elements of a finite set one after the other, in a given order: what *)
(* a loop over a sorted container goes through, and sums over finite sets.  *)
(* What is recursive here is a function, so that facts can be proved of it. *)
(***************************************************************************)
EXTENDS Integers, SequencesExt, SequenceTheorems, FiniteSetTheorems, TLAPS

(* Numbers in ascending order. *)
Ascending(K) ==
    LET rank == [k \in K |-> Cardinality({i \in K : i <= k})]
    IN  [n \in 1 .. Cardinality(K) |-> CHOOSE k \in K : rank[k] = n]

(* The elements of the sequence s at the positions K.                      *)
AtPositions(s, K) == [n \in 1 .. Cardinality(K) |-> s[Ascending(K)[n]]]

(* `order' holds the pairs of elements of S of which the first comes first. *)
IsOrder(S, order) ==
    /\ \A x, y \in S : <<x, y>> \in order \/ <<y, x>> \in order
    /\ \A x, y \in S : <<x, y>> \in order /\ <<y, x>> \in order => x = y
    /\ \A x, y, z \in S : <<x, y>> \in order /\ <<y, z>> \in order => <<x, z>> \in order

Place(x, S, order) == Cardinality({y \in S : <<y, x>> \in order})

(* The elements of the sequences ss[k] one sequence after the other, by      *)
(* ascending k; an entry <<k, n>> is the n-th of ss[k].                     *)
Entries(ss) == UNION {{k} \X DOMAIN ss[k] : k \in DOMAIN ss}

Before(p, q) == p[1] < q[1] \/ (p[1] = q[1] /\ p[2] < q[2])

Concatenated(ss) ==
    [n \in 1 .. Cardinality(Entries(ss)) |->
        LET entry == CHOOSE q \in Entries(ss) :
                        Cardinality({p \in Entries(ss) : p = q \/ Before(p, q)}) = n
        IN  ss[entry[1]][entry[2]]]

(* The sum of the f[x] for x in S. *)
SumOver(f, S) ==
    LET sum[T \in SUBSET S] ==
            IF T = {} THEN 0 ELSE LET x == CHOOSE x \in T : TRUE IN f[x] + sum[T \ {x}]
    IN  sum[S]

-----------------------------------------------------------------------------
(* Every place is taken by one element, and the places follow the order.    *)
LEMMA OnePlaceEach ==
    ASSUME NEW S, NEW order, IsFiniteSet(S), IsOrder(S, order)
    PROVE  /\ Cardinality(S) \in Nat
           /\ \A x \in S : Place(x, S, order) \in 1 .. Cardinality(S)
           /\ \A n \in 1 .. Cardinality(S) : \E x \in S : Place(x, S, order) = n
           /\ \A x, y \in S : Place(x, S, order) = Place(y, S, order) => x = y
           /\ \A x, y \in S : x # y /\ <<x, y>> \in order => Place(x, S, order) < Place(y, S, order)
<1> DEFINE N == Cardinality(S)
           Upto(x) == {y \in S : <<y, x>> \in order}
           place == [x \in S |-> Place(x, S, order)]
<1>1. N \in Nat
  BY FS_CardinalityType
<1>2. ASSUME NEW x \in S
      PROVE  /\ IsFiniteSet(Upto(x)) /\ x \in Upto(x)
             /\ Place(x, S, order) = Cardinality(Upto(x))
             /\ Place(x, S, order) \in Nat /\ Place(x, S, order) \in 1 .. N
  <2>1. Upto(x) \in SUBSET S /\ x \in Upto(x)
    BY DEF IsOrder
  <2>2. IsFiniteSet(Upto(x)) /\ Cardinality(Upto(x)) <= N
    BY <2>1, FS_Subset
  <2>3. Cardinality(Upto(x)) \in Nat /\ Cardinality(Upto(x)) # 0
    BY <2>1, <2>2, FS_CardinalityType, FS_EmptySet
  <2>4. Place(x, S, order) = Cardinality(Upto(x))
    BY DEF Place
  <2> QED BY <1>1, <2>1, <2>2, <2>3, <2>4
<1>3. ASSUME NEW x \in S, NEW y \in S, x # y, <<x, y>> \in order
      PROVE  Place(x, S, order) < Place(y, S, order)
  <2>1. Upto(x) \in SUBSET Upto(y) /\ Upto(x) # Upto(y)
    BY <1>2, <1>3 DEF IsOrder
  <2>2. Cardinality(Upto(x)) <= Cardinality(Upto(y)) /\ Cardinality(Upto(x)) # Cardinality(Upto(y))
    BY <1>2, <2>1, FS_Subset
  <2> HIDE DEF Upto
  <2>3. Cardinality(Upto(x)) \in Nat /\ Cardinality(Upto(y)) \in Nat
    BY <1>2, FS_CardinalityType
  <2> QED BY <1>2, <2>2, <2>3
<1>4. ASSUME NEW x \in S, NEW y \in S, Place(x, S, order) = Place(y, S, order) PROVE x = y
  <2> SUFFICES ASSUME x # y PROVE FALSE
    OBVIOUS
  <2>1. <<x, y>> \in order \/ <<y, x>> \in order
    BY DEF IsOrder
  <2>2. Place(x, S, order) \in Nat /\ Place(y, S, order) \in Nat
    BY <1>2
  <2> QED BY <1>3, <1>4, <2>1, <2>2
<1>5. place \in Injection(S, 1 .. N)
  BY <1>2, <1>4 DEF Injection, IsInjective
<1>6. place \in Surjection(S, 1 .. N)
  <2>1. IsFiniteSet(1 .. N) /\ Cardinality(1 .. N) = N
    BY <1>1, FS_Interval
  <2> HIDE DEF place
  <2> QED BY <1>5, <2>1, FS_Injection
<1>7. \A n \in 1 .. N : \E x \in S : Place(x, S, order) = n
  BY <1>6 DEF Surjection
<1>8. QED
  BY <1>1, <1>2, <1>3, <1>4, <1>7

(* In particular, every place is taken. *)
LEMMA EveryPlaceIsTaken ==
    ASSUME NEW S, NEW order, IsFiniteSet(S), IsOrder(S, order), NEW n \in 1 .. Cardinality(S)
    PROVE  \E x \in S : Place(x, S, order) = n
BY OnePlaceEach

(* Numbers are listed once each and in ascending order. *)
LEMMA AscendingFacts ==
    ASSUME NEW K, K \subseteq Int, IsFiniteSet(K)
    PROVE  /\ Cardinality(K) \in Nat
           /\ Ascending(K) \in [1 .. Cardinality(K) -> K]
           /\ \A k \in K : \E n \in 1 .. Cardinality(K) : Ascending(K)[n] = k
           /\ \A i, j \in 1 .. Cardinality(K) : i < j => Ascending(K)[i] < Ascending(K)[j]
<1> DEFINE N == Cardinality(K)
           atMost == {p \in K \X K : p[1] <= p[2]}
           rank == [k \in K |-> Cardinality({i \in K : i <= k})]
<1>1. IsOrder(K, atMost)
  BY DEF IsOrder
<1>2. ASSUME NEW k \in K PROVE Place(k, K, atMost) = rank[k]
  <2>1. {i \in K : <<i, k>> \in atMost} = {i \in K : i <= k}
    OBVIOUS
  <2> HIDE DEF atMost
  <2> QED BY <2>1 DEF Place
<1>3. \A j, k \in K : j < k => j # k /\ <<j, k>> \in atMost
  OBVIOUS
<1> HIDE DEF atMost, rank
<1>4. /\ N \in Nat
      /\ \A k \in K : rank[k] \in 1 .. N
      /\ \A n \in 1 .. N : \E k \in K : rank[k] = n
      /\ \A j, k \in K : rank[j] = rank[k] => j = k
  <2>1. N \in Nat /\ \A k \in K : Place(k, K, atMost) \in 1 .. N
    BY <1>1, OnePlaceEach
  <2>2. \A n \in 1 .. N : \E k \in K : Place(k, K, atMost) = n
    <3> TAKE n \in 1 .. N
    <3>1. n \in 1 .. Cardinality(K) /\ IsFiniteSet(K)
      OBVIOUS
    <3> HIDE DEF N
    <3> QED BY <1>1, <3>1, EveryPlaceIsTaken
  <2>3. \A j, k \in K : Place(j, K, atMost) = Place(k, K, atMost) => j = k
    BY <1>1, OnePlaceEach
  <2> HIDE DEF N
  <2> QED BY <1>2, <2>1, <2>2, <2>3
<1>5. ASSUME NEW j \in K, NEW k \in K, j < k PROVE rank[j] < rank[k]
  <2>1. Place(j, K, atMost) < Place(k, K, atMost)
    BY <1>1, <1>3, <1>5, OnePlaceEach
  <2> QED BY <1>2, <2>1
<1>6. /\ DOMAIN Ascending(K) = 1 .. N
      /\ Ascending(K) = [n \in 1 .. N |-> CHOOSE k \in K : rank[k] = n]
  BY DEF Ascending, rank
<1>7. ASSUME NEW n \in 1 .. N
      PROVE  Ascending(K)[n] \in K /\ rank[Ascending(K)[n]] = n
  BY <1>4, <1>6
<1>8. Ascending(K) \in [1 .. N -> K]
  BY <1>6, <1>7
<1>9. ASSUME NEW k \in K PROVE \E n \in 1 .. N : Ascending(K)[n] = k
  <2>1. rank[k] \in 1 .. N
    BY <1>4
  <2>2. Ascending(K)[rank[k]] = k
    BY <1>4, <1>7, <2>1
  <2> QED BY <2>1, <2>2
<1>10. ASSUME NEW i \in 1 .. N, NEW j \in 1 .. N, i < j
      PROVE  Ascending(K)[i] < Ascending(K)[j]
  <2>1. Ascending(K)[i] \in K /\ Ascending(K)[j] \in K
    BY <1>7
  <2>2. Ascending(K)[i] # Ascending(K)[j]
    BY <1>4, <1>7, <1>10
  <2>3. CASE Ascending(K)[j] < Ascending(K)[i]
    <3>1. rank[Ascending(K)[j]] < rank[Ascending(K)[i]]
      BY <1>5, <2>1, <2>3
    <3> QED BY <1>4, <1>7, <1>10, <3>1
  <2>4. Ascending(K)[i] \in Int /\ Ascending(K)[j] \in Int
    BY <2>1
  <2> QED BY <2>2, <2>3, <2>4
<1>11. QED
  BY <1>4, <1>8, <1>9, <1>10

(* As many numbers come up to the n-th of them. *)
LEMMA AscendingRank ==
    ASSUME NEW K, K \subseteq Int, IsFiniteSet(K), NEW n \in 1 .. Cardinality(K)
    PROVE  Cardinality({i \in K : i <= Ascending(K)[n]}) = n
<1> DEFINE atMost == {p \in K \X K : p[1] <= p[2]}
           rank == [k \in K |-> Cardinality({i \in K : i <= k})]
<1>1. IsOrder(K, atMost)
  BY DEF IsOrder
<1>2. ASSUME NEW k \in K PROVE Place(k, K, atMost) = rank[k]
  <2>1. {i \in K : <<i, k>> \in atMost} = {i \in K : i <= k}
    OBVIOUS
  <2> HIDE DEF atMost
  <2> QED BY <2>1 DEF Place
<1> HIDE DEF atMost
<1>3. \E k \in K : Place(k, K, atMost) = n
  BY <1>1, EveryPlaceIsTaken
<1>4. \E k \in K : rank[k] = n
  BY <1>2, <1>3
<1>5. Ascending(K)[n] = CHOOSE k \in K : rank[k] = n
  BY DEF Ascending
<1> HIDE DEF rank
<1>6. Ascending(K)[n] \in K /\ rank[Ascending(K)[n]] = n
  BY <1>4, <1>5
<1> QED BY <1>6 DEF rank

(* What is at some of the positions of a sequence: those elements and no    *)
(* others, in the order they had.                                          *)
LEMMA PositionsFacts ==
    ASSUME NEW T, NEW s \in Seq(T), NEW K, K \subseteq DOMAIN s
    PROVE  /\ IsFiniteSet(K) /\ Cardinality(K) \in Nat
           /\ AtPositions(s, K) \in Seq(T)
           /\ Len(AtPositions(s, K)) = Cardinality(K)
           /\ DOMAIN AtPositions(s, K) = 1 .. Cardinality(K)
           /\ Ascending(K) \in [1 .. Cardinality(K) -> K]
           /\ \A n \in 1 .. Cardinality(K) : AtPositions(s, K)[n] = s[Ascending(K)[n]]
           /\ \A k \in K : \E n \in 1 .. Cardinality(K) : Ascending(K)[n] = k
           /\ \A i, j \in 1 .. Cardinality(K) : i < j => Ascending(K)[i] < Ascending(K)[j]
<1>1. DOMAIN s = 1 .. Len(s) /\ Len(s) \in Nat
  OBVIOUS
<1>2. IsFiniteSet(K) /\ K \subseteq Int
  <2>1. IsFiniteSet(1 .. Len(s)) /\ 1 .. Len(s) \subseteq Int
    BY <1>1, FS_Interval
  <2>2. K \in SUBSET (1 .. Len(s))
    BY <1>1
  <2> QED BY <2>1, <2>2, FS_Subset
<1>3. /\ Cardinality(K) \in Nat
      /\ Ascending(K) \in [1 .. Cardinality(K) -> K]
      /\ \A k \in K : \E n \in 1 .. Cardinality(K) : Ascending(K)[n] = k
      /\ \A i, j \in 1 .. Cardinality(K) : i < j => Ascending(K)[i] < Ascending(K)[j]
  BY <1>2, AscendingFacts
<1>4. \A k \in K : s[k] \in T
  BY <1>1
<1>5. AtPositions(s, K) \in [1 .. Cardinality(K) -> T]
  BY <1>3, <1>4 DEF AtPositions
<1>6. AtPositions(s, K) \in Seq(T) /\ Len(AtPositions(s, K)) = Cardinality(K)
  BY <1>3, <1>5, SeqDef, LenProperties
<1>7. QED
  BY <1>2, <1>3, <1>5, <1>6 DEF AtPositions

(* An element that occurs once is found at one position.                    *)
LEMMA OnePosition ==
    ASSUME NEW T, NEW s \in Seq(T), NEW m \in DOMAIN s
    PROVE  Len(AtPositions(s, {m})) = 1 /\ AtPositions(s, {m})[1] = s[m]
<1> DEFINE P == {m}
<1>1. P \subseteq DOMAIN s /\ Cardinality(P) = 1 /\ \A k \in P : k = m
  BY FS_Singleton
<1> HIDE DEF P
<1>2. /\ Len(AtPositions(s, P)) = Cardinality(P)
      /\ Ascending(P) \in [1 .. Cardinality(P) -> P]
      /\ \A n \in 1 .. Cardinality(P) : AtPositions(s, P)[n] = s[Ascending(P)[n]]
  <2>1. Len(AtPositions(s, P)) = Cardinality(P)
    BY <1>1, PositionsFacts
  <2>2. Ascending(P) \in [1 .. Cardinality(P) -> P]
    BY <1>1, PositionsFacts
  <2>3. \A n \in 1 .. Cardinality(P) : AtPositions(s, P)[n] = s[Ascending(P)[n]]
    BY <1>1, PositionsFacts
  <2> QED BY <2>1, <2>2, <2>3
<1>3. 1 \in 1 .. Cardinality(P)
  BY <1>1
<1>4. Ascending(P)[1] = m /\ AtPositions(s, P)[1] = s[Ascending(P)[1]]
  BY <1>1, <1>2, <1>3
<1>5. QED
  BY <1>1, <1>2, <1>4 DEF P

-----------------------------------------------------------------------------
(* Every nonempty set of natural numbers has a least one: of the intervals  *)
(* from 0 to them, one contains no other.                                  *)
LEMMA LeastNumber ==
    ASSUME NEW S, S \subseteq Nat, S # {}
    PROVE  \E n \in S : \A m \in S : n <= m
<1> DEFINE Intervals == {0 .. n : n \in S}
<1>1. Intervals \subseteq FiniteSubsetsOf(Nat)
  <2> SUFFICES ASSUME NEW n \in S PROVE 0 .. n \in FiniteSubsetsOf(Nat)
    OBVIOUS
  <2>1. IsFiniteSet(0 .. n) /\ 0 .. n \subseteq Nat
    BY FS_Interval
  <2> QED BY <2>1 DEF FiniteSubsetsOf
<1>2. PICK U \in Intervals : \A V \in Intervals : ~(<<V, U>> \in StrictSubsetOrdering(Nat))
  <2>1. Intervals # {}
    OBVIOUS
  <2> HIDE DEF Intervals
  <2> QED BY <1>1, <2>1, FS_StrictSubsetOrderingWellFounded, WFMin
<1>3. PICK n \in S : U = 0 .. n
  BY <1>2
<1>4. ASSUME NEW m \in S, m < n PROVE FALSE
  <2>1. 0 .. m \subseteq 0 .. n /\ n \notin 0 .. m /\ n \in 0 .. n
    BY <1>4
  <2>2. IsFiniteSet(0 .. n) /\ IsFiniteSet(0 .. m) /\ 0 .. n \subseteq Nat /\ 0 .. m \subseteq Nat
    BY FS_Interval
  <2>3. <<0 .. m, 0 .. n>> \in StrictSubsetOrdering(Nat)
    BY <2>1, <2>2 DEF StrictSubsetOrdering
  <2> QED BY <1>2, <1>3, <2>3
<1>5. QED
  BY <1>4

(* Induction over the natural numbers, about a set instead of an operator.  *)
LEMMA SetInduction ==
    ASSUME NEW S, 0 \in S, \A n \in Nat : n \in S => n + 1 \in S
    PROVE  Nat \subseteq S
<1> SUFFICES ASSUME Nat \ S # {} PROVE FALSE
  OBVIOUS
<1>1. PICK n \in Nat \ S : \A m \in Nat \ S : n <= m
  <2> DEFINE R == Nat \ S
  <2>1. R \subseteq Nat /\ R # {}
    OBVIOUS
  <2> HIDE DEF R
  <2>2. \E n \in R : \A m \in R : n <= m
    BY <2>1, LeastNumber
  <2> QED BY <2>2 DEF R
<1>2. n # 0 /\ n - 1 \in Nat /\ n - 1 < n
  OBVIOUS
<1>3. n - 1 \in S
  BY <1>1, <1>2
<1>4. QED
  BY <1>2, <1>3

-----------------------------------------------------------------------------
(* Finitely many finite sequences have finitely many entries.               *)
LEMMA EntriesFacts ==
    ASSUME NEW D, IsFiniteSet(D), NEW T, NEW ss \in [D -> Seq(T)]
    PROVE  /\ IsFiniteSet(Entries(ss))
           /\ \A p \in Entries(ss) : p[1] \in D /\ p[2] \in 1 .. Len(ss[p[1]]) /\ p = <<p[1], p[2]>>
           /\ \A k \in D : \A n \in 1 .. Len(ss[k]) : <<k, n>> \in Entries(ss)
           /\ \A p \in Entries(ss) : ss[p[1]][p[2]] \in T
<1> DEFINE Row(k) == {k} \X DOMAIN ss[k]
           f == [k \in D |-> Row(k)]
           Rows == {Row(k) : k \in D}
<1>1. \A k \in D : ss[k] \in Seq(T) /\ Len(ss[k]) \in Nat /\ DOMAIN ss[k] = 1 .. Len(ss[k])
  BY LenProperties
<1>2. f \in Surjection(D, Rows)
  BY DEF Surjection
<1>3. IsFiniteSet(Rows)
  <2> HIDE DEF f, Rows
  <2> QED BY <1>2, FS_Surjection
<1>4. \A k \in D : IsFiniteSet(Row(k))
  <2> TAKE k \in D
  <2>1. IsFiniteSet({k})
    BY FS_Singleton
  <2>2. IsFiniteSet(DOMAIN ss[k])
    BY <1>1, FS_Interval
  <2> QED BY <2>1, <2>2, FS_Product
<1>5. IsFiniteSet(Entries(ss))
  <2>1. Entries(ss) = UNION Rows
    BY DEF Entries
  <2>2. \A R \in Rows : IsFiniteSet(R)
    BY <1>4
  <2> HIDE DEF Rows
  <2> QED BY <1>3, <2>1, <2>2, FS_UNION
<1>6. /\ \A p \in Entries(ss) : p[1] \in D /\ p[2] \in 1 .. Len(ss[p[1]]) /\ p = <<p[1], p[2]>>
      /\ \A k \in D : \A n \in 1 .. Len(ss[k]) : <<k, n>> \in Entries(ss)
  BY <1>1 DEF Entries
<1>7. \A p \in Entries(ss) : ss[p[1]][p[2]] \in T
  BY <1>1, <1>6, ElementOfSeq
<1>8. QED
  BY <1>5, <1>6, <1>7

(* How many entries there are after one of the sequences was replaced.      *)
Families(D, T) == [D -> Seq(T)]

LEMMA EntriesReplaced ==
    ASSUME NEW D, IsFiniteSet(D), NEW T, NEW ss \in Families(D, T),
           NEW new \in Families(D, T),
           NEW k \in D, \A i \in D : i # k => new[i] = ss[i]
    PROVE  /\ Cardinality(Entries(ss)) \in Nat
           /\ Cardinality(Entries(new)) + Len(ss[k]) = Cardinality(Entries(ss)) + Len(new[k])
<1> DEFINE Row(t) == {k} \X (1 .. Len(t))
           Others == {p \in Entries(ss) : p[1] # k}
<1> DEFINE s == new[k]
<1>0. ss \in [D -> Seq(T)] /\ new \in [D -> Seq(T)]
  BY DEF Families
<1>1. ss[k] \in Seq(T) /\ s \in Seq(T)
  BY <1>0
<1>2. /\ \A i \in D : ss[i] \in Seq(T) /\ DOMAIN ss[i] = 1 .. Len(ss[i])
      /\ \A i \in D : new[i] \in Seq(T) /\ DOMAIN new[i] = 1 .. Len(new[i])
      /\ DOMAIN ss = D /\ DOMAIN new = D
  BY <1>0, LenProperties
<1>3. IsFiniteSet(Entries(ss)) /\ IsFiniteSet(Others)
  BY <1>0, EntriesFacts, FS_Subset
<1>4. Entries(ss) = Others \cup Row(ss[k])
  BY <1>2 DEF Entries
<1>5. Entries(new) = Others \cup Row(s)
  BY <1>2 DEF Entries
<1>6. ASSUME NEW t \in Seq(T)
      PROVE  /\ Len(t) \in Nat
             /\ Cardinality(Others \cup Row(t)) = Cardinality(Others) + Len(t)
  <2>1. Len(t) \in Nat
    BY LenProperties
  <2>2. IsFiniteSet(1 .. Len(t)) /\ Cardinality(1 .. Len(t)) = Len(t)
    <3> DEFINE n == Len(t)
    <3>1. n \in Nat
      BY <2>1
    <3> HIDE DEF n
    <3>2. IsFiniteSet(1 .. n) /\ Cardinality(1 .. n) = IF 1 > n THEN 0 ELSE n - 1 + 1
      BY <3>1, FS_Interval
    <3>3. IsFiniteSet(1 .. n) /\ Cardinality(1 .. n) = n
      BY <3>1, <3>2
    <3> QED BY <3>3 DEF n
  <2>3. IsFiniteSet({k}) /\ Cardinality({k}) = 1
    BY FS_Singleton
  <2>4. IsFiniteSet(Row(t)) /\ Cardinality(Row(t)) = 1 * Len(t)
    <3>1. /\ IsFiniteSet(Row(t))
          /\ Cardinality(Row(t)) = Cardinality({k}) * Cardinality(1 .. Len(t))
      BY <2>2, <2>3, FS_Product
    <3> QED BY <2>2, <2>3, <3>1
  <2>5. Others \cap Row(t) = {}
    OBVIOUS
  <2> HIDE DEF Others, Row
  <2>6. Cardinality(Others \cup Row(t)) =
           Cardinality(Others) + Cardinality(Row(t)) - Cardinality(Others \cap Row(t))
    BY <1>3, <2>4, FS_Union
  <2>7. Cardinality(Others \cap Row(t)) = 0 /\ Cardinality(Others) \in Nat
    BY <1>3, <2>5, FS_EmptySet, FS_CardinalityType
  <2> QED BY <2>1, <2>4, <2>6, <2>7
<1> HIDE DEF Others, Row, s
<1>7. Cardinality(Others) \in Nat
  BY <1>3, FS_CardinalityType
<1>8. /\ Len(s) \in Nat /\ Len(ss[k]) \in Nat
      /\ Cardinality(Entries(ss)) = Cardinality(Others) + Len(ss[k])
      /\ Cardinality(Entries(new)) = Cardinality(Others) + Len(s)
  BY <1>1, <1>4, <1>5, <1>6
<1>9. /\ Cardinality(Entries(ss)) \in Nat
       /\ Cardinality(Entries(new)) + Len(ss[k]) = Cardinality(Entries(ss)) + Len(s)
  BY <1>7, <1>8
<1> QED BY <1>9 DEF s

(* Every entry is at one position of the concatenation: at[n] is the one    *)
(* at n.                                                                   *)
ComesFrom(ss, at) ==
    /\ at \in Bijection(1 .. Cardinality(Entries(ss)), Entries(ss))
    /\ \A n \in 1 .. Cardinality(Entries(ss)) : Concatenated(ss)[n] = ss[at[n][1]][at[n][2]]

LEMMA ConcatenationFacts ==
    ASSUME NEW D, D \subseteq Int, IsFiniteSet(D), NEW T, NEW ss \in [D -> Seq(T)]
    PROVE  /\ Cardinality(Entries(ss)) \in Nat
           /\ Concatenated(ss) \in Seq(T)
           /\ DOMAIN Concatenated(ss) = 1 .. Cardinality(Entries(ss))
           /\ \E at : ComesFrom(ss, at)
<1> DEFINE S == Entries(ss)
           all == Concatenated(ss)
           order == {pq \in S \X S : pq[1] = pq[2] \/ Before(pq[1], pq[2])}
           N == Cardinality(S)
           rank(q) == Cardinality({p \in S : p = q \/ Before(p, q)})
           at == [n \in 1 .. N |-> CHOOSE q \in S : rank(q) = n]
<1>1. /\ IsFiniteSet(S)
      /\ \A p \in S : ss[p[1]][p[2]] \in T
      /\ \A p \in S : p[1] \in Int /\ p[2] \in Int /\ p = <<p[1], p[2]>>
  <2>1. \A p \in S : p[1] \in D /\ p[2] \in 1 .. Len(ss[p[1]]) /\ p = <<p[1], p[2]>>
    BY EntriesFacts
  <2>2. IsFiniteSet(S) /\ \A p \in S : ss[p[1]][p[2]] \in T
    BY EntriesFacts
  <2> QED BY <2>1, <2>2
<1>2. all = [n \in 1 .. N |-> ss[at[n][1]][at[n][2]]]
  BY DEF Concatenated
<1> HIDE DEF S
<1>3. IsOrder(S, order)
  <2>1. \A p, q \in S : <<p, q>> \in order <=> p = q \/ Before(p, q)
    OBVIOUS
  <2> HIDE DEF order
  <2>2. \A p, q \in S : p = q \/ Before(p, q) \/ Before(q, p)
    BY <1>1 DEF Before
  <2>3. \A p, q \in S : ~(Before(p, q) /\ Before(q, p))
    BY <1>1 DEF Before
  <2>4. \A p, q, r \in S : Before(p, q) /\ Before(q, r) => Before(p, r)
    BY <1>1 DEF Before
  <2> QED BY <2>1, <2>2, <2>3, <2>4 DEF IsOrder
<1>4. ASSUME NEW q \in S PROVE Place(q, S, order) = rank(q)
  <2>1. {p \in S : <<p, q>> \in order} = {p \in S : p = q \/ Before(p, q)}
    OBVIOUS
  <2> HIDE DEF order
  <2> QED BY <2>1 DEF Place
<1> HIDE DEF order, rank
<1>5. /\ N \in Nat
      /\ \A q \in S : rank(q) \in 1 .. N
      /\ \A n \in 1 .. N : \E q \in S : rank(q) = n
      /\ \A p, q \in S : rank(p) = rank(q) => p = q
  <2>1. N \in Nat /\ \A q \in S : Place(q, S, order) \in 1 .. N
    BY <1>1, <1>3, OnePlaceEach
  <2>2. \A n \in 1 .. N : \E q \in S : Place(q, S, order) = n
    <3> TAKE n \in 1 .. N
    <3>1. n \in 1 .. Cardinality(S)
      OBVIOUS
    <3> HIDE DEF N
    <3> QED BY <1>1, <1>3, <3>1, EveryPlaceIsTaken
  <2>3. \A p, q \in S : Place(p, S, order) = Place(q, S, order) => p = q
    BY <1>1, <1>3, OnePlaceEach
  <2> HIDE DEF N
  <2> QED BY <1>4, <2>1, <2>2, <2>3
<1> HIDE DEF N
<1>6. \A n \in 1 .. N : at[n] \in S /\ rank(at[n]) = n
  BY <1>5
<1>7. DOMAIN at = 1 .. N /\ at \in [1 .. N -> S]
  BY <1>6
<1> HIDE DEF at, all
<1>8. at \in Bijection(1 .. N, S)
  <2>1. \A i, j \in 1 .. N : at[i] = at[j] => i = j
    BY <1>6
  <2>2. \A q \in S : \E n \in 1 .. N : at[n] = q
    BY <1>5, <1>6
  <2> QED BY <1>7, <2>1, <2>2 DEF Bijection, Injection, Surjection, IsInjective
<1>9. \A n \in 1 .. N : all[n] = ss[at[n][1]][at[n][2]] /\ all[n] \in T
  BY <1>1, <1>2, <1>6
<1>10. DOMAIN all = 1 .. N /\ all \in [1 .. N -> T]
  BY <1>2, <1>9
<1>11. all \in Seq(T)
  BY <1>5, <1>10, SeqDef
<1>12. QED
  <2>1. ComesFrom(ss, at)
    BY <1>8, <1>9 DEF S, all, N, ComesFrom
  <2> QED BY <1>5, <1>10, <1>11, <2>1 DEF S, all, N

-----------------------------------------------------------------------------
(* mu[T] is the sum over T, whichever element is taken off first.           *)
Additive(mu, f, S) ==
    /\ mu \in [SUBSET S -> Int]
    /\ mu[{}] = 0
    /\ \A T \in SUBSET S : \A x \in T : mu[T] = f[x] + mu[T \ {x}]

(* There are sums over the subsets of a finite set.                         *)
LEMMA AdditiveExists ==
    ASSUME NEW S, IsFiniteSet(S), NEW f, \A x \in S : f[x] \in Int
    PROVE  \E mu : Additive(mu, f, S)
<1> DEFINE P == {n \in Nat : \A U \in SUBSET S : Cardinality(U) = n => \E mu : Additive(mu, f, U)}
<1>1. \A U \in SUBSET S : IsFiniteSet(U) /\ Cardinality(U) \in Nat
  BY FS_Subset, FS_CardinalityType
<1>2. 0 \in P
  <2> SUFFICES ASSUME NEW U \in SUBSET S, Cardinality(U) = 0 PROVE \E mu : Additive(mu, f, U)
    OBVIOUS
  <2>1. U = {}
    BY <1>1, FS_EmptySet
  <2>2. Additive([T \in SUBSET U |-> 0], f, U)
    BY <2>1 DEF Additive
  <2> QED BY <2>2
<1>3. ASSUME NEW n \in Nat, n \in P PROVE n + 1 \in P
  <2> SUFFICES ASSUME NEW U \in SUBSET S, Cardinality(U) = n + 1 PROVE \E mu : Additive(mu, f, U)
    OBVIOUS
  <2>1. U # {}
    BY FS_EmptySet
  <2>2. PICK x \in U : TRUE
    BY <2>1
  <2> DEFINE V == U \ {x}
  <2>3. V \in SUBSET S /\ V \subseteq U /\ x \notin V
    OBVIOUS
  <2>4. Cardinality(V) = n
    <3>1. IsFiniteSet(U) /\ x \in U
      BY <1>1, <2>2
    <3>2. Cardinality(U \ {x}) = Cardinality(U) - 1
      BY <3>1, FS_RemoveElement
    <3> QED BY <3>2
  <2>5. PICK mu : Additive(mu, f, V)
    BY <1>3, <2>3, <2>4
  <2> DEFINE part(T) == IF x \in T THEN f[x] ELSE 0
             nu == [T \in SUBSET U |-> mu[T \ {x}] + part(T)]
  <2>6. \A T \in SUBSET U : T \ {x} \in SUBSET V /\ mu[T \ {x}] \in Int /\ part(T) \in Int
    <3>1. \A T \in SUBSET U : T \ {x} \in SUBSET V
      OBVIOUS
    <3>2. f[x] \in Int /\ mu \in [SUBSET V -> Int]
      BY <2>5 DEF Additive
    <3>3. \A T : part(T) \in Int
      BY <3>2
    <3> HIDE DEF part, V
    <3> QED BY <3>1, <3>2, <3>3
  <2>7. f[x] \in Int /\ \A y \in U : f[y] \in Int
    OBVIOUS
  <2>8. nu \in [SUBSET U -> Int] /\ \A T \in SUBSET U : nu[T] = mu[T \ {x}] + part(T)
    <3>1. \A T \in SUBSET U : mu[T \ {x}] + part(T) \in Int
      <4> TAKE T \in SUBSET U
      <4>1. mu[T \ {x}] \in Int
        BY <2>6
      <4>2. part(T) \in Int
        BY <2>6
      <4> HIDE DEF part
      <4> QED BY <4>1, <4>2
    <3> HIDE DEF part
    <3> QED BY <3>1
  <2>9. nu[{}] = 0
    <3>1. {} \in SUBSET U /\ {} \ {x} = {} /\ part({}) = 0
      OBVIOUS
    <3>2. mu[{}] = 0
      BY <2>5 DEF Additive
    <3> HIDE DEF nu, part
    <3> QED BY <2>8, <3>1, <3>2
  <2>10. ASSUME NEW T \in SUBSET U, NEW y \in T PROVE nu[T] = f[y] + nu[T \ {y}]
    <3>1. T \ {y} \in SUBSET U /\ y \in U
      OBVIOUS
    <3>2. /\ nu[T] = mu[T \ {x}] + part(T)
          /\ nu[T \ {y}] = mu[(T \ {y}) \ {x}] + part(T \ {y})
          /\ mu[T \ {x}] \in Int /\ mu[(T \ {y}) \ {x}] \in Int
          /\ part(T) \in Int /\ part(T \ {y}) \in Int /\ f[y] \in Int
      <4> HIDE DEF nu, part, V
      <4> QED BY <2>6, <2>7, <2>8, <3>1
    <3>3. CASE y = x
      <4>1. (T \ {y}) \ {x} = T \ {x} /\ part(T) = f[y] /\ part(T \ {y}) = 0
        BY <3>3
      <4> HIDE DEF nu, part
      <4> QED BY <3>2, <4>1
    <3>4. CASE y # x
      <4>1. (T \ {x}) \ {y} = (T \ {y}) \ {x} /\ y \in T \ {x} /\ T \ {x} \in SUBSET V
        BY <3>4
      <4>2. part(T) = part(T \ {y})
        BY <3>4
      <4>3. mu[T \ {x}] = f[y] + mu[(T \ {y}) \ {x}]
        <5>1. mu[T \ {x}] = f[y] + mu[(T \ {x}) \ {y}]
          <6> HIDE DEF V
          <6> QED BY <2>5, <4>1 DEF Additive
        <5> QED BY <4>1, <5>1
      <4> HIDE DEF nu, part
      <4> QED BY <3>2, <4>2, <4>3
    <3> QED BY <3>3, <3>4
  <2>11. Additive(nu, f, U)
    <3> HIDE DEF nu
    <3> QED BY <2>8, <2>9, <2>10 DEF Additive
  <2> QED BY <2>11
<1>4. Nat \subseteq P
  <2> HIDE DEF P
  <2> QED BY <1>2, <1>3, SetInduction
<1>5. Cardinality(S) \in P /\ S \in SUBSET S
  BY <1>1, <1>4
<1>6. QED
  BY <1>5

(* The recursion of SumOver defines such a sum.                             *)
LEMMA SumOverFacts ==
    ASSUME NEW S, IsFiniteSet(S), NEW f, \A x \in S : f[x] \in Int
    PROVE  \E mu : Additive(mu, f, S) /\ SumOver(f, S) = mu[S]
<1>1. PICK mu : Additive(mu, f, S)
  BY AdditiveExists
<1> DEFINE first(T) == CHOOSE x \in T : TRUE
           IsRec(sum) == sum = [T \in SUBSET S |->
                                  IF T = {} THEN 0 ELSE f[first(T)] + sum[T \ {first(T)}]]
<1>2. IsRec(mu)
  <2>1. mu \in [SUBSET S -> Int]
    BY <1>1 DEF Additive
  <2>2. \A T \in SUBSET S : mu[T] = IF T = {} THEN 0 ELSE f[first(T)] + mu[T \ {first(T)}]
    <3> TAKE T \in SUBSET S
    <3>1. T # {} => first(T) \in T
      OBVIOUS
    <3> HIDE DEF first
    <3> QED BY <1>1, <3>1 DEF Additive
  <2> HIDE DEF first
  <2> QED BY <2>1, <2>2
<1>3. SumOver(f, S) = (CHOOSE sum : IsRec(sum))[S]
  BY DEF SumOver
<1>4. IsRec(CHOOSE sum : IsRec(sum))
  <2> HIDE DEF IsRec
  <2> QED BY <1>2
<1>5. ASSUME NEW sum, IsRec(sum) PROVE sum[S] = mu[S]
  <2> DEFINE P == {n \in Nat : \A T \in SUBSET S : Cardinality(T) = n => sum[T] = mu[T]}
  <2>1. \A T \in SUBSET S : IsFiniteSet(T) /\ Cardinality(T) \in Nat
    BY FS_Subset, FS_CardinalityType
  <2>2. \A T \in SUBSET S : sum[T] = IF T = {} THEN 0 ELSE f[first(T)] + sum[T \ {first(T)}]
    <3> HIDE DEF first
    <3> QED BY <1>5
  <2> HIDE DEF IsRec
  <2>3. 0 \in P
    <3> SUFFICES ASSUME NEW T \in SUBSET S, Cardinality(T) = 0 PROVE sum[T] = mu[T]
      OBVIOUS
    <3>1. T = {}
      BY <2>1, FS_EmptySet
    <3> HIDE DEF first
    <3> QED BY <1>1, <2>2, <3>1 DEF Additive
  <2>4. ASSUME NEW n \in Nat, n \in P PROVE n + 1 \in P
    <3> SUFFICES ASSUME NEW T \in SUBSET S, Cardinality(T) = n + 1 PROVE sum[T] = mu[T]
      OBVIOUS
    <3>1. T # {}
      BY FS_EmptySet
    <3>2. first(T) \in T
      BY <3>1
    <3> HIDE DEF first
    <3>3. T \ {first(T)} \in SUBSET S /\ Cardinality(T \ {first(T)}) = n
      BY <2>1, <3>2, FS_RemoveElement
    <3>4. sum[T \ {first(T)}] = mu[T \ {first(T)}]
      BY <2>4, <3>3
    <3>5. mu[T] = f[first(T)] + mu[T \ {first(T)}]
      BY <1>1, <3>2 DEF Additive
    <3> QED BY <2>2, <3>1, <3>4, <3>5
  <2>5. Nat \subseteq P
    <3> HIDE DEF P
    <3> QED BY <2>3, <2>4, SetInduction
  <2> QED BY <2>1, <2>5
<1>6. QED
  <2> HIDE DEF IsRec
  <2> QED BY <1>1, <1>3, <1>4, <1>5

(* Whoever adds up the f[x] one after the other gets that sum.              *)
LEMMA SumInAnyOrder ==
    ASSUME NEW S, IsFiniteSet(S), NEW f, \A x \in S : f[x] \in Int,
           NEW N \in Nat, NEW h \in Bijection(1 .. N, S),
           NEW sum, sum[0] = 0, \A n \in 1 .. N : sum[n] = sum[n - 1] + f[h[n]]
    PROVE  sum[N] = SumOver(f, S)
<1>1. PICK mu : Additive(mu, f, S) /\ SumOver(f, S) = mu[S]
  BY SumOverFacts
<1> DEFINE Upto(n) == {h[i] : i \in 1 .. n}
           P == {n \in Nat : n <= N => sum[n] = mu[Upto(n)]}
<1>2. /\ h \in [1 .. N -> S]
      /\ \A i, j \in 1 .. N : h[i] = h[j] => i = j
      /\ \A x \in S : \E i \in 1 .. N : h[i] = x
  BY DEF Bijection, Injection, Surjection, IsInjective
<1>3. 0 \in P
  <2>1. Upto(0) = {}
    OBVIOUS
  <2> HIDE DEF Upto
  <2> QED BY <1>1, <2>1 DEF Additive
<1>4. ASSUME NEW n \in Nat, n \in P PROVE n + 1 \in P
  <2> SUFFICES ASSUME n + 1 <= N PROVE sum[n + 1] = mu[Upto(n + 1)]
    OBVIOUS
  <2>1. sum[n] = mu[Upto(n)]
    BY <1>4
  <2>2. n + 1 \in 1 .. N /\ (n + 1) - 1 = n
    OBVIOUS
  <2>3. sum[n + 1] = sum[n] + f[h[n + 1]]
    BY <2>2
  <2>4. Upto(n + 1) \in SUBSET S /\ h[n + 1] \in Upto(n + 1)
    BY <1>2
  <2>5. Upto(n + 1) \ {h[n + 1]} = Upto(n)
    <3>1. \A i \in 1 .. n : i \in 1 .. N /\ i # n + 1
      OBVIOUS
    <3>2. \A i \in 1 .. n : h[i] # h[n + 1]
      BY <1>2, <2>2, <3>1
    <3>3. 1 .. n + 1 = (1 .. n) \cup {n + 1}
      OBVIOUS
    <3> QED BY <3>2, <3>3
  <2> HIDE DEF Upto
  <2>6. mu[Upto(n + 1)] = f[h[n + 1]] + mu[Upto(n)]
    <3>1. mu[Upto(n + 1)] = f[h[n + 1]] + mu[Upto(n + 1) \ {h[n + 1]}]
      BY <1>1, <2>4 DEF Additive
    <3> QED BY <2>5, <3>1
  <2>7. f[h[n + 1]] \in Int
    BY <1>2, <2>2
  <2>8. mu[Upto(n)] \in Int
    <3>1. Upto(n) \in SUBSET S
      BY <2>4, <2>5
    <3> QED BY <1>1, <3>1 DEF Additive
  <2> QED BY <2>1, <2>3, <2>6, <2>7, <2>8
<1>5. Nat \subseteq P
  <2> HIDE DEF P
  <2> QED BY <1>3, <1>4, SetInduction
<1>6. Upto(N) = S
  BY <1>2
<1>7. sum[N] = mu[Upto(N)]
  <2> HIDE DEF Upto
  <2> QED BY <1>5
<1>8. QED
  BY <1>1, <1>6, <1>7

-----------------------------------------------------------------------------
(* What erasing one element of a vector leaves. *)
LEMMA RemoveAtProperties ==
    ASSUME NEW S, NEW s \in Seq(S), NEW i \in 1 .. Len(s)
    PROVE  /\ RemoveAt(s, i) \in Seq(S)
           /\ Len(RemoveAt(s, i)) = Len(s) - 1
           /\ \A n \in 1 .. i - 1 : RemoveAt(s, i)[n] = s[n]
           /\ \A n \in i .. Len(s) - 1 : RemoveAt(s, i)[n] = s[n + 1]
<1> DEFINE a == SubSeq(s, 1, i - 1)
           b == SubSeq(s, i + 1, Len(s))
<1>0. Len(s) \in Nat /\ i \in Nat
  BY LenProperties
<1>1. a \in Seq(S) /\ Len(a) = i - 1 /\ \A n \in 1 .. i - 1 : a[n] = s[n]
  <2>1. \A n \in 1 .. i - 1 : n \in 1 .. Len(s)
    BY <1>0
  <2>2. \A n \in 1 .. i - 1 : s[n] \in S
    BY <2>1, ElementOfSeq
  <2>3. CASE i = 1
    BY <1>0, <2>3, <2>2, SubSeqProperties
  <2>4. CASE i > 1
    BY <1>0, <2>4, <2>2, SubSeqProperties
  <2> QED BY <2>3, <2>4
<1>2. b \in Seq(S) /\ Len(b) = Len(s) - i /\ \A n \in 1 .. Len(s) - i : b[n] = s[n + i]
  <2>2. \A n \in i + 1 .. Len(s) : n \in 1 .. Len(s)
    BY <1>0
  <2>3. CASE i = Len(s)
    BY <1>0, <2>3, <2>2, SubSeqProperties
  <2>4. CASE i < Len(s)
    BY <1>0, <2>4, <2>2, SubSeqProperties
  <2> QED BY <2>3, <2>4
<1>3. RemoveAt(s, i) = a \o b
  BY DEF RemoveAt
<1> HIDE DEF a, b
<1>4. /\ a \o b \in Seq(S)
      /\ Len(a \o b) = Len(a) + Len(b)
      /\ \A n \in 1 .. Len(a) + Len(b) :
            (a \o b)[n] = IF n <= Len(a) THEN a[n] ELSE b[n - Len(a)]
  BY <1>1, <1>2, ConcatProperties
<1>5. Len(a) + Len(b) = Len(s) - 1
  BY <1>0, <1>1, <1>2
<1>6. ASSUME NEW n \in 1 .. i - 1 PROVE (a \o b)[n] = s[n]
  BY <1>0, <1>1, <1>4, <1>5
<1>7. ASSUME NEW n \in i .. Len(s) - 1 PROVE (a \o b)[n] = s[n + 1]
  <2>1. n \in 1 .. Len(a) + Len(b) /\ ~(n <= Len(a))
    BY <1>0, <1>1, <1>5
  <2>2. n - Len(a) \in 1 .. Len(s) - i /\ (n - Len(a)) + i = n + 1
    BY <1>0, <1>1
  <2> QED BY <1>2, <1>4, <2>1, <2>2
<1>8. QED
  BY <1>3, <1>4, <1>5, <1>6, <1>7

(* f takes the places of RemoveAt(s, i) one-to-one to the places of s that  *)
(* are left when i is erased.                                               *)
IsErasure(f, s, i) ==
    /\ f \in [1 .. Len(s) - 1 -> (1 .. Len(s)) \ {i}]
    /\ \A n \in 1 .. Len(s) - 1 : RemoveAt(s, i)[n] = s[f[n]]
    /\ \A m, n \in 1 .. Len(s) - 1 : f[m] = f[n] => m = n
    /\ \A m \in (1 .. Len(s)) \ {i} : \E n \in 1 .. Len(s) - 1 : f[n] = m

(* Erasing one element is an injection into the places of the others. *)
LEMMA RemoveAtOrigin ==
    ASSUME NEW S, NEW s \in Seq(S), NEW i \in 1 .. Len(s)
    PROVE  \E f : IsErasure(f, s, i)
<1> DEFINE f == [n \in 1 .. Len(s) - 1 |-> IF n < i THEN n ELSE n + 1]
<1>0. Len(s) \in Nat /\ i \in Nat
  BY LenProperties
<1>1. f \in [1 .. Len(s) - 1 -> (1 .. Len(s)) \ {i}]
  BY <1>0
<1>2. ASSUME NEW n \in 1 .. Len(s) - 1 PROVE RemoveAt(s, i)[n] = s[f[n]]
  <2>1. CASE n < i
    BY <1>0, <2>1, RemoveAtProperties
  <2>2. CASE ~(n < i)
    <3>1. n \in i .. Len(s) - 1 /\ f[n] = n + 1
      BY <1>0, <2>2
    <3> HIDE DEF f
    <3> QED BY <3>1, RemoveAtProperties
  <2> QED BY <2>1, <2>2
<1>3. \A m, n \in 1 .. Len(s) - 1 : f[m] = f[n] => m = n
  BY <1>0
<1>4. ASSUME NEW m \in (1 .. Len(s)) \ {i}
      PROVE  \E n \in 1 .. Len(s) - 1 : f[n] = m
  <2>1. CASE m < i
    <3>1. m \in 1 .. Len(s) - 1 /\ f[m] = m
      BY <1>0, <2>1
    <3> QED BY <3>1
  <2>2. CASE m > i
    <3>1. m - 1 \in 1 .. Len(s) - 1 /\ f[m - 1] = m
      BY <1>0, <2>2
    <3> QED BY <3>1
  <2> QED BY <1>0, <2>1, <2>2
<1>5. IsErasure(f, s, i)
  BY <1>1, <1>2, <1>3, <1>4 DEF IsErasure
<1> QED BY <1>5
=============================================================================
