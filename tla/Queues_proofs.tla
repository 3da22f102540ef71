----------------------------- MODULE Queues_proofs -----------------------------
EXTENDS Queues, FiniteSetTheorems, WellFoundedInduction, Integers, TLAPS

(* Every nonempty set of naturals has a least element.                     *)
LEMMA LeastNatural ==
  ASSUME NEW S, S \subseteq Nat, S # {}
  PROVE  \E n \in S : \A m \in S : n <= m
<1> DEFINE Below == OpToRel(<, Nat)
<1>1. IsWellFoundedOn(Below, Nat)
  BY NatLessThanWellFounded
<1>2. \A x, y \in Nat : x < y => <<x, y>> \in Below
  BY Zenon DEF OpToRel
<1> HIDE DEF Below
<1>3. PICK n \in S : \A m \in S : ~(<<m, n>> \in Below)
  BY <1>1, WFMin, Zenon
<1>4. \A m \in S : ~(m < n)
  BY <1>2, <1>3
<1> QED
  BY <1>3, <1>4

(* The rank of a position grows by one at each position that is kept.      *)
LEMMA PlacesGrow ==
  ASSUME NEW n \in Nat, NEW P, P \subseteq 1..n
  PROVE  /\ IsFiniteSet(P) /\ Cardinality(P) \in Nat
         /\ \A i \in Nat : Place(P, i) \in Nat /\ Place(P, i) <= Cardinality(P)
         /\ Place(P, 0) = 0
         /\ \A i \in Nat : i + 1 \in P => Place(P, i + 1) = Place(P, i) + 1
         /\ \A i \in Nat : i + 1 \notin P => Place(P, i + 1) = Place(P, i)
         /\ \A i \in Nat : i >= n => Place(P, i) = Cardinality(P)
<1>a. \A k \in P : k \in Nat /\ 1 <= k /\ k <= n
  OBVIOUS
<1>1. IsFiniteSet(P) /\ Cardinality(P) \in Nat
  <2>1. IsFiniteSet(1..n)
    BY FS_Interval
  <2>2. IsFiniteSet(P)
    BY <2>1, FS_Subset
  <2> QED BY <2>2, FS_CardinalityType
<1>2. \A i \in Nat : /\ IsFiniteSet({k \in P : k <= i})
                     /\ Place(P, i) \in Nat /\ Place(P, i) <= Cardinality(P)
  <2> TAKE i \in Nat
  <2> DEFINE I == {k \in P : k <= i}
  <2>1. I \in SUBSET P
    OBVIOUS
  <2>2. IsFiniteSet(I) /\ Cardinality(I) <= Cardinality(P)
    BY <1>1, <2>1, FS_Subset
  <2>3. Cardinality(I) \in Nat
    BY <2>2, FS_CardinalityType
  <2> QED BY <2>2, <2>3 DEF Place
<1>4. Place(P, 0) = 0
  <2>0. \A k \in P : ~(k <= 0)
    BY <1>a
  <2>1. {k \in P : k <= 0} = {}
    BY <2>0, Zenon
  <2> QED BY <2>1, FS_EmptySet DEF Place
<1>5. ASSUME NEW i \in Nat, i + 1 \in P
      PROVE  Place(P, i + 1) = Place(P, i) + 1
  <2> DEFINE I == {k \in P : k <= i}
  <2>1. {k \in P : k <= i + 1} = I \union {i + 1}
    <3>1. \A k \in P : k <= i + 1 <=> k <= i \/ k = i + 1
      BY <1>a
    <3> QED BY <1>5, <3>1, Zenon
  <2>2. i + 1 \notin I
    OBVIOUS
  <2>3. IsFiniteSet(I)
    BY <1>2
  <2>4. Cardinality(I \union {i + 1}) = Cardinality(I) + 1
    <3> HIDE DEF I
    <3> QED BY <2>2, <2>3, FS_AddElement
  <2> QED
    BY <2>1, <2>4 DEF Place
<1>6. ASSUME NEW i \in Nat, i + 1 \notin P
      PROVE  Place(P, i + 1) = Place(P, i)
  <2>1. {k \in P : k <= i + 1} = {k \in P : k <= i}
    <3>1. \A k \in P : k <= i + 1 <=> k <= i
      BY <1>6, <1>a
    <3> QED BY <3>1, Zenon
  <2> QED
    BY <2>1 DEF Place
<1>7. ASSUME NEW i \in Nat, i >= n
      PROVE  Place(P, i) = Cardinality(P)
  <2>1. {k \in P : k <= i} = P
    <3>1. \A k \in P : k <= i
      BY <1>7, <1>a
    <3> QED BY <3>1, Zenon
  <2> QED
    BY <2>1 DEF Place
<1> QED
  BY <1>1, <1>2, <1>4, <1>5, <1>6, <1>7

(* Ranks grow strictly up to a position that is kept.                      *)
LEMMA PlacesOrder ==
  ASSUME NEW n \in Nat, NEW P, P \subseteq 1..n, NEW i \in Nat, NEW j \in P, i < j
  PROVE  Place(P, i) < Place(P, j)
<1> DEFINE I == {k \in P : k <= i}
           J == {k \in P : k <= j}
<1>a. \A k \in P : k \in Nat
  OBVIOUS
<1>b. IsFiniteSet(P)
  BY PlacesGrow
<1>1. J \in SUBSET P /\ I \in SUBSET J /\ j \in J /\ j \notin I
  <2>1. \A k \in P : k <= i => k <= j
    BY <1>a
  <2>2. j <= j /\ ~(j <= i)
    BY <1>a
  <2> QED BY <2>1, <2>2, Zenon
<1>2. IsFiniteSet(J)
  BY <1>b, <1>1, FS_Subset
<1>3. IsFiniteSet(I)
  BY <1>1, <1>2, FS_Subset
<1>4. Cardinality(I) <= Cardinality(J) /\ (Cardinality(J) = Cardinality(I) => J = I)
  BY <1>1, <1>2, FS_Subset
<1>5. Cardinality(I) \in Nat /\ Cardinality(J) \in Nat
  BY <1>2, <1>3, FS_CardinalityType
<1>6. Cardinality(I) < Cardinality(J)
  <2> HIDE DEF I, J
  <2> QED BY <1>1, <1>4, <1>5
<1> QED
  BY <1>6 DEF Place

(* There is exactly one j-th position.                                     *)
LEMMA NthExists ==
  ASSUME NEW n \in Nat, NEW P, P \subseteq 1..n, NEW j \in 1..Cardinality(P)
  PROVE  Nth(P, j) \in P /\ Place(P, Nth(P, j)) = j
<1> DEFINE A == {i \in Nat : Place(P, i) >= j}
<1>1. Cardinality(P) \in Nat
  BY PlacesGrow
<1>0. j \in Nat /\ j >= 1 /\ j <= Cardinality(P)
  BY <1>1
<1>2. n \in A
  <2>1. n >= n
    OBVIOUS
  <2>2. Place(P, n) = Cardinality(P)
    BY <2>1, PlacesGrow
  <2> QED BY <1>0, <1>1, <2>2
<1>3. PICK i \in A : \A m \in A : i <= m
  <2>1. A \subseteq Nat /\ A # {}
    BY <1>2
  <2> HIDE DEF A
  <2> QED BY <2>1, LeastNatural
<1>3a. i \in Nat /\ Place(P, i) >= j /\ Place(P, i) \in Nat
  BY <1>3, PlacesGrow
<1>4. i # 0
  <2>1. Place(P, 0) = 0
    BY PlacesGrow
  <2> QED BY <1>0, <1>3a, <2>1
<1> DEFINE h == i - 1
<1>5. h \in Nat /\ h + 1 = i /\ h \notin A
  BY <1>3, <1>3a, <1>4
<1>6. Place(P, h) < j /\ Place(P, h) \in Nat
  <2>1. Place(P, h) \in Nat
    BY <1>5, PlacesGrow
  <2> QED BY <1>0, <1>5, <2>1
<1>7. /\ h + 1 \in P => Place(P, h + 1) = Place(P, h) + 1
      /\ h + 1 \notin P => Place(P, h + 1) = Place(P, h)
  BY <1>5, PlacesGrow
<1>9. i \in P /\ Place(P, i) = j
  <2> HIDE DEF A, h
  <2> QED
    BY <1>0, <1>3a, <1>5, <1>6, <1>7
<1> QED
  BY <1>9 DEF Nth

(* What is kept: the entries at the positions, all of them, in order.      *)
LEMMA KeptInOrder ==
  ASSUME NEW T, NEW queue \in Seq(T), NEW P, P \subseteq DOMAIN queue
  PROVE  /\ Kept(queue, P) \in Seq(T)
         /\ Len(Kept(queue, P)) = Cardinality(P) /\ Cardinality(P) \in Nat
         /\ \A j \in 1..Cardinality(P) :
              Nth(P, j) \in P /\ Kept(queue, P)[j] = queue[Nth(P, j)]
         /\ \A j, k \in 1..Cardinality(P) : j < k => Nth(P, j) < Nth(P, k)
         /\ \A i \in P : \E j \in 1..Cardinality(P) : i = Nth(P, j)
<1> DEFINE n == Len(queue)
<1>a. n \in Nat /\ DOMAIN queue = 1..n
  OBVIOUS
<1>b. P \subseteq 1..n /\ \A k \in P : k \in Nat
  BY <1>a
<1>c. \A i \in 1..n : queue[i] \in T
  OBVIOUS
<1> HIDE DEF n
<1>d. Cardinality(P) \in Nat
  BY <1>a, <1>b, PlacesGrow
<1>1. \A j \in 1..Cardinality(P) : Nth(P, j) \in P /\ Place(P, Nth(P, j)) = j
  BY <1>a, <1>b, NthExists
<1>3. Kept(queue, P) \in [1..Cardinality(P) -> T]
  BY <1>1, <1>b, <1>c DEF Kept
<1>3a. Kept(queue, P) \in Seq(T) /\ Len(Kept(queue, P)) = Cardinality(P)
  BY <1>3, <1>d
<1>4. ASSUME NEW j \in 1..Cardinality(P), NEW k \in 1..Cardinality(P), j < k
      PROVE  Nth(P, j) < Nth(P, k)
  <2>1. Nth(P, j) \in Nat /\ Nth(P, k) \in Nat /\ Nth(P, j) \in P /\ Nth(P, k) \in P
        /\ Place(P, Nth(P, j)) = j /\ Place(P, Nth(P, k)) = k
    BY <1>b, <1>1
  <2>2. Nth(P, k) < Nth(P, j) => Place(P, Nth(P, k)) < Place(P, Nth(P, j))
    BY <1>a, <1>b, <2>1, PlacesOrder
  <2>3. j \in Nat /\ k \in Nat
    BY <1>d
  <2> QED
    BY <1>4, <2>1, <2>2, <2>3
<1>5. ASSUME NEW i \in P
      PROVE  \E j \in 1..Cardinality(P) : i = Nth(P, j)
  <2>1. i \in Nat /\ i > 0
    BY <1>a, <1>b
  <2> DEFINE r == Place(P, i)
  <2>2. r \in Nat /\ r <= Cardinality(P) /\ Place(P, 0) = 0
    BY <1>a, <1>b, <2>1, PlacesGrow
  <2>3. Place(P, 0) < r
    BY <1>a, <1>b, <2>1, PlacesOrder
  <2>4. r \in 1..Cardinality(P)
    BY <1>d, <2>2, <2>3
  <2>5. Nth(P, r) \in P /\ Place(P, Nth(P, r)) = r
    BY <1>1, <2>4
  <2>6. Nth(P, r) \in Nat
    BY <1>b, <2>5
  <2>7. /\ Nth(P, r) < i => Place(P, Nth(P, r)) < Place(P, i)
        /\ i < Nth(P, r) => Place(P, i) < Place(P, Nth(P, r))
    BY <1>a, <1>b, <2>1, <2>5, <2>6, PlacesOrder
  <2>8. i = Nth(P, r)
    <3>1. ~(r < r)
      BY <2>2
    <3> QED BY <2>1, <2>5, <2>6, <2>7, <3>1
  <2> QED
    BY <2>4, <2>8
<1> QED
  BY <1>d, <1>1, <1>3a, <1>4, <1>5 DEF Kept


-----------------------------------------------------------------------------
(* Queues without repetitions: joining at the end, the first one leaving,  *)
(* and some leaving from anywhere.                                         *)
LEMMA Joining ==
  ASSUME NEW T, NEW queue \in Seq(T), NEW x \in T
  PROVE  LET longer == Append(queue, x) IN
         /\ longer \in Seq(T) /\ longer # <<>> /\ Len(longer) = Len(queue) + 1
         /\ \A i \in DOMAIN longer :
              \/ i \in DOMAIN queue /\ longer[i] = queue[i]
              \/ i = Len(queue) + 1 /\ i \notin DOMAIN queue /\ longer[i] = x
         /\ \A i \in DOMAIN queue : i \in DOMAIN longer /\ longer[i] = queue[i]
         /\ longer[Len(queue) + 1] = x /\ Len(queue) + 1 \in DOMAIN longer
         /\ queue # <<>> => Head(longer) = Head(queue)
<1> DEFINE longer == Append(queue, x)
<1>1. /\ longer \in Seq(T) /\ Len(longer) = Len(queue) + 1 /\ Len(queue) \in Nat
      /\ DOMAIN longer = 1..(Len(queue) + 1) /\ DOMAIN queue = 1..Len(queue)
  OBVIOUS
<1>2. \A i \in DOMAIN queue : i \in DOMAIN longer /\ longer[i] = queue[i]
  OBVIOUS
<1>3. longer[Len(queue) + 1] = x
  OBVIOUS
<1>4. longer # <<>> /\ Head(longer) = longer[1]
  <2> HIDE DEF longer
  <2> QED BY <1>1
<1>5. queue # <<>> => Head(queue) = queue[1] /\ 1 \in DOMAIN queue
  OBVIOUS
<1> QED
  <2> HIDE DEF longer
  <2> QED BY <1>1, <1>2, <1>3, <1>4, <1>5 DEF longer

LEMMA JoiningInjective ==
  ASSUME NEW T, NEW queue \in Seq(T), NEW x \in T, IsInjective(queue),
         \A i \in DOMAIN queue : queue[i] # x
  PROVE  IsInjective(Append(queue, x))
BY Joining DEF IsInjective

LEMMA Leading ==
  ASSUME NEW T, NEW queue \in Seq(T), queue # <<>>
  PROVE  /\ Tail(queue) \in Seq(T) /\ Head(queue) = queue[1] /\ 1 \in DOMAIN queue
         /\ Len(queue) = Len(Tail(queue)) + 1
         /\ \A i \in DOMAIN Tail(queue) :
              i \in Nat /\ i > 0 /\ i + 1 \in DOMAIN queue /\ Tail(queue)[i] = queue[i + 1]
         /\ \A i \in DOMAIN queue :
              i = 1 \/ (i - 1 \in DOMAIN Tail(queue) /\ Tail(queue)[i - 1] = queue[i])
OBVIOUS

LEMMA LeadingInjective ==
  ASSUME NEW T, NEW queue \in Seq(T), queue # <<>>, IsInjective(queue)
  PROVE  /\ IsInjective(Tail(queue))
         /\ \A i \in DOMAIN Tail(queue) : Tail(queue)[i] # Head(queue)
<1>1. \A i \in DOMAIN Tail(queue) : Tail(queue)[i] = queue[i + 1] /\ i + 1 \in DOMAIN queue
                                    /\ i \in Nat /\ i > 0
  BY Leading
<1>2. Head(queue) = queue[1] /\ 1 \in DOMAIN queue
  BY Leading
<1> QED
  BY <1>1, <1>2 DEF IsInjective

(* Whoever is kept keeps the order, the first one its place.               *)
LEMMA Leaving ==
  ASSUME NEW T, NEW queue \in Seq(T), NEW P, P \subseteq DOMAIN queue
  PROVE  LET rest == Kept(queue, P) IN
         /\ rest \in Seq(T)
         /\ \A j \in DOMAIN rest : Nth(P, j) \in P /\ rest[j] = queue[Nth(P, j)]
         /\ \A j, k \in DOMAIN rest : j < k => Nth(P, j) < Nth(P, k)
         /\ \A i \in P : \E j \in DOMAIN rest : i = Nth(P, j)
         /\ 1 \in P => rest # <<>> /\ Head(rest) = Head(queue)
         /\ IsInjective(queue) => IsInjective(rest)
<1> DEFINE rest == Kept(queue, P)
<1>1. /\ rest \in Seq(T) /\ DOMAIN rest = 1..Cardinality(P) /\ Cardinality(P) \in Nat
      /\ \A j \in DOMAIN rest : Nth(P, j) \in P /\ rest[j] = queue[Nth(P, j)]
      /\ \A j, k \in DOMAIN rest : j < k => Nth(P, j) < Nth(P, k)
      /\ \A i \in P : \E j \in DOMAIN rest : i = Nth(P, j)
  <2>1. /\ rest \in Seq(T) /\ Len(rest) = Cardinality(P)
    BY KeptInOrder
  <2>2. DOMAIN rest = 1..Len(rest)
    BY <2>1
  <2>3. Cardinality(P) \in Nat
    BY KeptInOrder
  <2>4. /\ \A j \in 1..Cardinality(P) : Nth(P, j) \in P /\ rest[j] = queue[Nth(P, j)]
        /\ \A j, k \in 1..Cardinality(P) : j < k => Nth(P, j) < Nth(P, k)
        /\ \A i \in P : \E j \in 1..Cardinality(P) : i = Nth(P, j)
    BY KeptInOrder
  <2> HIDE DEF rest
  <2> QED BY <2>1, <2>2, <2>3, <2>4
<1>2. \A j \in DOMAIN rest : Nth(P, j) \in Nat /\ Nth(P, j) > 0
  BY <1>1
<1>3. ASSUME 1 \in P
      PROVE  rest # <<>> /\ Head(rest) = Head(queue)
  <2>1. PICK j \in DOMAIN rest : 1 = Nth(P, j)
    BY <1>1, <1>3
  <2>2. j \in Nat /\ j >= 1 /\ 1 \in DOMAIN rest
    BY <1>1, <2>1
  <2>3. j = 1
    <3>1. 1 < j => Nth(P, 1) < Nth(P, j)
      BY <1>1, <2>1, <2>2
    <3>2. Nth(P, 1) \in Nat /\ Nth(P, 1) > 0
      BY <1>2, <2>2
    <3> QED BY <2>1, <2>2, <3>1, <3>2
  <2>4. rest[1] = queue[1]
    BY <1>1, <2>1, <2>2, <2>3
  <2>5. rest # <<>> /\ Head(rest) = rest[1]
    <3> HIDE DEF rest
    <3> QED BY <1>1, <2>2
  <2>6. Head(queue) = queue[1]
    BY <1>3
  <2> QED BY <2>4, <2>5, <2>6
<1>4. ASSUME IsInjective(queue)
      PROVE  IsInjective(rest)
  <2> SUFFICES ASSUME NEW j \in DOMAIN rest, NEW k \in DOMAIN rest, rest[j] = rest[k]
               PROVE  j = k
    BY DEF IsInjective
  <2>1. Nth(P, j) = Nth(P, k)
    BY <1>1, <1>4 DEF IsInjective
  <2>2. j \in Nat /\ k \in Nat
    BY <1>1
  <2>3. ~(j < k) /\ ~(k < j)
    <3>1. Nth(P, j) \in Nat
      BY <1>2
    <3> HIDE DEF rest
    <3> QED BY <1>1, <2>1, <3>1
  <2> QED BY <2>2, <2>3
<1> QED
  BY <1>1, <1>3, <1>4

LEMMA Excluded ==
  ASSUME NEW T, NEW queue \in Seq(T), NEW S
  PROVE  LET rest == Excluding(queue, S) IN
         /\ rest \in Seq(T)
         /\ \A j \in DOMAIN rest :
              rest[j] \notin S /\ \E i \in DOMAIN queue : rest[j] = queue[i]
         /\ \A i \in DOMAIN queue : queue[i] \notin S => \E j \in DOMAIN rest : rest[j] = queue[i]
         /\ IsInjective(queue) => IsInjective(rest)
<1> DEFINE P == {i \in DOMAIN queue : queue[i] \notin S}
<1>1. P \subseteq DOMAIN queue
  OBVIOUS
<1>2. /\ Kept(queue, P) \in Seq(T)
      /\ \A j \in DOMAIN Kept(queue, P) : Nth(P, j) \in P /\ Kept(queue, P)[j] = queue[Nth(P, j)]
      /\ \A i \in P : \E j \in DOMAIN Kept(queue, P) : i = Nth(P, j)
      /\ IsInjective(queue) => IsInjective(Kept(queue, P))
  <2> HIDE DEF P
  <2> QED BY <1>1, Leaving
<1>3. Excluding(queue, S) = Kept(queue, P)
  BY DEF Excluding
<1>4. \A i \in P : \E j \in DOMAIN Kept(queue, P) : Kept(queue, P)[j] = queue[i]
  BY <1>2
<1>5. \A j \in DOMAIN Kept(queue, P) :
        Kept(queue, P)[j] \notin S /\ \E i \in DOMAIN queue : Kept(queue, P)[j] = queue[i]
  BY <1>2
<1> HIDE DEF P
<1>6. \A i \in DOMAIN queue : queue[i] \notin S => i \in P
  BY DEF P
<1> QED
  BY <1>2, <1>3, <1>4, <1>5, <1>6

LEMMA OneExcluded ==
  ASSUME NEW T, NEW queue \in Seq(T), IsInjective(queue), NEW i \in DOMAIN queue
  PROVE  Len(Excluding(queue, {queue[i]})) = Len(queue) - 1
<1> DEFINE P == {k \in DOMAIN queue : queue[k] \notin {queue[i]}}
<1>1. P = (DOMAIN queue) \ {i}
  BY DEF IsInjective
<1> HIDE DEF P
<1>2. Len(queue) \in Nat /\ DOMAIN queue = 1..Len(queue)
  OBVIOUS
<1>3. IsFiniteSet(1..Len(queue)) /\ Cardinality(1..Len(queue)) = Len(queue)
  <2>1. IsFiniteSet(1..Len(queue))
        /\ Cardinality(1..Len(queue)) = IF 1 > Len(queue) THEN 0 ELSE Len(queue) - 1 + 1
    BY <1>2, FS_Interval
  <2> QED BY <1>2, <2>1
<1>4. Cardinality((1..Len(queue)) \ {i}) = Len(queue) - 1
  <2> DEFINE I == 1..Len(queue)
  <2>1. IsFiniteSet(I) /\ i \in I /\ Cardinality(I) = Len(queue)
    BY <1>2, <1>3
  <2> HIDE DEF I
  <2>2. Cardinality(I \ {i}) = Cardinality(I) - 1
    BY <2>1, FS_RemoveElement
  <2> QED BY <2>1, <2>2 DEF I
<1>5. Len(Kept(queue, P)) = Cardinality(P)
  <2>1. P \subseteq DOMAIN queue
    BY DEF P
  <2> QED BY <2>1, KeptInOrder
<1> QED
  BY <1>1, <1>2, <1>4, <1>5 DEF Excluding, P

LEMMA FirstKept ==
  ASSUME NEW T, NEW queue \in Seq(T), NEW P, P \subseteq DOMAIN queue, P # {}
  PROVE  Kept(queue, P) # <<>> /\ \E i \in P : Head(Kept(queue, P)) = queue[i]
<1> DEFINE rest == Kept(queue, P)
<1>1. /\ rest \in Seq(T)
      /\ \A j \in DOMAIN rest : Nth(P, j) \in P /\ rest[j] = queue[Nth(P, j)]
      /\ \A i \in P : \E j \in DOMAIN rest : i = Nth(P, j)
  BY Leaving
<1> HIDE DEF rest
<1>2. DOMAIN rest # {}
  BY <1>1
<1>3. rest # <<>> /\ 1 \in DOMAIN rest /\ Head(rest) = rest[1]
  BY <1>1, <1>2
<1>4. Nth(P, 1) \in P /\ Head(rest) = queue[Nth(P, 1)]
  BY <1>1, <1>3
<1> QED
  BY <1>3, <1>4 DEF rest

LEMMA RangeCount ==
  ASSUME NEW T, NEW queue \in Seq(T), IsInjective(queue)
  PROVE  IsFiniteSet(Range(queue)) /\ Cardinality(Range(queue)) = Len(queue)
<1>1. Len(queue) \in Nat /\ DOMAIN queue = 1..Len(queue)
  OBVIOUS
<1>2. queue \in [1..Len(queue) -> Range(queue)]
  BY <1>1 DEF Range
<1>3. \A x \in Range(queue) : \E i \in 1..Len(queue) : queue[i] = x
  BY <1>1 DEF Range
<1>4. queue \in Bijection(1..Len(queue), Range(queue))
  BY <1>1, <1>2, <1>3 DEF Bijection, Injection, Surjection, IsInjective
<1>5. ExistsBijection(1..Len(queue), Range(queue))
  BY <1>4 DEF ExistsBijection
<1>6. IsFiniteSet(1..Len(queue)) /\ Cardinality(1..Len(queue)) = Len(queue)
  BY <1>1, FS_Interval
<1> QED
  BY <1>5, <1>6, FS_Bijection

LEMMA NoneExcluded ==
  ASSUME NEW T, NEW queue \in Seq(T)
  PROVE  Len(Excluding(queue, {})) = Len(queue)
<1> DEFINE P == {k \in DOMAIN queue : queue[k] \notin {}}
           n == Len(queue)
<1>1. n \in Nat /\ P = 1..n /\ P \subseteq DOMAIN queue
  OBVIOUS
<1>2. Excluding(queue, {}) = Kept(queue, P)
  BY DEF Excluding
<1> HIDE DEF P, n
<1>3. Len(Kept(queue, P)) = Cardinality(P)
  BY <1>1, KeptInOrder
<1>4. Cardinality(1..n) = IF 1 > n THEN 0 ELSE n - 1 + 1
  BY <1>1, FS_Interval
<1> QED
  BY <1>1, <1>2, <1>3, <1>4 DEF n

-----------------------------------------------------------------------------
(* The last word: the last entry that is in S is in V too, or there is     *)
(* none in S and b holds.                                                  *)
NoneIn(queue, S) == \A i \in DOMAIN queue : queue[i] \notin S
LastWord(queue, S, V, b) ==
  \/ \E i \in DOMAIN queue :
       /\ queue[i] \in S /\ queue[i] \in V
       /\ \A j \in DOMAIN queue : j > i => queue[j] \notin S
  \/ NoneIn(queue, S) /\ b

LEMMA WordAgrees ==
  ASSUME NEW queue, NEW S, NEW V, NEW b, LastWord(queue, S, V, b), NEW S2, NEW V2, NEW b2,
         \A i \in DOMAIN queue : queue[i] \in S <=> queue[i] \in S2,
         \A i \in DOMAIN queue : queue[i] \in S /\ queue[i] \in V => queue[i] \in V2,
         NoneIn(queue, S) /\ b => b2
  PROVE  LastWord(queue, S2, V2, b2)
BY Zenon DEF LastWord, NoneIn

LEMMA WordJoins ==
  ASSUME NEW T, NEW queue \in Seq(T), NEW x \in T, NEW S, NEW V, NEW b,
         x \in S => x \in V, x \notin S => LastWord(queue, S, V, b)
  PROVE  LastWord(Append(queue, x), S, V, b)
<1> DEFINE longer == Append(queue, x)
<1>1. /\ \A i \in DOMAIN longer :
           \/ i \in DOMAIN queue /\ longer[i] = queue[i]
           \/ i = Len(queue) + 1 /\ i \notin DOMAIN queue /\ longer[i] = x
      /\ \A i \in DOMAIN queue : i \in DOMAIN longer /\ longer[i] = queue[i]
      /\ longer[Len(queue) + 1] = x /\ Len(queue) + 1 \in DOMAIN longer
  BY Joining
<1>2. Len(queue) \in Nat /\ DOMAIN longer = 1..(Len(queue) + 1)
  OBVIOUS
<1> HIDE DEF longer
<1>3. CASE x \in S
  BY <1>1, <1>2, <1>3 DEF LastWord
<1>4. CASE x \notin S
  <2>1. CASE NoneIn(queue, S) /\ b
    BY <1>1, <1>4, <2>1 DEF LastWord, NoneIn
  <2>2. ASSUME NEW i \in DOMAIN queue, queue[i] \in S /\ queue[i] \in V,
               \A j \in DOMAIN queue : j > i => queue[j] \notin S
        PROVE  LastWord(longer, S, V, b)
    <3>1. i \in DOMAIN longer /\ longer[i] \in S /\ longer[i] \in V
      BY <1>1, <2>2
    <3>2. \A j \in DOMAIN longer : j > i => longer[j] \notin S
      BY <1>1, <1>4, <2>2
    <3> QED BY <3>1, <3>2 DEF LastWord
  <2> QED BY <1>4, <2>1, <2>2 DEF LastWord
<1> QED BY <1>3, <1>4 DEF longer

LEMMA WordLeads ==
  ASSUME NEW T, NEW queue \in Seq(T), queue # <<>>, NEW S, NEW V, NEW b, NEW b2,
         LastWord(queue, S, V, b),
         Head(queue) \in S /\ Head(queue) \in V => b2,
         Head(queue) \notin S /\ b => b2
  PROVE  LastWord(Tail(queue), S, V, b2)
<1> DEFINE rest == Tail(queue)
<1>1. /\ Head(queue) = queue[1] /\ 1 \in DOMAIN queue
      /\ \A i \in DOMAIN rest :
           i \in Nat /\ i > 0 /\ i + 1 \in DOMAIN queue /\ rest[i] = queue[i + 1]
      /\ \A i \in DOMAIN queue : i = 1 \/ (i - 1 \in DOMAIN rest /\ rest[i - 1] = queue[i])
  BY Leading
<1>2. DOMAIN queue \subseteq Nat
  OBVIOUS
<1> HIDE DEF rest
<1>3. CASE NoneIn(queue, S) /\ b
  BY <1>1, <1>3 DEF LastWord, NoneIn
<1>4. ASSUME NEW i \in DOMAIN queue, queue[i] \in S /\ queue[i] \in V,
             \A j \in DOMAIN queue : j > i => queue[j] \notin S
      PROVE  LastWord(rest, S, V, b2)
  <2>1. CASE i = 1
    <3>1. NoneIn(rest, S)
      <4> SUFFICES ASSUME NEW j \in DOMAIN rest PROVE rest[j] \notin S
        BY DEF NoneIn
      <4>1. j + 1 \in DOMAIN queue /\ j + 1 > i /\ rest[j] = queue[j + 1]
        BY <1>1, <2>1
      <4> QED BY <4>1, <1>4
    <3> QED BY <1>1, <1>4, <2>1, <3>1 DEF LastWord
  <2>2. CASE i # 1
    <3>1. i - 1 \in DOMAIN rest /\ rest[i - 1] = queue[i]
      BY <1>1, <2>2
    <3>2. ASSUME NEW j \in DOMAIN rest, j > i - 1
          PROVE  rest[j] \notin S
      <4>1. j + 1 \in DOMAIN queue /\ j + 1 > i /\ rest[j] = queue[j + 1]
        BY <1>1, <1>2, <3>2
      <4> QED BY <4>1, <1>4
    <3> QED BY <1>4, <3>1, <3>2 DEF LastWord
  <2> QED BY <2>1, <2>2
<1> QED BY <1>3, <1>4 DEF LastWord, rest

(* The first entry stays, but is not in S any longer.                      *)
LEMMA WordSpoken ==
  ASSUME NEW T, NEW queue \in Seq(T), queue # <<>>, NEW S, NEW V, NEW b, NEW S2, NEW V2, NEW b2,
         LastWord(queue, S, V, b), Head(queue) \notin S2,
         \A i \in DOMAIN queue : i # 1 => (queue[i] \in S <=> queue[i] \in S2),
         \A i \in DOMAIN queue : i # 1 /\ queue[i] \in S /\ queue[i] \in V => queue[i] \in V2,
         Head(queue) \in S /\ Head(queue) \in V => b2,
         Head(queue) \notin S /\ b => b2
  PROVE  LastWord(queue, S2, V2, b2)
<1>1. Head(queue) = queue[1] /\ 1 \in DOMAIN queue
  BY Leading
<1>2. \A i \in DOMAIN queue : i \in Nat /\ (i # 1 => i > 1)
  OBVIOUS
<1>3. CASE NoneIn(queue, S) /\ b
  BY <1>1, <1>3 DEF LastWord, NoneIn
<1>4. ASSUME NEW i \in DOMAIN queue, queue[i] \in S /\ queue[i] \in V,
             \A j \in DOMAIN queue : j > i => queue[j] \notin S
      PROVE  LastWord(queue, S2, V2, b2)
  <2>1. CASE i = 1
    <3>1. NoneIn(queue, S2)
      BY <1>1, <1>2, <1>4, <2>1 DEF NoneIn
    <3> QED BY <1>1, <1>4, <2>1, <3>1 DEF LastWord
  <2>2. CASE i # 1
    <3>1. queue[i] \in S2 /\ queue[i] \in V2
      BY <1>4, <2>2
    <3>2. \A j \in DOMAIN queue : j > i => queue[j] \notin S2
      BY <1>2, <1>4, <2>2
    <3> QED BY <3>1, <3>2 DEF LastWord
  <2> QED BY <2>1, <2>2
<1> QED BY <1>3, <1>4 DEF LastWord

LEMMA NoneKept ==
  ASSUME NEW T, NEW queue \in Seq(T), NEW P, P \subseteq DOMAIN queue, NEW S, NoneIn(queue, S)
  PROVE  NoneIn(Kept(queue, P), S)
<1>1. \A j \in DOMAIN Kept(queue, P) : Nth(P, j) \in P /\ Kept(queue, P)[j] = queue[Nth(P, j)]
  BY Leaving
<1> QED BY <1>1 DEF NoneIn

LEMMA WordKept ==
  ASSUME NEW T, NEW queue \in Seq(T), NEW P, P \subseteq DOMAIN queue, NEW S, NEW V, NEW b,
         LastWord(queue, S, V, b), \A i \in DOMAIN queue : queue[i] \in S => i \in P
  PROVE  LastWord(Kept(queue, P), S, V, b)
<1> DEFINE rest == Kept(queue, P)
<1>1. /\ \A j \in DOMAIN rest : Nth(P, j) \in P /\ rest[j] = queue[Nth(P, j)]
      /\ \A j, k \in DOMAIN rest : j < k => Nth(P, j) < Nth(P, k)
      /\ \A i \in P : \E j \in DOMAIN rest : i = Nth(P, j)
  BY Leaving
<1>2. DOMAIN queue \subseteq Nat /\ DOMAIN rest \subseteq Nat
  <2>1. rest \in Seq(T)
    BY Leaving
  <2> HIDE DEF rest
  <2> QED BY <2>1
<1> HIDE DEF rest
<1>3. NoneIn(queue, S) => NoneIn(rest, S)
  BY NoneKept DEF rest
<1>4. ASSUME NEW i \in DOMAIN queue, queue[i] \in S /\ queue[i] \in V,
             \A j \in DOMAIN queue : j > i => queue[j] \notin S
      PROVE  LastWord(rest, S, V, b)
  <2>1. PICK k \in DOMAIN rest : i = Nth(P, k) /\ rest[k] = queue[i]
    BY <1>1, <1>4
  <2>2. ASSUME NEW j \in DOMAIN rest, j > k
        PROVE  rest[j] \notin S
    <3>1. Nth(P, j) > i /\ Nth(P, j) \in DOMAIN queue /\ rest[j] = queue[Nth(P, j)]
      BY <1>1, <1>2, <2>1, <2>2
    <3> QED BY <1>4, <3>1
  <2> QED BY <1>4, <2>1, <2>2 DEF LastWord
<1>5. LastWord(rest, S, V, b)
  BY <1>3, <1>4, Zenon DEF LastWord
<1> QED BY <1>5 DEF rest

LEMMA NoneLeads ==
  ASSUME NEW T, NEW queue \in Seq(T), queue # <<>>, NEW S, NoneIn(queue, S)
  PROVE  NoneIn(Tail(queue), S)
BY Leading DEF NoneIn

LEMMA NoneJoins ==
  ASSUME NEW T, NEW queue \in Seq(T), NEW x \in T, NEW S, NoneIn(queue, S), x \notin S
  PROVE  NoneIn(Append(queue, x), S)
BY Joining DEF NoneIn
=============================================================================
