--------------------------- MODULE Tiling_proofs ---------------------------
(***************************************************************************)
(* Theorems about the search for a tile shape and its launch (Tiling), for *)
(* any devices, requests and shapes a caller names.                        *)
(***************************************************************************)
EXTENDS Tiling, TileLayout_proofs, FiniteSetTheorems

(* The smallest of three numbers is one of them and below each.            *)
LEMMA MinOfThree ==
  ASSUME NEW a \in Nat, NEW b \in Nat, NEW c \in Nat
  PROVE  /\ Min({a, b, c}) \in {a, b, c}
         /\ Min({a, b, c}) <= a /\ Min({a, b, c}) <= b /\ Min({a, b, c}) <= c
<1>1. \E x \in {a, b, c} : \A y \in {a, b, c} : x <= y  BY SMT
<1>2. Min({a, b, c}) \in {a, b, c} /\ \A y \in {a, b, c} : Min({a, b, c}) <= y
      BY <1>1 DEF Min
<1> QED  BY <1>2

(* The smaller of two numbers is one of them and below both.               *)
LEMMA MinOfTwo ==
  ASSUME NEW a \in Nat, NEW b \in Nat
  PROVE  /\ Min({a, b}) \in {a, b}
         /\ Min({a, b}) <= a /\ Min({a, b}) <= b
<1>1. \E x \in {a, b} : \A y \in {a, b} : x <= y  BY SMT
<1>2. Min({a, b}) \in {a, b} /\ \A y \in {a, b} : Min({a, b}) <= y
      BY <1>1 DEF Min
<1> QED  BY <1>2

-----------------------------------------------------------------------------
Area(shape) == shape[1] * shape[2]

(* Python's comparison of two rank tuples, written out.                    *)
LEMMA RankOrder ==
  ASSUME NEW s \in Shapes, NEW t \in Shapes
  PROVE  Preferred(s, t) <=> \/ Area(s) > Area(t)
                             \/ Area(s) = Area(t) /\ s[2] > t[2]
                             \/ Area(s) = Area(t) /\ s[2] = t[2] /\ s[1] > t[1]
<1>1. ASSUME NEW a, NEW b
      PROVE  Above(a, b) <=> \/ a[1] > b[1]
                             \/ a[1] = b[1] /\ a[2] > b[2]
                             \/ a[1] = b[1] /\ a[2] = b[2] /\ a[3] > b[3]
  <2>1. 1..3 = {1, 2, 3} /\ 1..(1 - 1) = {} /\ 1..(2 - 1) = {1} /\ 1..(3 - 1) = {1, 2}
        BY SMT
  <2> QED  BY <2>1 DEF Above
<1>2. /\ Rank(s)[1] = Area(s) /\ Rank(s)[2] = s[2] /\ Rank(s)[3] = s[1]
      /\ Rank(t)[1] = Area(t) /\ Rank(t)[2] = t[2] /\ Rank(t)[3] = t[1]
      BY DEF Rank, Area
<1> QED  BY <1>1, <1>2 DEF Preferred

(* What the components of a rank are.                                      *)
LEMMA RankTyped ==
  ASSUME NEW s \in Shapes
  PROVE  Area(s) \in Nat /\ s[1] \in Nat /\ s[2] \in Nat /\ s = <<s[1], s[2]>>
<1>1. s[1] \in Nat /\ s[2] \in Nat /\ s = <<s[1], s[2]>>  BY DEF Shapes, Positive
<1> QED  BY <1>1, ProductGrows DEF Area

(* The preference is a strict order in which any two shapes compare.       *)
LEMMA PreferenceIsStrictOrder ==
  /\ \A s \in Shapes : ~Preferred(s, s)
  /\ \A s, t \in Shapes : Preferred(s, t) \/ Preferred(t, s) \/ s = t
  /\ \A s, t, u \in Shapes : Preferred(s, t) /\ Preferred(t, u) => Preferred(s, u)
<1>1. ASSUME NEW s \in Shapes PROVE ~Preferred(s, s)
      BY RankTyped, RankOrder, SMT
<1>2. ASSUME NEW s \in Shapes, NEW t \in Shapes, ~Preferred(s, t), ~Preferred(t, s)
      PROVE  s = t
  <2>1. s[1] = t[1] /\ s[2] = t[2]  BY <1>2, RankTyped, RankOrder, SMT
  <2> QED  BY <2>1, RankTyped
<1>3. ASSUME NEW s \in Shapes, NEW t \in Shapes, NEW u \in Shapes,
             Preferred(s, t), Preferred(t, u)
      PROVE  Preferred(s, u)
  <2>1. /\ Area(s) \in Nat /\ Area(t) \in Nat /\ Area(u) \in Nat
        /\ s[1] \in Nat /\ s[2] \in Nat /\ t[1] \in Nat /\ t[2] \in Nat
        /\ u[1] \in Nat /\ u[2] \in Nat
        BY RankTyped
  <2>2. \/ Area(s) > Area(t)
        \/ Area(s) = Area(t) /\ s[2] > t[2]
        \/ Area(s) = Area(t) /\ s[2] = t[2] /\ s[1] > t[1]
        BY <1>3, RankOrder
  <2>3. \/ Area(t) > Area(u)
        \/ Area(t) = Area(u) /\ t[2] > u[2]
        \/ Area(t) = Area(u) /\ t[2] = u[2] /\ t[1] > u[1]
        BY <1>3, RankOrder
  <2>4. \/ Area(s) > Area(u)
        \/ Area(s) = Area(u) /\ s[2] > u[2]
        \/ Area(s) = Area(u) /\ s[2] = u[2] /\ s[1] > u[1]
        BY <2>1, <2>2, <2>3, SMT
  <2> QED  BY <2>4, RankOrder
<1> QED  BY <1>1, <1>2, <1>3

-----------------------------------------------------------------------------
(* A list of shapes sorts to the same shapes: the places are the positions *)
(* of the list, each taken once.                                           *)
LEMMA EveryPlaceIsTaken ==
  ASSUME plans \in Seq(Shapes)
  PROVE  \E place \in Bijection(DOMAIN plans, DOMAIN plans) :
           \A i \in DOMAIN plans : place[i] = Place(i)
<1> DEFINE n == Len(plans)
           D == DOMAIN plans
           Upto(i) == {j \in D : \/ Preferred(plans[j], plans[i])
                                 \/ plans[j] = plans[i] /\ j <= i}
           place == [i \in D |-> Place(i)]
<1>1. D = 1..n /\ n \in Nat /\ \A i \in D : plans[i] \in Shapes
      OBVIOUS
<1>2. IsFiniteSet(D) /\ Cardinality(D) = n
  <2>1. IsFiniteSet(1..n) /\ Cardinality(1..n) = IF 1 > n THEN 0 ELSE n - 1 + 1
        BY <1>1, FS_Interval
  <2> QED  BY <1>1, <2>1, SMT
<1>3. ASSUME NEW i \in D
      PROVE  /\ IsFiniteSet(Upto(i)) /\ Cardinality(Upto(i)) \in Nat
             /\ Cardinality(Upto(i)) <= n /\ Place(i) = Cardinality(Upto(i))
             /\ i \in Upto(i) /\ Cardinality(Upto(i)) # 0
  <2>1. Upto(i) \in SUBSET D  OBVIOUS
  <2>2. i \in Upto(i)  BY <1>1, SMT
  <2> HIDE DEF Upto
  <2>3. IsFiniteSet(Upto(i)) /\ Cardinality(Upto(i)) <= Cardinality(D)
        BY <1>2, <2>1, FS_Subset
  <2>4. Cardinality(Upto(i)) \in Nat  BY <2>3, FS_CardinalityType
  <2>5. Cardinality(Upto(i)) # 0  BY <2>2, <2>3, FS_EmptySet
  <2>6. Place(i) = Cardinality(Upto(i))  BY DEF Place, Upto
  <2> QED  BY <1>2, <2>2, <2>3, <2>4, <2>5, <2>6
<1>4. ASSUME NEW i \in D, NEW j \in D, i \in Upto(j), i # j
      PROVE  Place(i) < Place(j)
  <2>1. plans[i] \in Shapes /\ plans[j] \in Shapes /\ i \in Nat /\ j \in Nat
        BY <1>1, SMT
  <2>2. j \notin Upto(i)
    <3>1. CASE Preferred(plans[i], plans[j])
      <4>1. ~Preferred(plans[j], plans[i]) /\ plans[j] # plans[i]
            BY <2>1, <3>1, PreferenceIsStrictOrder
      <4> QED  BY <4>1
    <3>2. CASE plans[i] = plans[j] /\ i <= j
      <4>1. ~Preferred(plans[j], plans[i])  BY <2>1, <3>2, PreferenceIsStrictOrder
      <4>2. ~(j <= i)  BY <1>4, <2>1, <3>2, SMT
      <4> QED  BY <4>1, <4>2
    <3> QED  BY <1>4, <3>1, <3>2
  <2>3. Upto(i) \subseteq Upto(j)
    <3>1. SUFFICES ASSUME NEW m \in D, m \in Upto(i) PROVE m \in Upto(j)
          OBVIOUS
    <3>2. plans[m] \in Shapes /\ m \in Nat  BY <1>1, SMT
    <3>3. Preferred(plans[i], plans[j]) \/ (plans[i] = plans[j] /\ i <= j)
          BY <1>4
    <3>4. Preferred(plans[m], plans[i]) \/ (plans[m] = plans[i] /\ m <= i)
          BY <3>1
    <3>5. Preferred(plans[m], plans[j]) \/ (plans[m] = plans[j] /\ m <= j)
      <4>1. CASE Preferred(plans[m], plans[i]) /\ Preferred(plans[i], plans[j])
            BY <2>1, <3>2, <4>1, PreferenceIsStrictOrder
      <4>2. CASE plans[m] = plans[i] /\ m <= i /\ plans[i] = plans[j] /\ i <= j
            BY <2>1, <3>2, <4>2, SMT
      <4>3. CASE plans[m] = plans[i] /\ Preferred(plans[i], plans[j])
            BY <4>3
      <4>4. CASE Preferred(plans[m], plans[i]) /\ plans[i] = plans[j]
            BY <4>4
      <4> QED  BY <3>3, <3>4, <4>1, <4>2, <4>3, <4>4
    <3> QED  BY <3>5
  <2>4. j \in Upto(j)  BY <1>3
  <2> HIDE DEF Upto
  <2>5. Cardinality(Upto(i)) <= Cardinality(Upto(j)) /\ Cardinality(Upto(i)) # Cardinality(Upto(j))
        BY <1>3, <2>2, <2>3, <2>4, FS_Subset
  <2>6. Place(i) = Cardinality(Upto(i)) /\ Place(j) = Cardinality(Upto(j))
        /\ Cardinality(Upto(i)) \in Nat /\ Cardinality(Upto(j)) \in Nat
        BY <1>3
  <2> QED  BY <2>5, <2>6, SMT
<1>5. \A i, j \in D : i # j => i \in Upto(j) \/ j \in Upto(i)
  <2>1. SUFFICES ASSUME NEW i \in D, NEW j \in D, i # j
                 PROVE  i \in Upto(j) \/ j \in Upto(i)
        OBVIOUS
  <2>2. plans[i] \in Shapes /\ plans[j] \in Shapes /\ i \in Nat /\ j \in Nat
        BY <1>1, SMT
  <2>3. Preferred(plans[i], plans[j]) \/ Preferred(plans[j], plans[i]) \/ plans[i] = plans[j]
        BY <2>2, PreferenceIsStrictOrder
  <2>4. i <= j \/ j <= i  BY <2>2, SMT
  <2> QED  BY <2>3, <2>4
<1>6. place \in [D -> D]
  <2>1. \A i \in D : Place(i) \in 1..n
    <3> HIDE DEF Upto
    <3> QED  BY <1>1, <1>3, SMT
  <2> QED  BY <1>1, <2>1
<1> HIDE DEF Upto
<1>7. \A i, j \in D : place[i] = place[j] => i = j
  <2>1. SUFFICES ASSUME NEW i \in D, NEW j \in D, place[i] = place[j], i # j
                 PROVE  FALSE
        OBVIOUS
  <2>2. Place(i) = Place(j) /\ Place(i) \in Nat
        BY <1>3, <2>1
  <2>3. Place(i) < Place(j) \/ Place(j) < Place(i)  BY <1>4, <1>5, <2>1
  <2> QED  BY <2>2, <2>3, SMT
<1> HIDE DEF place, D
<1>8. place \in Injection(D, D)  BY <1>6, <1>7 DEF Injection, IsInjective
<1>9. place \in Surjection(D, D)  BY <1>2, <1>8, FS_Injection
<1>10. place \in Bijection(D, D)  BY <1>8, <1>9 DEF Bijection
<1> QED  BY <1>10 DEF place, D

NoRepeats(seq) == \A i, j \in DOMAIN seq : seq[i] = seq[j] => i = j

(* Sorting keeps the shapes of a list, keeps them distinct, and puts no    *)
(* shape behind one it is preferred to.                                    *)
LEMMA SortingKeepsShapes ==
  ASSUME plans \in Seq(Shapes)
  PROVE  /\ Ranked \in Seq(Shapes) /\ Len(Ranked) = Len(plans)
         /\ ToSet(Ranked) = ToSet(plans)
         /\ NoRepeats(plans) => NoRepeats(Ranked)
         /\ \A m, n \in DOMAIN Ranked : m < n => ~Preferred(Ranked[n], Ranked[m])
<1> DEFINE D == DOMAIN plans
           at_place(n) == CHOOSE i \in D : Place(i) = n
<1>1. D = 1..Len(plans) /\ Len(plans) \in Nat /\ \A i \in D : plans[i] \in Shapes
      OBVIOUS
<1>2. PICK place \in Bijection(D, D) : \A i \in D : place[i] = Place(i)
      BY EveryPlaceIsTaken
<1>3. /\ \A i \in D : Place(i) \in D
      /\ \A i, j \in D : Place(i) = Place(j) => i = j
      /\ \A n \in D : \E i \in D : Place(i) = n
      BY <1>2 DEF Bijection, Injection, Surjection, IsInjective
<1>4. \A n \in D : at_place(n) \in D /\ Place(at_place(n)) = n
      BY <1>3
<1>5. \A i \in D : at_place(Place(i)) = i
      BY <1>3, <1>4
<1>6. DOMAIN Ranked = D /\ \A n \in D : Ranked[n] = plans[at_place(n)]
      BY DEF Ranked
<1>7. Ranked \in Seq(Shapes) /\ Len(Ranked) = Len(plans)
  <2>1. Ranked \in [1..Len(plans) -> Shapes]
        BY <1>1, <1>4 DEF Ranked
  <2> QED  BY <1>1, <2>1
<1> HIDE DEF at_place, D
<1>8. ToSet(Ranked) = ToSet(plans)
  <2>1. ToSet(Ranked) = {Ranked[n] : n \in D} /\ ToSet(plans) = {plans[i] : i \in D}
        BY <1>6 DEF ToSet, D
  <2>2. \A n \in D : \E i \in D : Ranked[n] = plans[i]  BY <1>4, <1>6
  <2>3. \A i \in D : \E n \in D : Ranked[n] = plans[i]
    <3>1. SUFFICES ASSUME NEW i \in D PROVE Ranked[Place(i)] = plans[i] /\ Place(i) \in D
          OBVIOUS
    <3> QED  BY <1>3, <1>5, <1>6
  <2> QED  BY <2>1, <2>2, <2>3
<1>9. ASSUME NoRepeats(plans) PROVE NoRepeats(Ranked)
  <2>1. SUFFICES ASSUME NEW m \in D, NEW n \in D, Ranked[m] = Ranked[n] PROVE m = n
        BY <1>6 DEF NoRepeats
  <2>2. plans[at_place(m)] = plans[at_place(n)]  BY <1>6, <2>1
  <2>3. at_place(m) = at_place(n)  BY <1>4, <1>9, <2>2 DEF NoRepeats, D
  <2> QED  BY <1>4, <2>3
<1>10. ASSUME NEW m \in D, NEW n \in D, m < n, Preferred(Ranked[n], Ranked[m])
       PROVE  FALSE
  <2> DEFINE i == at_place(m)
             j == at_place(n)
  <2>1. /\ i \in D /\ j \in D /\ Place(i) = m /\ Place(j) = n
        /\ Preferred(plans[j], plans[i]) /\ plans[i] \in Shapes /\ plans[j] \in Shapes
        BY <1>1, <1>4, <1>6, <1>10
  <2> HIDE DEF i, j
  <2> DEFINE Upto(k) == {l \in D : \/ Preferred(plans[l], plans[k])
                                   \/ plans[l] = plans[k] /\ l <= k}
  <2>2. Upto(j) \subseteq Upto(i)
    <3>1. SUFFICES ASSUME NEW l \in D, Preferred(plans[l], plans[j]) \/ plans[l] = plans[j]
                   PROVE  Preferred(plans[l], plans[i])
          OBVIOUS
    <3>2. plans[l] \in Shapes  BY <1>1
    <3> QED  BY <2>1, <3>1, <3>2, PreferenceIsStrictOrder
  <2>3. IsFiniteSet(Upto(i))
    <3>1. IsFiniteSet(1..Len(plans))  BY <1>1, FS_Interval
    <3> QED  BY <1>1, <3>1, FS_Subset
  <2>4. Place(i) = Cardinality(Upto(i)) /\ Place(j) = Cardinality(Upto(j))
        BY DEF Place, D
  <2> HIDE DEF Upto
  <2>5. Place(j) <= Place(i)  BY <2>2, <2>3, <2>4, FS_Subset
  <2>6. m \in Nat /\ n \in Nat  BY <1>1, SMT
  <2> QED  BY <1>10, <2>1, <2>5, <2>6, SMT
<1> QED  BY <1>6, <1>7, <1>8, <1>9, <1>10

(* A sequence without repeats is as long as its set is large.              *)
LEMMA DistinctLength ==
  ASSUME NEW S, NEW seq \in Seq(S), NoRepeats(seq)
  PROVE  Len(seq) = Cardinality(ToSet(seq))
<1> DEFINE n == Len(seq)
<1>1. n \in Nat /\ DOMAIN seq = 1..n  OBVIOUS
<1>2. ToSet(seq) = {seq[i] : i \in 1..n}  BY <1>1 DEF ToSet
<1>3. seq \in [1..n -> ToSet(seq)]  BY <1>1, <1>2
<1>4. seq \in Bijection(1..n, ToSet(seq))
      BY <1>1, <1>2, <1>3 DEF NoRepeats, Bijection, Injection, Surjection, IsInjective
<1>5. ExistsBijection(1..n, ToSet(seq))  BY <1>4 DEF ExistsBijection
<1> QED  BY <1>1, <1>5, FS_CountingElements

-----------------------------------------------------------------------------
TopPower == 1073741824

(* The powers of two the search counts with, written out.                  *)
LEMMA PowersListed ==
  PowersOfTwo =
    {1, 2, 4, 8, 16, 32, 64, 128, 256, 512, 1024, 2048, 4096, 8192, 16384,
     32768, 65536, 131072, 262144, 524288, 1048576, 2097152, 4194304, 8388608,
     16777216, 33554432, 67108864, 134217728, 268435456, 536870912, 1073741824}
<1> DEFINE E == {0, 1, 2, 3, 4, 5, 6, 7, 8, 9, 10, 11, 12, 13, 14, 15, 16, 17, 18, 19,
                 20, 21, 22, 23, 24, 25, 26, 27, 28, 29, 30}
<1>1. 0..30 = E  BY SMT
<1>2. PowersOfTwo = {2^e : e \in E}  BY <1>1 DEF PowersOfTwo
<1> QED  BY <1>2, SMT

(* Doubling runs through them all: it stays among them up to the last, and *)
(* passes none by.                                                         *)
LEMMA Doubling ==
  /\ 1 \in PowersOfTwo /\ TopPower \in PowersOfTwo /\ TopPower = 2^30
  /\ \A p \in PowersOfTwo : p \in Positive /\ p <= TopPower
  /\ \A p \in PowersOfTwo : p < TopPower => 2 * p \in PowersOfTwo
  /\ \A p, q \in PowersOfTwo : q < 2 * p => q <= p
<1>1. /\ 1 \in PowersOfTwo /\ TopPower \in PowersOfTwo /\ TopPower = 2^30
      BY PowersListed, SMT DEF TopPower
<1>2. \A p \in PowersOfTwo : p \in Positive /\ p <= TopPower
      BY PowersListed, SMT DEF TopPower, Positive
<1>3. \A p \in PowersOfTwo : p < TopPower => 2 * p \in PowersOfTwo
      BY PowersListed, SMT DEF TopPower
<1>4. \A p, q \in PowersOfTwo : q < 2 * p => q <= p
      BY PowersListed, SMT
<1> QED  BY <1>1, <1>2, <1>3, <1>4

(* The power of two a length is rounded up to is the least that covers it. *)
LEMMA RoundsUp ==
  ASSUME NEW value \in Positive, value <= TopPower
  PROVE  /\ NextPowerOfTwo(value) \in PowersOfTwo /\ NextPowerOfTwo(value) >= value
         /\ \A smaller \in PowersOfTwo : smaller >= value => NextPowerOfTwo(value) <= smaller
<1>1. \E p \in PowersOfTwo :
        /\ p >= value
        /\ \A smaller \in PowersOfTwo : smaller >= value => p <= smaller
      BY PowersListed, SMT DEF TopPower, Positive
<1> QED  BY <1>1 DEF NextPowerOfTwo

(* A shape no wider and no taller than one that fits fits as well.         *)
LEMMA FootprintGrowsBothWays ==
  ASSUME NEW bq \in Positive, NEW bk \in Positive, NEW taller \in Positive,
         NEW wider \in Positive, NEW head_dim \in Positive, NEW dtype_bytes \in Positive,
         bq <= taller, bk <= wider
  PROVE  /\ bq * bk \in Nat /\ taller * wider \in Nat /\ bq * bk <= taller * wider
         /\ SharedMemoryBytesFor(bq, bk, head_dim, dtype_bytes) \in Nat
         /\ SharedMemoryBytesFor(taller, wider, head_dim, dtype_bytes) \in Nat
         /\ SharedMemoryBytesFor(bq, bk, head_dim, dtype_bytes)
              <= SharedMemoryBytesFor(taller, wider, head_dim, dtype_bytes)
<1> USE DEF Positive
<1> DEFINE tile(a) == WholeVectors(a * head_dim)
           elements(a, b) == tile(a) + 2 * tile(b) + a * b + 2 * a
<1>1. ASSUME NEW a \in Nat, NEW b \in Nat, a <= b
      PROVE  tile(a) \in Nat /\ tile(b) \in Nat /\ tile(a) <= tile(b)
  <2>1. a * head_dim \in Nat /\ b * head_dim \in Nat /\ a * head_dim <= b * head_dim
        BY <1>1, ProductGrows
  <2> QED  BY <2>1, WholeVectorsGrow
<1>2. bq * bk \in Nat /\ taller * wider \in Nat /\ bq * bk <= taller * wider
  <2>1. bq * bk \in Nat /\ taller * bk \in Nat /\ bq * bk <= taller * bk  BY ProductGrows
  <2>2. bk * taller \in Nat /\ wider * taller \in Nat /\ bk * taller <= wider * taller
        BY ProductGrows
  <2>3. bk * taller = taller * bk /\ wider * taller = taller * wider  BY SMT
  <2> QED  BY <2>1, <2>2, <2>3, SMT
<1>3. /\ tile(bq) \in Nat /\ tile(taller) \in Nat /\ tile(bq) <= tile(taller)
      /\ tile(bk) \in Nat /\ tile(wider) \in Nat /\ tile(bk) <= tile(wider)
      BY <1>1
<1> HIDE DEF tile
<1>4. /\ elements(bq, bk) \in Nat /\ elements(taller, wider) \in Nat
      /\ elements(bq, bk) <= elements(taller, wider)
      BY <1>2, <1>3, SMT
<1>5. /\ SharedMemoryBytesFor(bq, bk, head_dim, dtype_bytes) = dtype_bytes * elements(bq, bk)
      /\ SharedMemoryBytesFor(taller, wider, head_dim, dtype_bytes)
           = dtype_bytes * elements(taller, wider)
      BY DEF SharedMemoryBytesFor, elements, tile
<1> HIDE DEF elements
<1>6. /\ elements(bq, bk) * dtype_bytes \in Nat /\ elements(taller, wider) * dtype_bytes \in Nat
      /\ elements(bq, bk) * dtype_bytes <= elements(taller, wider) * dtype_bytes
      BY <1>4, ProductGrows
<1>7. \A n \in Nat : n * dtype_bytes = dtype_bytes * n  BY SMT
<1> QED  BY <1>2, <1>4, <1>5, <1>6, <1>7

-----------------------------------------------------------------------------
(* The inductive invariant.  Past the opening, the limits are what the     *)
(* device reports; the search holds exactly the shapes that fit among      *)
(* those it has passed, once each; a shape that was chosen fits; and a     *)
(* launch is the chosen shape's.                                           *)
Powers == PowersOfTwo \cup {2 * TopPower}

OpenedAsReported ==
  at \in {"open", "searching", "ranked", "planned", "launched"} =>
    limits = [shared |-> device.shared, max_threads |-> Threads,
              simd_width |-> SUBGROUP_WIDTH_FALLBACK]

Asked == at \in {"searching", "ranked", "planned", "launched"} => request \in Requests

Passed(shape) == shape[1] < block_q \/ (shape[1] = block_q /\ shape[2] < block_k)

Found(seq, shapes) ==
  /\ seq \in Seq(Shapes) /\ NoRepeats(seq)
  /\ ToSet(seq) = shapes

Atlas == Legal(BlocksUpto(QCap), BlocksUpto(KCap))

Searching ==
  /\ at \in {"opening", "open"} => block_q = 1 /\ block_k = 1 /\ plans = <<>>
  /\ at = "searching" =>
       /\ block_q \in Powers /\ block_k \in Powers
       /\ Found(plans, {shape \in Atlas : Passed(shape)})
  /\ at = "ranked" => Found(plans, Atlas)

Chosen ==
  at \in {"planned", "launched"} => plan \in Shapes /\ Fits(plan[1], plan[2])

Launched ==
  at = "launched" =>
    /\ request.dtype_bytes = KERNEL_DTYPE_BYTES
    /\ launch = [constants |-> Specialized(plan, request.head_dim), groups |-> Groups]
    /\ Groups[1] <= MAX_GROUPS_PER_AXIS /\ Groups[2] <= MAX_GROUPS_PER_AXIS

TilingInv ==
  /\ device \in Devices
  /\ at \in {"opening", "open", "searching", "ranked", "planned", "launched",
             "ValueError", "VulkanError", "TileSizingError"}
  /\ OpenedAsReported /\ Asked /\ Searching /\ Chosen /\ Launched

(* The threads of a group are what the device says of one, in every way it *)
(* says it.                                                                *)
LEMMA ThreadsWithinReport ==
  ASSUME device \in Devices
  PROVE  /\ device.shared \in Nat /\ device.invocations \in Nat
         /\ device.sizeX \in Nat /\ device.sizeY \in Nat
         /\ Threads \in Nat /\ Threads <= device.invocations
         /\ Threads <= device.sizeX /\ Threads <= device.sizeY
         /\ Threads <= TopPower
<1>1. /\ device.shared \in Nat /\ device.invocations \in Nat
      /\ device.sizeX \in Nat /\ device.sizeY \in Nat
      BY TilingAssumption
<1>2. device.invocations <= TopPower  BY TilingAssumption, Doubling
<1>3. /\ Threads \in {device.invocations, device.sizeX, device.sizeY}
      /\ Threads <= device.invocations /\ Threads <= device.sizeX /\ Threads <= device.sizeY
      BY <1>1, MinOfThree DEF Threads
<1>4. Threads \in Nat  BY <1>1, <1>3
<1>5. TopPower \in Nat  BY SMT DEF TopPower
<1> QED  BY <1>1, <1>2, <1>3, <1>4, <1>5, SMT

(* What a request is made of.                                              *)
LEMMA RequestTyped ==
  ASSUME NEW r \in Requests
  PROVE  /\ r.head_dim \in Positive /\ r.dtype_bytes \in Positive /\ r.stack \in Positive
         /\ r.seq_q \in Positive /\ r.seq_k \in Positive /\ r.hinted \in BOOLEAN
         /\ r.seq_q <= TopPower /\ r.seq_k <= TopPower
<1>1. /\ r.head_dim \in HeadDims /\ r.dtype_bytes \in DtypeSizes /\ r.stack \in Stacks
      /\ r.seq_q \in SeqLens /\ r.seq_k \in SeqLens /\ r.hinted \in BOOLEAN
      BY DEF Requests
<1> QED  BY <1>1, TilingAssumption, Doubling DEF Positive

(* A cap is a number of threads of the group at most.                      *)
LEMMA CapWithinGroup ==
  ASSUME limits.max_threads \in Nat, request \in Requests,
         NEW seq \in Positive, seq <= TopPower
  PROVE  /\ Cap(seq) \in Nat /\ Cap(seq) <= limits.max_threads
         /\ Cap(seq) = limits.max_threads
              \/ (request.hinted /\ Cap(seq) = NextPowerOfTwo(seq))
<1>1. NextPowerOfTwo(seq) \in Nat  BY RoundsUp, Doubling DEF Positive
<1>2. CASE request.hinted
  <2>1. /\ Cap(seq) \in {limits.max_threads, NextPowerOfTwo(seq)}
        /\ Cap(seq) <= limits.max_threads
        BY <1>1, <1>2, MinOfTwo DEF Cap
  <2> QED  BY <1>1, <1>2, <2>1
<1>3. CASE ~request.hinted  BY <1>3, SMT DEF Cap
<1> QED  BY <1>2, <1>3

(* What the limits and the caps are while a search runs.                   *)
LEMMA SearchBounds ==
  ASSUME TilingInv, at \in {"searching", "ranked"}
  PROVE  /\ limits.max_threads = Threads /\ limits.shared = device.shared
         /\ limits.max_threads \in Nat /\ limits.shared \in Nat
         /\ limits.max_threads <= TopPower
         /\ QCap \in Nat /\ QCap <= limits.max_threads
         /\ KCap \in Nat /\ KCap <= limits.max_threads
<1>1. /\ device \in Devices /\ request \in Requests
      /\ limits = [shared |-> device.shared, max_threads |-> Threads,
                   simd_width |-> SUBGROUP_WIDTH_FALLBACK]
      BY DEF TilingInv, OpenedAsReported, Asked
<1>2. /\ limits.max_threads = Threads /\ limits.shared = device.shared
      /\ limits.max_threads \in Nat /\ limits.shared \in Nat
      /\ limits.max_threads <= TopPower
      BY <1>1, ThreadsWithinReport
<1>3. /\ request.seq_q \in Positive /\ request.seq_q <= TopPower
      /\ request.seq_k \in Positive /\ request.seq_k <= TopPower
      BY <1>1, RequestTyped
<1> QED  BY <1>1, <1>2, <1>3, CapWithinGroup DEF QCap, KCap

(* The map of a search: what belongs to Atlas.                             *)
LEMMA AtlasMembers ==
  ASSUME NEW shape
  PROVE  shape \in Atlas <=>
           /\ shape \in PowersOfTwo \X PowersOfTwo
           /\ shape[1] <= QCap /\ shape[2] <= KCap
           /\ Fits(shape[1], shape[2])
  BY DEF Atlas, Legal, BlocksUpto

(* The start has nothing but the device.                                   *)
LEMMA TilingInit == Init => TilingInv
  BY DEF Init, TilingInv, OpenedAsReported, Asked, Searching, Chosen, Launched

(* A list that gets a shape it does not have.                              *)
LEMMA FoundOneMore ==
  ASSUME NEW seq, NEW shapes, Found(seq, shapes), NEW shape \in Shapes, shape \notin shapes
  PROVE  Found(Append(seq, shape), shapes \cup {shape})
<1> DEFINE n == Len(seq)
           longer == Append(seq, shape)
<1>1. seq \in Seq(Shapes) /\ NoRepeats(seq) /\ ToSet(seq) = shapes  BY DEF Found
<1>2. /\ n \in Nat /\ DOMAIN seq = 1..n
      /\ longer \in Seq(Shapes) /\ Len(longer) = n + 1 /\ DOMAIN longer = 1..(n + 1)
      /\ \A i \in 1..n : longer[i] = seq[i]
      /\ longer[n + 1] = shape
      BY <1>1
<1>3. 1..(n + 1) = 1..n \cup {n + 1} /\ n + 1 \notin 1..n  BY <1>2, SMT
<1> HIDE DEF n, longer
<1>4. ToSet(seq) = {seq[i] : i \in 1..n} /\ ToSet(longer) = {longer[i] : i \in 1..(n + 1)}
      BY <1>2 DEF ToSet
<1>5. ToSet(longer) = shapes \cup {shape}
  <2>1. \A i \in 1..n : seq[i] \in shapes  BY <1>1, <1>4
  <2>2. \A s \in shapes : \E i \in 1..n : longer[i] = s  BY <1>1, <1>2, <1>4
  <2> QED  BY <1>2, <1>3, <1>4, <2>1, <2>2
<1>6. NoRepeats(longer)
  <2>1. SUFFICES ASSUME NEW i \in 1..(n + 1), NEW j \in 1..(n + 1), longer[i] = longer[j]
                 PROVE  i = j
        BY <1>2 DEF NoRepeats
  <2>2. \A k \in 1..n : seq[k] # shape  BY <1>1, <1>4
  <2>3. CASE i \in 1..n /\ j \in 1..n  BY <1>1, <1>2, <2>1, <2>3 DEF NoRepeats
  <2>4. CASE i = n + 1 \/ j = n + 1  BY <1>2, <1>3, <2>1, <2>2, <2>4
  <2> QED  BY <1>3, <2>3, <2>4
<1> QED  BY <1>2, <1>5, <1>6 DEF Found, longer

(* Opening a device.                                                       *)
LEMMA OpeningStep ==
  ASSUME TilingInv, TileLimitsOf \/ LimitsRefused
  PROVE  TilingInv'
<1>1. CASE TileLimitsOf
  <2>1. /\ at' = "open" /\ at = "opening" /\ UNCHANGED <<device, block_q, block_k, plans>>
        /\ limits' = [shared |-> device.shared, max_threads |-> Threads,
                      simd_width |-> SUBGROUP_WIDTH_FALLBACK]
        BY <1>1 DEF TileLimitsOf
  <2>2. block_q = 1 /\ block_k = 1 /\ plans = <<>>
    <3> QED  BY <2>1 DEF TilingInv, Searching
  <2> QED  BY <2>1, <2>2 DEF TilingInv, OpenedAsReported, Asked, Searching, Chosen, Launched, Threads
<1>2. CASE LimitsRefused
  <2>1. at' \in {"ValueError", "VulkanError"} /\ UNCHANGED device
        BY <1>2 DEF LimitsRefused
  <2> QED  BY <2>1 DEF TilingInv, OpenedAsReported, Asked, Searching, Chosen, Launched
<1> QED  BY <1>1, <1>2

(* What the map is does not change while the limits and the request stay.  *)
LEMMA AtlasFrame ==
  ASSUME UNCHANGED <<limits, request>>
  PROVE  /\ QCap' = QCap /\ KCap' = KCap /\ Atlas' = Atlas
         /\ \A bq, bk : Fits(bq, bk)' <=> Fits(bq, bk)
<1>1. \A bq, bk : Fits(bq, bk)' <=> Fits(bq, bk)  BY DEF Fits, FitsFor
<1>2. QCap' = QCap /\ KCap' = KCap  BY DEF QCap, KCap, Cap
<1>3. /\ Atlas = {shape \in BlocksUpto(QCap) \X BlocksUpto(KCap) : Fits(shape[1], shape[2])}
      /\ Atlas' = {shape \in BlocksUpto(QCap') \X BlocksUpto(KCap') : Fits(shape[1], shape[2])'}
      BY DEF Atlas, Legal, BlocksUpto
<1> QED  BY <1>1, <1>2, <1>3

(* A row of the map, of those the search is still to look at, cannot begin *)
(* past a shape that does not fit: the inner loop ends without losing any. *)
LEMMA RowIsOver ==
  ASSUME TilingInv, at = "searching", block_k > KCap \/ ~Fits(block_q, block_k),
         NEW shape \in Atlas, shape[1] = block_q
  PROVE  shape[2] < block_k
<1>1. /\ shape[1] \in PowersOfTwo /\ shape[2] \in PowersOfTwo /\ shape[2] <= KCap
      /\ Fits(shape[1], shape[2])
      BY AtlasMembers
<1>2. /\ block_k \in Powers /\ request \in Requests
      BY DEF TilingInv, Searching, Asked
<1>3. block_k \in Positive
  <2>1. TopPower \in Nat /\ 2 * TopPower \in Positive  BY SMT DEF TopPower, Positive
  <2> QED  BY <1>2, <2>1, Doubling DEF Powers
<1>4. /\ KCap \in Nat /\ limits.max_threads \in Nat /\ limits.shared \in Nat
      BY SearchBounds
<1>5. shape[1] \in Positive /\ shape[2] \in Positive  BY <1>1, Doubling
<1>6. /\ request.head_dim \in Positive /\ request.dtype_bytes \in Positive
      /\ block_q <= block_q /\ block_k <= block_k /\ shape[2] <= shape[2]
      BY <1>2, <1>3, <1>5, RequestTyped, SMT DEF Positive
<1>7. CASE block_k > KCap  BY <1>1, <1>3, <1>4, <1>5, <1>7, SMT DEF Positive
<1>8. CASE ~Fits(block_q, block_k)
  <2>1. SUFFICES ASSUME block_k <= shape[2] PROVE FALSE
        BY <1>3, <1>5, SMT DEF Positive
  <2> DEFINE bytes(k) == SharedMemoryBytesFor(block_q, k, request.head_dim, request.dtype_bytes)
  <2>2. /\ block_q * shape[2] <= limits.max_threads /\ bytes(shape[2]) <= limits.shared
        BY <1>1 DEF Fits, FitsFor
  <2>3. block_q * block_k > limits.max_threads \/ bytes(block_k) > limits.shared
    <3>1. /\ block_q * block_k \in Nat /\ bytes(block_k) \in Nat
          BY <1>3, <1>5, <1>6, FootprintGrowsBothWays
    <3>2. ~(block_q * block_k <= limits.max_threads /\ bytes(block_k) <= limits.shared)
          BY <1>8 DEF Fits, FitsFor
    <3> HIDE DEF bytes
    <3> QED  BY <1>4, <3>1, <3>2, SMT
  <2>4. block_q * shape[2] > limits.max_threads \/ bytes(shape[2]) > limits.shared
        BY <1>3, <1>4, <1>5, <1>6, <2>1, <2>3, BreaksLoseNothing
  <2>5. block_q * shape[2] \in Nat /\ bytes(shape[2]) \in Nat
        BY <1>5, <1>6, FootprintGrowsBothWays
  <2> HIDE DEF bytes
  <2> QED  BY <1>4, <2>2, <2>4, <2>5, SMT
<1> QED  BY <1>7, <1>8

(* The search begins with nothing passed and nothing found.                *)
LEMMA StartStep ==
  ASSUME TilingInv, StartSearch
  PROVE  TilingInv'
<1>1. /\ at = "open" /\ at' = "searching" /\ request' \in Requests
      /\ UNCHANGED <<device, limits, block_q, block_k, plans>>
      BY DEF StartSearch
<1>2. block_q = 1 /\ block_k = 1 /\ plans = <<>>  BY <1>1 DEF TilingInv, Searching
<1>3. OpenedAsReported'  BY <1>1 DEF TilingInv, OpenedAsReported, Threads
<1>4. ASSUME NEW shape \in Atlas' PROVE ~Passed(shape)'
  <2>1. shape[1] \in PowersOfTwo /\ shape[2] \in PowersOfTwo
        BY DEF Atlas, Legal, BlocksUpto
  <2>2. shape[1] >= 1 /\ shape[2] >= 1 /\ shape[1] \in Nat /\ shape[2] \in Nat
    <3>1. \A p \in Positive : p >= 1 /\ p \in Nat  BY SMT DEF Positive
    <3> QED  BY <2>1, <3>1, Doubling
  <2>3. Passed(shape)' <=> shape[1] < 1 \/ (shape[1] = 1 /\ shape[2] < 1)
        BY <1>1, <1>2 DEF Passed
  <2> QED  BY <2>2, <2>3, SMT
<1>5. Found(plans', {shape \in Atlas' : Passed(shape)'})
  <2>1. {shape \in Atlas' : Passed(shape)'} = {}  BY <1>4
  <2>2. Found(<<>>, {})  BY DEF Found, NoRepeats, ToSet
  <2> QED  BY <1>1, <1>2, <2>1, <2>2
<1>6. block_q' \in Powers /\ block_k' \in Powers  BY <1>1, <1>2, Doubling DEF Powers
<1>7. Searching'  BY <1>1, <1>5, <1>6 DEF Searching
<1> QED  BY <1>1, <1>3, <1>7 DEF TilingInv, Asked, Chosen, Launched

(* A shape that fits is found as the search passes it.                     *)
LEMMA ConsiderStep ==
  ASSUME TilingInv, Consider
  PROVE  TilingInv'
<1> DEFINE here == <<block_q, block_k>>
<1>1. /\ at = "searching" /\ at' = "searching" /\ block_q <= QCap /\ block_k <= KCap
      /\ Fits(block_q, block_k) /\ plans' = Append(plans, here)
      /\ block_k' = 2 * block_k /\ UNCHANGED <<device, limits, request, block_q>>
      BY DEF Consider
<1>2. /\ block_q \in Powers /\ block_k \in Powers
      /\ Found(plans, {shape \in Atlas : Passed(shape)})
      BY <1>1 DEF TilingInv, Searching
<1>3. QCap \in Nat /\ KCap \in Nat /\ QCap <= TopPower /\ KCap <= TopPower /\ TopPower \in Nat
  <2>1. TopPower \in Nat  BY SMT DEF TopPower
  <2> QED  BY <1>1, <2>1, SearchBounds, SMT
<1>4. block_q \in PowersOfTwo /\ block_k \in PowersOfTwo
  <2>1. ~(2 * TopPower <= TopPower)  BY SMT DEF TopPower
  <2>2. block_q <= TopPower /\ block_k <= TopPower
    <3>1. block_q \in Nat /\ block_k \in Nat
      <4>1. 2 * TopPower \in Nat  BY SMT DEF TopPower
      <4> QED  BY <1>2, <4>1, Doubling DEF Powers, Positive
    <3> QED  BY <1>1, <1>3, <3>1, SMT
  <2> QED  BY <1>2, <2>1, <2>2 DEF Powers
<1>5. block_k' \in Powers
  <2>1. block_k \in Nat /\ TopPower \in Nat /\ block_k <= TopPower  BY <1>3, <1>4, Doubling DEF Positive
  <2>2. CASE block_k = TopPower  BY <1>1, <2>2 DEF Powers
  <2>3. CASE block_k < TopPower  BY <1>1, <1>4, <2>3, Doubling DEF Powers
  <2> QED  BY <2>1, <2>2, <2>3, SMT
<1>6. here \in Atlas /\ ~Passed(here) /\ here \in Shapes /\ here[1] = block_q /\ here[2] = block_k
  <2>1. block_q \in Nat /\ block_k \in Nat /\ here \in Shapes
        BY <1>4, Doubling DEF Shapes, Positive
  <2>2. here \in Atlas  BY <1>1, <1>4, AtlasMembers
  <2>3. ~Passed(here)  BY <2>1, SMT DEF Passed
  <2> QED  BY <2>1, <2>2, <2>3
<1>7. Atlas' = Atlas  BY <1>1, AtlasFrame
<1>8. ASSUME NEW shape \in Atlas
      PROVE  Passed(shape)' <=> Passed(shape) \/ shape = here
  <2>1. /\ shape[1] \in PowersOfTwo /\ shape[2] \in PowersOfTwo /\ shape = <<shape[1], shape[2]>>
        BY AtlasMembers
  <2>2. shape[1] \in Nat /\ shape[2] \in Nat /\ block_q \in Nat /\ block_k \in Nat
        BY <1>4, <2>1, Doubling DEF Positive
  <2>3. shape[2] < 2 * block_k => shape[2] <= block_k  BY <1>4, <2>1, Doubling
  <2>4. shape[2] < 2 * block_k <=> shape[2] < block_k \/ shape[2] = block_k
    <3>1. block_k >= 1  BY <1>4, Doubling, SMT DEF Positive
    <3> QED  BY <2>2, <2>3, <3>1, SMT
  <2>5. Passed(shape)' <=> shape[1] < block_q \/ (shape[1] = block_q /\ shape[2] < 2 * block_k)
        BY <1>1 DEF Passed
  <2>6. shape = here <=> shape[1] = block_q /\ shape[2] = block_k  BY <1>6, <2>1
  <2> QED  BY <2>4, <2>5, <2>6 DEF Passed
<1>9. {shape \in Atlas' : Passed(shape)'} = {shape \in Atlas : Passed(shape)} \cup {here}
      BY <1>6, <1>7, <1>8
<1> HIDE DEF here
<1>10. Found(plans', {shape \in Atlas' : Passed(shape)'})
      BY <1>1, <1>2, <1>6, <1>9, FoundOneMore
<1>11. Searching'  BY <1>1, <1>2, <1>5, <1>10 DEF Searching
<1> QED  BY <1>1, <1>11 DEF TilingInv, OpenedAsReported, Asked, Chosen, Launched, Threads

(* A row that is over is passed whole, and nothing of the next one is.     *)
LEMMA NextRowStep ==
  ASSUME TilingInv, NextRow
  PROVE  TilingInv'
<1>1. /\ at = "searching" /\ at' = "searching" /\ block_q <= QCap
      /\ block_k > KCap \/ ~Fits(block_q, block_k)
      /\ block_q' = 2 * block_q /\ block_k' = 1
      /\ UNCHANGED <<device, limits, request, plans>>
      BY DEF NextRow
<1>2. /\ block_q \in Powers /\ Found(plans, {shape \in Atlas : Passed(shape)})
      BY <1>1 DEF TilingInv, Searching
<1>3. QCap \in Nat /\ QCap <= TopPower /\ TopPower \in Nat /\ 2 * TopPower \in Nat
      /\ ~(2 * TopPower <= TopPower)
  <2>1. TopPower \in Nat /\ 2 * TopPower \in Nat /\ ~(2 * TopPower <= TopPower)
        BY SMT DEF TopPower
  <2> QED  BY <1>1, <2>1, SearchBounds, SMT
<1>4. block_q \in PowersOfTwo /\ block_q \in Nat /\ block_q <= TopPower
  <2>1. block_q \in Nat  BY <1>2, <1>3, Doubling DEF Powers, Positive
  <2>2. block_q <= TopPower  BY <1>1, <1>3, <2>1, SMT
  <2> QED  BY <1>2, <1>3, <2>1, <2>2 DEF Powers
<1>5. block_q' \in Powers /\ block_k' \in Powers
  <2>1. CASE block_q = TopPower  BY <1>1, <2>1, Doubling DEF Powers
  <2>2. CASE block_q < TopPower  BY <1>1, <1>4, <2>2, Doubling DEF Powers
  <2> QED  BY <1>3, <1>4, <2>1, <2>2, SMT
<1>6. Atlas' = Atlas  BY <1>1, AtlasFrame
<1>7. ASSUME NEW shape \in Atlas
      PROVE  Passed(shape)' <=> Passed(shape)
  <2>1. shape[1] \in PowersOfTwo /\ shape[2] \in PowersOfTwo  BY AtlasMembers
  <2>2. shape[1] \in Nat /\ shape[2] \in Nat /\ ~(shape[2] < 1)
    <3>1. \A p \in Positive : p \in Nat /\ ~(p < 1)  BY SMT DEF Positive
    <3> QED  BY <2>1, <3>1, Doubling
  <2>3. shape[1] < 2 * block_q => shape[1] <= block_q  BY <1>4, <2>1, Doubling
  <2>4. shape[1] = block_q => shape[2] < block_k  BY <1>1, RowIsOver
  <2>5. block_q >= 1
    <3>1. \A p \in Positive : p >= 1  BY SMT DEF Positive
    <3> QED  BY <1>4, <3>1, Doubling
  <2>6. shape[1] < 2 * block_q <=> shape[1] < block_q \/ shape[1] = block_q
        BY <1>4, <2>2, <2>3, <2>5, SMT
  <2>7. Passed(shape)' <=> shape[1] < 2 * block_q \/ (shape[1] = 2 * block_q /\ shape[2] < 1)
        BY <1>1 DEF Passed
  <2> QED  BY <2>2, <2>4, <2>6, <2>7 DEF Passed
<1>8. {shape \in Atlas' : Passed(shape)'} = {shape \in Atlas : Passed(shape)}
      BY <1>6, <1>7
<1>9. Searching'  BY <1>1, <1>2, <1>5, <1>8 DEF Searching
<1> QED  BY <1>1, <1>9 DEF TilingInv, OpenedAsReported, Asked, Chosen, Launched, Threads

(* Past the last row everything has been passed, and sorting keeps it.     *)
LEMMA SortStep ==
  ASSUME TilingInv, SortPlans
  PROVE  TilingInv'
<1>1. /\ at = "searching" /\ at' = "ranked" /\ block_q > QCap /\ plans' = Ranked
      /\ UNCHANGED <<device, limits, request>>
      BY DEF SortPlans
<1>2. /\ block_q \in Powers /\ Found(plans, {shape \in Atlas : Passed(shape)})
      BY <1>1 DEF TilingInv, Searching
<1>3. Atlas' = Atlas  BY <1>1, AtlasFrame
<1>4. ASSUME NEW shape \in Atlas PROVE Passed(shape)
  <2>1. shape[1] \in PowersOfTwo /\ shape[1] <= QCap  BY AtlasMembers
  <2>2. QCap \in Nat /\ shape[1] \in Nat  BY <1>1, <2>1, SearchBounds, Doubling DEF Positive
  <2>3. block_q \in Nat
    <3>1. 2 * TopPower \in Nat  BY SMT DEF TopPower
    <3> QED  BY <1>2, <3>1, Doubling DEF Powers, Positive
  <2>4. shape[1] < block_q  BY <1>1, <2>1, <2>2, <2>3, SMT
  <2> QED  BY <2>4 DEF Passed
<1>5. {shape \in Atlas : Passed(shape)} = Atlas  BY <1>4
<1>6. /\ plans \in Seq(Shapes) /\ NoRepeats(plans) /\ ToSet(plans) = Atlas
      BY <1>2, <1>5 DEF Found
<1>7. /\ Ranked \in Seq(Shapes) /\ NoRepeats(Ranked) /\ ToSet(Ranked) = Atlas
      BY <1>6, SortingKeepsShapes
<1>8. Found(plans', Atlas')  BY <1>1, <1>3, <1>7 DEF Found
<1>9. Searching'  BY <1>1, <1>8 DEF Searching
<1> QED  BY <1>1, <1>9 DEF TilingInv, OpenedAsReported, Asked, Chosen, Launched, Threads

(* The head of the ranked shapes is one of them.                           *)
LEMMA PlanStep ==
  ASSUME TilingInv, PlanTiles
  PROVE  TilingInv'
<1>1. at = "ranked" /\ UNCHANGED <<device, limits, request, block_q, block_k, plans>>
      BY DEF PlanTiles
<1>2. plans \in Seq(Shapes) /\ ToSet(plans) = Atlas
      BY <1>1 DEF TilingInv, Searching, Found
<1>3. CASE plans = <<>>
  <2>1. at' = "TileSizingError"  BY <1>3 DEF PlanTiles
  <2> QED  BY <1>1, <2>1 DEF TilingInv, OpenedAsReported, Asked, Searching, Chosen, Launched
<1>4. CASE plans # <<>>
  <2>1. at' = "planned" /\ plan' = Head(plans)  BY <1>4 DEF PlanTiles
  <2>2. 1 \in DOMAIN plans /\ Head(plans) = plans[1] /\ Head(plans) \in Shapes
        BY <1>2, <1>4
  <2>3. Head(plans) \in Atlas  BY <1>2, <2>2 DEF ToSet
  <2>4. Fits(Head(plans)[1], Head(plans)[2])  BY <2>3, AtlasMembers
  <2>5. Chosen'
    <3>1. Fits(plan'[1], plan'[2])  BY <2>1, <2>4
    <3>2. Fits(plan[1], plan[2])'  BY <1>1, <3>1 DEF Fits, FitsFor
    <3> QED  BY <2>1, <2>2, <3>2 DEF Chosen
  <2> QED  BY <1>1, <2>1, <2>5 DEF TilingInv, OpenedAsReported, Asked, Searching, Launched, Threads
<1> QED  BY <1>3, <1>4

(* A shape the caller names is held to the same two limits.                *)
LEMMA NamedStep ==
  ASSUME TilingInv, TilePlanFor
  PROVE  TilingInv'
<1>1. at = "open" /\ UNCHANGED <<device, limits, block_q, block_k, plans>>
      BY DEF TilePlanFor
<1>2. PICK shape \in TileShapes, r \in Requests :
        /\ request' = r
        /\ IF {shape[1], shape[2]} \subseteq PowersOfTwo /\ FitsFor(r, shape[1], shape[2])
             THEN at' = "planned" /\ plan' = shape
             ELSE at' \in {"TileSizingError", "ValueError"} /\ UNCHANGED plan
      BY DEF TilePlanFor
<1>3. CASE {shape[1], shape[2]} \subseteq PowersOfTwo /\ FitsFor(r, shape[1], shape[2])
  <2>1. at' = "planned" /\ plan' = shape  BY <1>2, <1>3
  <2>2. shape \in Shapes  BY TilingAssumption DEF Shapes, Positive
  <2>3. Fits(plan[1], plan[2])'  BY <1>1, <1>2, <1>3, <2>1 DEF Fits, FitsFor
  <2> QED  BY <1>1, <1>2, <2>1, <2>2, <2>3
           DEF TilingInv, OpenedAsReported, Asked, Searching, Chosen, Launched, Threads
<1>4. CASE ~({shape[1], shape[2]} \subseteq PowersOfTwo /\ FitsFor(r, shape[1], shape[2]))
  <2>1. at' \in {"TileSizingError", "ValueError"}  BY <1>2, <1>4
  <2> QED  BY <1>1, <2>1 DEF TilingInv, OpenedAsReported, Asked, Searching, Chosen, Launched
<1> QED  BY <1>3, <1>4

(* A launch is made of the chosen shape, after its checks.                 *)
LEMMA LaunchStep ==
  ASSUME TilingInv, AttentionLaunch
  PROVE  TilingInv'
<1>1. at = "planned" /\ UNCHANGED <<device, limits, request, block_q, block_k, plans, plan>>
      BY DEF AttentionLaunch
<1>2. CASE /\ request.dtype_bytes = KERNEL_DTYPE_BYTES
           /\ \A axis \in 1..2 : Groups[axis] <= MAX_GROUPS_PER_AXIS
  <2>1. /\ at' = "launched"
        /\ launch' = [constants |-> Specialized(plan, request.head_dim), groups |-> Groups]
        BY <1>2 DEF AttentionLaunch
  <2>2. Groups[1] <= MAX_GROUPS_PER_AXIS /\ Groups[2] <= MAX_GROUPS_PER_AXIS
    <3>1. 1 \in 1..2 /\ 2 \in 1..2  BY SMT
    <3> QED  BY <1>2, <3>1
  <2>3. Groups' = Groups  BY <1>1 DEF Groups
  <2>4. Launched'  BY <1>1, <1>2, <2>1, <2>2, <2>3 DEF Launched
  <2>5. Chosen'
    <3>1. plan \in Shapes /\ Fits(plan[1], plan[2])  BY <1>1 DEF TilingInv, Chosen
    <3> QED  BY <1>1, <3>1 DEF Chosen, Fits, FitsFor
  <2> QED  BY <1>1, <2>1, <2>4, <2>5 DEF TilingInv, OpenedAsReported, Asked, Searching, Threads
<1>3. CASE ~(/\ request.dtype_bytes = KERNEL_DTYPE_BYTES
             /\ \A axis \in 1..2 : Groups[axis] <= MAX_GROUPS_PER_AXIS)
  <2>1. at' = "ValueError"  BY <1>3 DEF AttentionLaunch
  <2> QED  BY <1>1, <2>1 DEF TilingInv, OpenedAsReported, Asked, Searching, Chosen, Launched
<1> QED  BY <1>2, <1>3

(* A step that changes nothing keeps the invariant.                        *)
LEMMA StutterStep ==
  ASSUME TilingInv, UNCHANGED vars
  PROVE  TilingInv'
<1>1. UNCHANGED <<device, limits, request, block_q, block_k, plans, plan, launch, at>>
      BY DEF vars
<1>2. Atlas' = Atlas  BY <1>1, AtlasFrame
<1>3. \A shape : Passed(shape)' <=> Passed(shape)  BY <1>1 DEF Passed
<1>4. Searching'
  <2>1. {shape \in Atlas' : Passed(shape)'} = {shape \in Atlas : Passed(shape)}
        BY <1>2, <1>3
  <2> QED  BY <1>1, <1>2, <2>1 DEF TilingInv, Searching
<1>5. Chosen'  BY <1>1 DEF TilingInv, Chosen, Fits, FitsFor
<1>6. Launched'  BY <1>1 DEF TilingInv, Launched, Groups
<1> QED  BY <1>1, <1>4, <1>5, <1>6 DEF TilingInv, OpenedAsReported, Asked, Threads

(* The search holds exactly what it should at every step of it, and a      *)
(* launch is of a shape that fits.                                         *)
THEOREM SearchInvariant == Spec => []TilingInv
<1>1. Init => TilingInv  BY TilingInit
<1>2. TilingInv /\ [Next]_vars => TilingInv'
  <2>1. SUFFICES ASSUME TilingInv, [Next]_vars PROVE TilingInv'
        OBVIOUS
  <2>2. CASE TileLimitsOf \/ LimitsRefused  BY <2>1, <2>2, OpeningStep
  <2>3. CASE StartSearch  BY <2>1, <2>3, StartStep
  <2>4. CASE Consider  BY <2>1, <2>4, ConsiderStep
  <2>5. CASE NextRow  BY <2>1, <2>5, NextRowStep
  <2>6. CASE SortPlans  BY <2>1, <2>6, SortStep
  <2>7. CASE PlanTiles  BY <2>1, <2>7, PlanStep
  <2>8. CASE TilePlanFor  BY <2>1, <2>8, NamedStep
  <2>9. CASE AttentionLaunch  BY <2>1, <2>9, LaunchStep
  <2>10. CASE UNCHANGED vars  BY <2>1, <2>10, StutterStep
  <2> QED  BY <2>1, <2>2, <2>3, <2>4, <2>5, <2>6, <2>7, <2>8, <2>9, <2>10 DEF Next, Done
<1> QED  BY <1>1, <1>2, PTL DEF Spec

-----------------------------------------------------------------------------
(* Every shape that fits is listed, once, when the search ends (the loop   *)
(* and its breaks in candidate_plans).                                     *)
THEOREM NothingMissed == Spec => []SearchMissesNothing
<1>1. TilingInv => SearchMissesNothing
  <2>1. SUFFICES ASSUME TilingInv, at = "ranked"
                 PROVE  ToSet(plans) = Atlas /\ Len(plans) = Cardinality(ToSet(plans))
        BY DEF SearchMissesNothing, Atlas
  <2>2. plans \in Seq(Shapes) /\ NoRepeats(plans) /\ ToSet(plans) = Atlas
        BY <2>1 DEF TilingInv, Searching, Found
  <2> QED  BY <2>2, DistinctLength
<1> QED  BY <1>1, SearchInvariant, PTL

(* A block size above the cap taken from a length narrows to one that      *)
(* covers the length in as few tiles.                                      *)
LEMMA NarrowsForNothing ==
  ASSUME limits.max_threads \in Nat, request \in Requests,
         NEW seq \in Positive, seq <= TopPower,
         NEW wide \in PowersOfTwo, wide <= limits.max_threads
  PROVE  \E block \in PowersOfTwo :
           /\ block <= Cap(seq) /\ block <= wide
           /\ CeilDiv(seq, block) <= CeilDiv(seq, wide)
<1>1. wide \in Positive /\ CeilDiv(seq, wide) \in Positive  BY Doubling, TilesCover
<1>2. \A p \in Positive : p \in Nat /\ p >= 1 /\ p <= p  BY SMT DEF Positive
<1>3. CASE wide <= Cap(seq)
  <2>1. wide <= wide /\ CeilDiv(seq, wide) <= CeilDiv(seq, wide)  BY <1>1, <1>2
  <2> QED  BY <1>3, <2>1
<1>4. CASE ~(wide <= Cap(seq))
  <2>1. Cap(seq) \in Nat /\ Cap(seq) = NextPowerOfTwo(seq)  BY <1>4, CapWithinGroup
  <2>2. Cap(seq) \in PowersOfTwo /\ seq <= Cap(seq)
    <3>1. NextPowerOfTwo(seq) \in PowersOfTwo /\ NextPowerOfTwo(seq) >= seq  BY RoundsUp
    <3> QED  BY <1>2, <2>1, <3>1, SMT
  <2>3. Cap(seq) <= wide /\ Cap(seq) <= Cap(seq)  BY <1>1, <1>2, <1>4, <2>1, SMT
  <2>4. CeilDiv(seq, Cap(seq)) = 1  BY <2>2, Doubling, TilesCover
  <2>5. 1 <= CeilDiv(seq, wide)  BY <1>1, <1>2, SMT
  <2> QED  BY <2>2, <2>3, <2>4, <2>5
<1> QED  BY <1>3, <1>4

(* The caps of the search cost no tile and no pass, whatever shape would   *)
(* have been chosen without them (candidate_plans, the lengths it takes).  *)
THEOREM CapsCostNothing == Spec => []CappingCostsNoPass
<1>1. TilingInv => CappingCostsNoPass
  <2> DEFINE all == Legal(BlocksUpto(limits.max_threads), BlocksUpto(limits.max_threads))
             Good(shape, wide) ==
               /\ CeilDiv(request.seq_q, shape[1]) <= CeilDiv(request.seq_q, wide[1])
               /\ CeilDiv(request.seq_k, shape[2]) <= CeilDiv(request.seq_k, wide[2])
               /\ shape[1] <= wide[1] /\ shape[2] <= wide[2]
  <2>1. SUFFICES ASSUME TilingInv, at = "ranked", NEW wide \in all
                 PROVE  \E shape \in Atlas : Good(shape, wide)
    <3>1. TilingInv /\ at = "ranked" => ToSet(plans) = Atlas
          BY DEF TilingInv, Searching, Found
    <3> QED  BY <3>1 DEF CappingCostsNoPass
  <2>2. /\ wide[1] \in PowersOfTwo /\ wide[2] \in PowersOfTwo
        /\ wide[1] <= limits.max_threads /\ wide[2] <= limits.max_threads
        /\ Fits(wide[1], wide[2])
        BY DEF Legal, BlocksUpto
  <2>3. limits.max_threads \in Nat /\ limits.shared \in Nat /\ request \in Requests
        BY <2>1, SearchBounds DEF TilingInv, Asked
  <2>4. /\ request.head_dim \in Positive /\ request.dtype_bytes \in Positive
        /\ request.seq_q \in Positive /\ request.seq_q <= TopPower
        /\ request.seq_k \in Positive /\ request.seq_k <= TopPower
        BY <2>3, RequestTyped
  <2>5. PICK bq \in PowersOfTwo :
          /\ bq <= QCap /\ bq <= wide[1]
          /\ CeilDiv(request.seq_q, bq) <= CeilDiv(request.seq_q, wide[1])
        BY <2>2, <2>3, <2>4, NarrowsForNothing DEF QCap
  <2>6. PICK bk \in PowersOfTwo :
          /\ bk <= KCap /\ bk <= wide[2]
          /\ CeilDiv(request.seq_k, bk) <= CeilDiv(request.seq_k, wide[2])
        BY <2>2, <2>3, <2>4, NarrowsForNothing DEF KCap
  <2>7. Fits(bq, bk)
    <3> DEFINE bytes(a, b) == SharedMemoryBytesFor(a, b, request.head_dim, request.dtype_bytes)
    <3>1. bq \in Positive /\ bk \in Positive /\ wide[1] \in Positive /\ wide[2] \in Positive
          BY <2>2, Doubling
    <3>2. /\ bq * bk \in Nat /\ wide[1] * wide[2] \in Nat /\ bq * bk <= wide[1] * wide[2]
          /\ bytes(bq, bk) \in Nat /\ bytes(wide[1], wide[2]) \in Nat
          /\ bytes(bq, bk) <= bytes(wide[1], wide[2])
          BY <2>4, <2>5, <2>6, <3>1, FootprintGrowsBothWays
    <3>3. wide[1] * wide[2] <= limits.max_threads /\ bytes(wide[1], wide[2]) <= limits.shared
          BY <2>2 DEF Fits, FitsFor
    <3>4. bq * bk <= limits.max_threads /\ bytes(bq, bk) <= limits.shared
      <4> DEFINE small == bq * bk
                 large == wide[1] * wide[2]
      <4> HIDE DEF bytes, small, large
      <4>1. /\ small \in Nat /\ large \in Nat /\ small <= large /\ large <= limits.max_threads
            BY <3>2, <3>3 DEF small, large
      <4>2. small <= limits.max_threads /\ bytes(bq, bk) <= limits.shared
            BY <2>3, <3>2, <3>3, <4>1, SMT
      <4> QED  BY <4>2 DEF small
    <3> QED  BY <3>4 DEF Fits, FitsFor
  <2>8. <<bq, bk>> \in Atlas
        BY <2>5, <2>6, <2>7, AtlasMembers
  <2>9. Good(<<bq, bk>>, wide)  BY <2>5, <2>6
  <2> QED  BY <2>8, <2>9
<1> QED  BY <1>1, SearchInvariant, PTL

(* A launch is legal on the device it was planned for: within each axis    *)
(* and the invocations of a group, within the shared memory, and within    *)
(* the workgroups of an axis (tile_plan_for and attention_launch against   *)
(* the arrays attention.comp declares).                                    *)
THEOREM LaunchIsLegal == Spec => []DispatchIsLegal
<1>1. TilingInv => DispatchIsLegal
  <2>1. SUFFICES ASSUME TilingInv, at = "launched" PROVE DispatchIsLegal
        BY DEF DispatchIsLegal
  <2> DEFINE k == launch.constants
             head_dim == request.head_dim
  <2>2. /\ device \in Devices /\ request \in Requests
        /\ limits = [shared |-> device.shared, max_threads |-> Threads,
                     simd_width |-> SUBGROUP_WIDTH_FALLBACK]
        /\ plan \in Shapes /\ Fits(plan[1], plan[2])
        /\ request.dtype_bytes = 4
        /\ launch = [constants |-> Specialized(plan, head_dim), groups |-> Groups]
        /\ Groups[1] <= MAX_GROUPS_PER_AXIS /\ Groups[2] <= MAX_GROUPS_PER_AXIS
        BY <2>1 DEF TilingInv, OpenedAsReported, Asked, Chosen, Launched, KERNEL_DTYPE_BYTES
  <2>3. /\ plan[1] \in Positive /\ plan[2] \in Positive /\ plan = <<plan[1], plan[2]>>
        BY <2>2 DEF Shapes
  <2>4. /\ device.shared \in Nat /\ device.invocations \in Nat
        /\ device.sizeX \in Nat /\ device.sizeY \in Nat
        /\ Threads \in Nat /\ Threads <= device.invocations
        /\ Threads <= device.sizeX /\ Threads <= device.sizeY
        BY <2>2, ThreadsWithinReport
  <2>5. /\ head_dim \in Positive /\ request.stack \in Positive /\ request.seq_q \in Positive
        BY <2>2, RequestTyped
  <2>6. /\ k = Specialized(plan, head_dim) /\ k.local_size_x = plan[2] /\ k.local_size_y = plan[1]
        /\ launch.groups = Groups
        BY <2>2 DEF Specialized
  <2>7. /\ plan[1] * plan[2] <= Threads
        /\ SharedMemoryBytesFor(plan[1], plan[2], head_dim, 4) <= device.shared
        BY <2>2 DEF Fits, FitsFor
  <2>8. SharedBytesDeclared(k) <= device.shared
    <3>1. SharedBytesDeclared(Specialized(<<plan[1], plan[2]>>, head_dim))
            = SharedMemoryBytesFor(plan[1], plan[2], head_dim, 4)
          BY <2>3, <2>5, PricedAsDeclared
    <3> QED  BY <2>3, <2>6, <2>7, <3>1
  <2>9. /\ k.local_size_x <= device.sizeX /\ k.local_size_y <= device.sizeY
        /\ k.local_size_x * k.local_size_y <= device.invocations
    <3> DEFINE bq == plan[1]
               bk == plan[2]
               area == bq * bk
    <3>1. bq \in Nat /\ bk \in Nat /\ 1 \in Nat /\ 1 <= bq /\ 1 <= bk
          BY <2>3, SMT DEF Positive
    <3>2. 1 * bk <= bq * bk /\ 1 * bq <= bk * bq  BY <3>1, ProductGrows
    <3>3. bk * bq = area /\ 1 * bk = bk /\ 1 * bq = bq /\ area \in Nat
          BY <3>1, ProductGrows, SMT
    <3>4. area <= Threads  BY <2>7
    <3> HIDE DEF bq, bk, area
    <3>5. bk <= area /\ bq <= area  BY <3>2, <3>3 DEF area
    <3>6. bk <= device.sizeX /\ bq <= device.sizeY /\ area <= device.invocations
          BY <2>4, <3>1, <3>3, <3>4, <3>5, SMT
    <3>7. k.local_size_x = bk /\ k.local_size_y = bq  BY <2>6 DEF bq, bk
    <3> QED  BY <3>3, <3>6, <3>7
  <2>10. \A axis \in 1..2 : launch.groups[axis] \in 1..MAX_GROUPS_PER_AXIS
    <3>1. Groups[1] = CeilDiv(request.seq_q, plan[1]) /\ Groups[2] = request.stack
          BY DEF Groups
    <3>2. Groups[1] \in Positive /\ Groups[2] \in Positive
          BY <2>3, <2>5, <3>1, TilesCover
    <3>3. \A p \in Positive : p <= MAX_GROUPS_PER_AXIS => p \in 1..MAX_GROUPS_PER_AXIS
      <4>1. \A m \in Nat : \A p \in Nat \ {0} : p <= m => p \in 1..m  BY SMT
      <4>2. MAX_GROUPS_PER_AXIS \in Nat  BY SMT DEF MAX_GROUPS_PER_AXIS
      <4> QED  BY <4>1, <4>2 DEF Positive
    <3>4. \A axis \in 1..2 : axis = 1 \/ axis = 2  BY SMT
    <3> QED  BY <2>2, <2>6, <3>2, <3>3, <3>4
  <2> QED  BY <2>1, <2>8, <2>9, <2>10 DEF DispatchIsLegal
<1> QED  BY <1>1, SearchInvariant, PTL

-----------------------------------------------------------------------------
(* Every element of the output is written once: the workgroups cover the   *)
(* query rows and none is idle, and the lanes of a row share its columns   *)
(* out (attention_launch and the store loops of attention.comp).           *)
THEOREM OutputsWrittenOnce == Spec => []EveryOutputOnce
<1>1. TilingInv => EveryOutputOnce
  <2>1. SUFFICES ASSUME TilingInv, at = "launched" PROVE EveryOutputOnce
        BY DEF EveryOutputOnce
  <2> DEFINE k == launch.constants
             head_dim == request.head_dim
             lanes == 0..(k.local_size_x - 1)
             owned == UNION {{lane} \X OwnedColumns(k, lane) : lane \in lanes}
             columns == 0..(head_dim - 1)
  <2>2. /\ request \in Requests /\ plan \in Shapes
        /\ launch = [constants |-> Specialized(plan, head_dim), groups |-> Groups]
        BY <2>1 DEF TilingInv, Asked, Chosen, Launched
  <2>3. /\ k = Specialized(plan, head_dim) /\ k.local_size_x = plan[2] /\ k.BLOCK_Q = plan[1]
        /\ k.HEAD_DIM = head_dim /\ launch.groups[1] = CeilDiv(request.seq_q, plan[1])
        BY <2>2 DEF Specialized, Groups
  <2>4. /\ plan[1] \in Positive /\ plan[2] \in Positive
        /\ head_dim \in Positive /\ request.seq_q \in Positive
        BY <2>2, RequestTyped DEF Shapes
  <2>5. /\ (launch.groups[1] - 1) * k.BLOCK_Q < request.seq_q
        /\ request.seq_q <= launch.groups[1] * k.BLOCK_Q
        BY <2>3, <2>4, TilesCover
  <2>6. /\ \A lane \in lanes : OwnedColumns(k, lane) \subseteq columns
        /\ \A x \in columns : \E lane \in lanes : x \in OwnedColumns(k, lane)
        /\ \A lane, lane2 \in lanes : \A x :
             x \in OwnedColumns(k, lane) /\ x \in OwnedColumns(k, lane2) => lane = lane2
        BY <2>2, <2>3, <2>4, EachColumnOnce
  <2>7. \A o : o \in owned <=>
          \E lane \in lanes : \E x \in OwnedColumns(k, lane) : o = <<lane, x>>
        OBVIOUS
  <2> HIDE DEF owned, lanes, k
  <2>8. {o[2] : o \in owned} = columns
    <3>1. ASSUME NEW o \in owned PROVE o[2] \in columns
          BY <2>6, <2>7
    <3>2. ASSUME NEW x \in columns PROVE \E o \in owned : o[2] = x
      <4>1. PICK lane \in lanes : x \in OwnedColumns(k, lane)  BY <2>6
      <4>2. <<lane, x>> \in owned  BY <2>7, <4>1
      <4> QED  BY <4>2
    <3> QED  BY <3>1, <3>2
  <2>9. Cardinality(owned) = head_dim
    <3> DEFINE lane_of(x) == CHOOSE lane \in lanes : x \in OwnedColumns(k, lane)
               f == [x \in columns |-> <<lane_of(x), x>>]
    <3>1. \A x \in columns : lane_of(x) \in lanes /\ x \in OwnedColumns(k, lane_of(x))
          BY <2>6
    <3>2. \A x \in columns : f[x] = <<lane_of(x), x>> /\ f[x] \in owned
          BY <2>7, <3>1
    <3>3. f \in [columns -> owned]  BY <3>2
    <3>4. ASSUME NEW o \in owned PROVE \E x \in columns : f[x] = o
      <4>1. PICK lane, x : lane \in lanes /\ x \in OwnedColumns(k, lane) /\ o = <<lane, x>>  BY <2>7
      <4>2. x \in columns  BY <2>6, <4>1
      <4>3. lane_of(x) = lane  BY <2>6, <3>1, <4>1, <4>2
      <4> QED  BY <3>2, <4>1, <4>2, <4>3
    <3>5. \A x, y \in columns : f[x] = f[y] => x = y  BY <3>2
    <3> HIDE DEF f
    <3>6. f \in Bijection(columns, owned)
          BY <3>3, <3>4, <3>5 DEF Bijection, Injection, Surjection, IsInjective
    <3>7. ExistsBijection(columns, owned)  BY <3>6 DEF ExistsBijection
    <3>8. IsFiniteSet(columns) /\ Cardinality(columns) = head_dim
      <4>1. head_dim \in Nat /\ head_dim > 0  BY <2>4, SMT DEF Positive
      <4> HIDE DEF head_dim
      <4>2. 0 \in Int /\ head_dim - 1 \in Int  BY <4>1, SMT
      <4>3. /\ IsFiniteSet(columns)
            /\ Cardinality(columns) = IF 0 > head_dim - 1 THEN 0 ELSE head_dim - 1 - 0 + 1
            BY <4>2, FS_Interval
      <4> QED  BY <4>1, <4>3, SMT
    <3> HIDE DEF columns
    <3> QED  BY <3>7, <3>8, FS_Bijection
  <2> QED  BY <2>1, <2>3, <2>5, <2>8, <2>9 DEF EveryOutputOnce, owned, lanes, k
<1> QED  BY <1>1, SearchInvariant, PTL
===============================================================================
