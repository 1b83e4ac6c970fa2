---------------------------- MODULE Blocked_proofs ----------------------------
(***************************************************************************)
(* Theorems about the blocked algorithm, for every tile plan, sequence     *)
(* length, mask and row of scores: it computes the softmax of the row.     *)
(***************************************************************************)
EXTENDS Blocked, FiniteSetTheorems, WellFoundedInduction, TLAPS

Number == Int \cup {NegInf, NaN}

(* A non-empty finite set of integers has a largest element: one with a    *)
(* smallest set of elements above it.                                      *)
LEMMA MaxExists ==
  ASSUME NEW S \in SUBSET Int, IsFiniteSet(S), S # {}
  PROVE  \E x \in S : \A y \in S : x >= y
<1> DEFINE Above(x) == {y \in S : y > x}
           upper == {Above(x) : x \in S}
<1>1. upper \subseteq FiniteSubsetsOf(S) /\ upper # {}
  <2>1. \A x \in S : Above(x) \in SUBSET S
    OBVIOUS
  <2>2. \A T \in SUBSET S : IsFiniteSet(T)
    BY FS_Subset
  <2> QED BY <2>1, <2>2 DEF FiniteSubsetsOf
<1>2. PICK U \in upper : \A T \in upper : ~ (<<T, U>> \in StrictSubsetOrdering(S))
  <2> HIDE DEF upper
  <2> QED BY <1>1, FS_StrictSubsetOrderingWellFounded, WFMin
<1>3. PICK x \in S : U = Above(x)
  BY <1>2
<1>4. ASSUME NEW y \in S, y > x PROVE FALSE
  <2>1. Above(y) \subseteq Above(x) /\ y \in Above(x) /\ y \notin Above(y)
    <3>1. y \in Int /\ x \in Int
      OBVIOUS
    <3>2. ASSUME NEW z \in S, z > y PROVE z > x
      <4>1. z \in Int
        OBVIOUS
      <4> QED BY <1>4, <3>1, <3>2, <4>1
    <3>3. ~(y > y)
      BY <3>1
    <3> QED BY <1>4, <3>2, <3>3
  <2>2. Above(y) \in upper /\ Above(y) \in SUBSET S /\ Above(x) \in SUBSET S
    OBVIOUS
  <2> HIDE DEF Above, upper
  <2>3. <<Above(y), U>> \in StrictSubsetOrdering(S)
    BY <1>3, <2>1, <2>2 DEF StrictSubsetOrdering
  <2> QED BY <1>2, <2>2, <2>3
<1> QED BY <1>4

(* The largest score of a finite set is in it, unless nothing there is a   *)
(* number.                                                                 *)
LEMMA LargestIs ==
  ASSUME NEW S \in SUBSET Number, IsFiniteSet(S)
  PROVE  \/ S \ {NegInf, NaN} = {} /\ Largest(S) = NegInf
         \/ /\ Largest(S) \in S \ {NegInf, NaN} /\ Largest(S) \in Int
            /\ \A y \in S \ {NegInf, NaN} : Largest(S) >= y
<1> DEFINE T == S \ {NegInf, NaN}
<1>1. T \in SUBSET Int /\ IsFiniteSet(T)
  <2>1. T \in SUBSET S
    OBVIOUS
  <2>2. IsFiniteSet(T)
    BY <2>1, FS_Subset
  <2> QED BY <2>2 DEF Number
<1>2. CASE T = {}
  BY <1>2 DEF Largest
<1>3. CASE T # {}
  <2>1. Largest(S) = CHOOSE x \in T : \A y \in T : x >= y
    BY <1>3 DEF Largest, Max
  <2>2. \E x \in T : \A y \in T : x >= y
    BY <1>1, <1>3, MaxExists
  <2> QED BY <1>1, <2>1, <2>2
<1> QED BY <1>2, <1>3

-----------------------------------------------------------------------------
(* A key counts in a row if the row may attend to it and its score has not *)
(* overflowed.                                                             *)
Counts(row, key) == Allowed(row, key) /\ scores[row][key] # NegInf

(* What the t-th term of a row is once k_start keys are read: the key that *)
(* stands there, under the shift of the row.                               *)
Exponent(row, key) ==
  IF Counts(row, key) THEN Flushed(scores[row][key] - running_max[row]) ELSE NegInf

Terms(row) ==
  [t \in 1..k_start |-> <<IF t - 1 < SeqK THEN t - 1 ELSE Pad, Exponent(row, t - 1)>>]

(* The shift of a row is the largest score it has read, or the zero kept   *)
(* since nothing counted in the first tile.                                *)
Attained(row) == \E key \in 0..(k_start - 1) : Counts(row, key) /\ scores[row][key] = running_max[row]

LateStart(row) == running_max[row] = 0 /\ \A key \in Lanes : ~Counts(row, key)

ShiftIsRight(row) ==
  /\ running_max[row] \in Int
  /\ \A key \in 0..(k_start - 1) : Counts(row, key) => scores[row][key] <= running_max[row]
  /\ Attained(row) \/ LateStart(row)

BlockedTyped ==
  /\ scores \in [Rows -> ScoreRows] /\ causal \in BOOLEAN
  /\ q_start \in Nat /\ k_start \in Nat
  /\ DOMAIN running_max = Rows

StreamInv ==
  /\ BlockedTyped
  /\ running_sum = [row \in Rows |-> Terms(row)]
  /\ acc = [row \in Rows |-> [col \in Columns |-> Terms(row)]]
  /\ k_start = 0 => \A row \in Rows : running_max[row] = NegInf
  /\ k_start # 0 => k_start >= BlockK /\ \A row \in Rows : ShiftIsRight(row)

Complete ==
  out # <<>> =>
    /\ k_start >= SeqK \/ BeyondDiagonal
    /\ out = [row \in {row \in Rows : QValid(row)} |->
                [col \in Columns |-> Divided(acc[row][col], running_sum[row])]]

-----------------------------------------------------------------------------
(* Before the first tile.                                                  *)
LEMMA StreamInit == Init => StreamInv /\ Complete
<1> SUFFICES ASSUME Init PROVE StreamInv /\ Complete
  OBVIOUS
<1>1. BlockedTyped /\ k_start = 0 /\ out = <<>>
  BY BlockedAssumption DEF Init, BlockedTyped
<1>2. \A row \in Rows : running_max[row] = NegInf
  BY DEF Init
<1>3. ASSUME NEW row PROVE Terms(row) = <<>>
  <2>1. 1..k_start = {}
    BY <1>1
  <2> QED BY <2>1 DEF Terms
<1>4. /\ running_sum = [row \in Rows |-> Terms(row)]
      /\ acc = [row \in Rows |-> [col \in Columns |-> Terms(row)]]
  BY <1>3 DEF Init
<1> QED BY <1>1, <1>2, <1>4 DEF StreamInv, Complete

(* The scores of a tile, as far as they count.                             *)
LEMMA TileScores ==
  ASSUME BlockedTyped, NEW row \in Rows, NEW lane \in Lanes
  PROVE  /\ k_start + lane \in Nat
         /\ Counts(row, k_start + lane) =>
              Score(row, lane) = scores[row][k_start + lane] /\ Score(row, lane) \in Int
         /\ ~Counts(row, k_start + lane) => Score(row, lane) = NegInf
<1>1. k_start + lane \in Nat
  BY BlockedAssumption DEF BlockedTyped, Lanes
<1>2. ASSUME Allowed(row, k_start + lane) PROVE scores[row][k_start + lane] \in Int \cup {NegInf}
  <2>1. k_start + lane \in Keys
    BY <1>1, <1>2, BlockedAssumption DEF Allowed, Keys
  <2> QED BY <2>1, ScoreAssumption DEF BlockedTyped
<1> QED BY <1>1, <1>2 DEF Counts, Score

(* The new maximum of a row: a number that no score of the row so far      *)
(* exceeds, and that one of them is, unless nothing has counted.           *)
LEMMA NewShift ==
  ASSUME BlockedTyped, NEW row \in Rows, running_max[row] \in Int \cup {NegInf}
  PROVE  /\ NewMax(row) \in Int
         /\ \A lane \in Lanes : Score(row, lane) \in Int => Score(row, lane) <= NewMax(row)
         /\ running_max[row] \in Int => running_max[row] <= NewMax(row)
         /\ \/ NewMax(row) = running_max[row]
            \/ \E lane \in Lanes : Score(row, lane) = NewMax(row)
            \/ /\ NewMax(row) = 0 /\ running_max[row] = NegInf
               /\ \A lane \in Lanes : Score(row, lane) = NegInf
<1> DEFINE tile == {Score(row, lane) : lane \in Lanes}
           all == {running_max[row]} \cup tile
<1>1. IsFiniteSet(tile)
  <2> DEFINE f == [lane \in Lanes |-> Score(row, lane)]
  <2>1. IsFiniteSet(Lanes)
    BY FS_Interval, BlockedAssumption DEF Lanes
  <2>2. f \in Surjection(Lanes, tile)
    BY DEF Surjection
  <2> HIDE DEF f, tile
  <2> QED BY <2>1, <2>2, FS_Surjection
<1>2. IsFiniteSet(all)
  BY <1>1, FS_Singleton, FS_Union
<1>3. \A lane \in Lanes : Score(row, lane) \in Int \cup {NegInf}
  BY TileScores
<1>4. all \in SUBSET Number
  BY <1>3 DEF Number
<1>5. NegInf \notin Int /\ NaN \notin Int /\ NegInf # NaN
  BY SoftmaxAssumption
<1>6. \/ all \ {NegInf, NaN} = {} /\ Largest(all) = NegInf
      \/ /\ Largest(all) \in all \ {NegInf, NaN} /\ Largest(all) \in Int
         /\ \A y \in all \ {NegInf, NaN} : Largest(all) >= y
  <2> HIDE DEF all
  <2> QED BY <1>2, <1>4, LargestIs
<1>7. NewMax(row) = IF Largest(all) = NegInf THEN 0 ELSE Largest(all)
  BY DEF NewMax
<1>8. CASE all \ {NegInf, NaN} = {} /\ Largest(all) = NegInf
  <2>1. running_max[row] = NegInf
    BY <1>5, <1>8
  <2>2. \A lane \in Lanes : Score(row, lane) = NegInf
    <3> SUFFICES ASSUME NEW lane \in Lanes PROVE Score(row, lane) = NegInf
      OBVIOUS
    <3>1. Score(row, lane) \in all
      OBVIOUS
    <3> HIDE DEF all
    <3> QED BY <1>3, <1>5, <1>8, <3>1
  <2> QED BY <1>5, <1>7, <1>8, <2>1, <2>2
<1>9. CASE /\ Largest(all) \in all \ {NegInf, NaN} /\ Largest(all) \in Int
           /\ \A y \in all \ {NegInf, NaN} : Largest(all) >= y
  <2>1. NewMax(row) = Largest(all) /\ NewMax(row) \in Int
    BY <1>5, <1>7, <1>9
  <2>2. ASSUME NEW y \in all, y \in Int PROVE y <= NewMax(row)
    <3>1. y \notin {NegInf, NaN}
      BY <1>5, <2>2
    <3> HIDE DEF all
    <3> QED BY <1>9, <2>1, <2>2, <3>1
  <2>3. NewMax(row) = running_max[row] \/ \E lane \in Lanes : Score(row, lane) = NewMax(row)
    BY <1>9, <2>1
  <2> QED BY <2>1, <2>2, <2>3
<1> QED BY <1>6, <1>8, <1>9

(* Rescaling what was shifted by the old maximum shifts it by the new one: *)
(* what has underflowed is as far from any larger maximum.                 *)
LEMMA RescalingShifts ==
  ASSUME NEW s \in Int, NEW m \in Int, NEW n \in Int, s <= m, m <= n
  PROVE  /\ Times(Flushed(s - m), Minus(m, n)) = Flushed(s - n)
         /\ Times(NegInf, Minus(m, n)) = NegInf
         /\ Flushed(s - n) # NaN /\ (Flushed(s - n) = NegInf <=> s - n < -Underflow)
<1>1. Underflow \in Nat /\ NegInf \notin Int /\ NaN \notin Int /\ NegInf # NaN
  BY SoftmaxAssumption
<1>2. Minus(m, n) = Flushed(m - n)
  BY <1>1 DEF Minus
<1>3. Flushed(s - m) = IF s - m < -Underflow THEN NegInf ELSE s - m
  BY DEF Flushed
<1>4. Flushed(m - n) = IF m - n < -Underflow THEN NegInf ELSE m - n
  BY DEF Flushed
<1>5. Flushed(s - n) = IF s - n < -Underflow THEN NegInf ELSE s - n
  BY DEF Flushed
<1>6. CASE s - m < -Underflow
  BY <1>1, <1>2, <1>3, <1>4, <1>5, <1>6 DEF Times
<1>7. CASE ~(s - m < -Underflow) /\ m - n < -Underflow
  BY <1>1, <1>2, <1>3, <1>4, <1>5, <1>7 DEF Times
<1>8. CASE ~(s - m < -Underflow) /\ ~(m - n < -Underflow)
  <2>1. Times(s - m, m - n) = Flushed((s - m) + (m - n))
    BY <1>1 DEF Times
  <2>2. (s - m) + (m - n) = s - n
    OBVIOUS
  <2> QED BY <1>1, <1>2, <1>3, <1>4, <1>5, <1>8, <2>1, <2>2 DEF Times
<1> QED BY <1>6, <1>7, <1>8

(* What counts does not depend on how far the row has been read.           *)
LEMMA CountsKept ==
  ASSUME UNCHANGED <<scores, causal, q_start>>
  PROVE  \A row, key : Counts(row, key)' <=> Counts(row, key)
  BY DEF Counts, Allowed, QValid

(* The shift of a row is right again after a tile.                         *)
LEMMA ShiftStaysRight ==
  ASSUME StreamInv, AttendTile, NEW row \in Rows
  PROVE  ShiftIsRight(row)'
<1>1. /\ BlockedTyped /\ k_start' = k_start + BlockK /\ running_max'[row] = NewMax(row)
      /\ UNCHANGED <<scores, causal, q_start>> /\ k_start \in Nat /\ BlockK \in Nat \ {0}
  BY BlockedAssumption DEF StreamInv, AttendTile, BlockedTyped
<1>2. running_max[row] \in Int \cup {NegInf}
  BY DEF StreamInv, ShiftIsRight
<1>3. PICK n \in Int : n = NewMax(row) /\ n = running_max'[row]
  BY <1>1, <1>2, NewShift
<1>4. /\ \A lane \in Lanes : Score(row, lane) \in Int => Score(row, lane) <= n
      /\ running_max[row] \in Int => running_max[row] <= n
      /\ \/ n = running_max[row]
         \/ \E lane \in Lanes : Score(row, lane) = n
         \/ /\ n = 0 /\ running_max[row] = NegInf
            /\ \A lane \in Lanes : Score(row, lane) = NegInf
  BY <1>1, <1>2, <1>3, NewShift
<1>5. \A key : Counts(row, key)' <=> Counts(row, key)
  BY <1>1, CountsKept
<1>6. NegInf \notin Int
  BY SoftmaxAssumption
<1>7. ASSUME NEW key \in 0..(k_start + BlockK - 1), Counts(row, key)
      PROVE  scores[row][key] <= n
  <2>1. CASE key < k_start
    <3>1. key \in 0..(k_start - 1) /\ k_start # 0
      BY <1>1, <2>1
    <3>2. ShiftIsRight(row)
      BY <3>1 DEF StreamInv
    <3>3. scores[row][key] <= running_max[row] /\ running_max[row] \in Int
      BY <1>7, <3>1, <3>2 DEF ShiftIsRight
    <3>4. scores[row][key] \in Int
      <4>1. key \in Keys
        BY <1>1, <1>7, BlockedAssumption DEF Counts, Allowed, Keys
      <4> QED BY <1>1, <1>7, <4>1, ScoreAssumption DEF Counts, BlockedTyped
    <3> QED BY <1>4, <3>3, <3>4
  <2>2. CASE ~(key < k_start)
    <3>1. PICK lane \in Lanes : key = k_start + lane
      <4>1. key - k_start \in Lanes /\ key = k_start + (key - k_start)
        BY <1>1, <2>2 DEF Lanes
      <4> QED BY <4>1
    <3>2. Score(row, lane) = scores[row][key] /\ Score(row, lane) \in Int
      BY <1>1, <1>7, <3>1, TileScores
    <3> QED BY <1>4, <3>2
  <2> QED BY <2>1, <2>2
<1>8. \/ \E key \in 0..(k_start + BlockK - 1) : Counts(row, key) /\ scores[row][key] = n
      \/ n = 0 /\ \A key \in Lanes : ~Counts(row, key)
  <2>1. CASE n = running_max[row]
    <3>1. k_start # 0
      BY <1>6, <2>1 DEF StreamInv
    <3>2. ShiftIsRight(row)
      BY <3>1 DEF StreamInv
    <3>3. CASE Attained(row)
      <4>1. PICK key \in 0..(k_start - 1) : Counts(row, key) /\ scores[row][key] = n
        BY <2>1, <3>3 DEF Attained
      <4>2. key \in 0..(k_start + BlockK - 1)
        BY <1>1
      <4> QED BY <4>1, <4>2
    <3>4. CASE LateStart(row)
      BY <2>1, <3>4 DEF LateStart
    <3> QED BY <3>2, <3>3, <3>4 DEF ShiftIsRight
  <2>2. ASSUME NEW lane \in Lanes, Score(row, lane) = n
        PROVE  \E key \in 0..(k_start + BlockK - 1) : Counts(row, key) /\ scores[row][key] = n
    <3>1. Counts(row, k_start + lane) /\ scores[row][k_start + lane] = n
      BY <1>1, <1>6, <2>2, TileScores
    <3>2. k_start + lane \in 0..(k_start + BlockK - 1)
      BY <1>1 DEF Lanes
    <3> QED BY <3>1, <3>2
  <2>3. CASE /\ n = 0 /\ running_max[row] = NegInf
             /\ \A lane \in Lanes : Score(row, lane) = NegInf
    <3>1. k_start = 0
      BY <1>6, <2>3 DEF StreamInv, ShiftIsRight
    <3>2. \A lane \in Lanes : ~Counts(row, lane)
      <4> SUFFICES ASSUME NEW lane \in Lanes, Counts(row, lane) PROVE FALSE
        OBVIOUS
      <4>1. k_start + lane = lane
        BY <3>1 DEF Lanes
      <4> QED BY <1>1, <1>6, <2>3, <4>1, TileScores
    <3> QED BY <2>3, <3>2
  <2> QED BY <1>4, <2>1, <2>2, <2>3
<1>9. (\A key \in 0..(k_start - 1) : Counts(row, key) => scores[row][key] <= running_max[row])'
  BY <1>1, <1>3, <1>5, <1>7
<1>10. Attained(row)' \/ LateStart(row)'
  BY <1>1, <1>3, <1>5, <1>8 DEF Attained, LateStart
<1> QED BY <1>1, <1>3, <1>9, <1>10 DEF ShiftIsRight

(* A tile adds one term for each of its keys, and brings the ones before   *)
(* under the new shift.                                                    *)
LEMMA TileAddsTerms ==
  ASSUME StreamInv, AttendTile, NEW row \in Rows
  PROVE  Rescaled(Terms(row), Rescale(row)) \o Weights(row) = Terms(row)'
<1>1. /\ BlockedTyped /\ k_start' = k_start + BlockK /\ running_max'[row] = NewMax(row)
      /\ UNCHANGED <<scores, causal, q_start>> /\ k_start \in Nat /\ BlockK \in Nat \ {0}
  BY BlockedAssumption DEF StreamInv, AttendTile, BlockedTyped
<1>2. running_max[row] \in Int \cup {NegInf}
  BY DEF StreamInv, ShiftIsRight
<1>3. PICK n \in Int : n = NewMax(row) /\ n = running_max'[row]
  BY <1>1, <1>2, NewShift
<1>4. \A key : Counts(row, key)' <=> Counts(row, key)
  BY <1>1, CountsKept
<1>5. NegInf \notin Int /\ NaN \notin Int /\ NegInf # NaN
  BY SoftmaxAssumption
<1> DEFINE Key(t) == IF t - 1 < SeqK THEN t - 1 ELSE Pad
           After(t) == <<Key(t), IF Counts(row, t - 1) THEN Flushed(scores[row][t - 1] - n) ELSE NegInf>>
<1>6. Terms(row)' = [t \in 1..(k_start + BlockK) |-> After(t)]
  BY <1>1, <1>3, <1>4 DEF Terms, Exponent, Flushed
<1>7. ASSUME NEW t \in 1..k_start
      PROVE  Rescaled(Terms(row), Rescale(row))[t] = After(t)
  <2>1. t - 1 \in 0..(k_start - 1) /\ k_start # 0
    BY <1>1
  <2>2. ShiftIsRight(row) /\ running_max[row] \in Int
    BY <2>1 DEF StreamInv, ShiftIsRight
  <2>3. PICK m \in Int : m = running_max[row]
    BY <2>2
  <2>4. m <= n /\ Rescale(row) = Minus(m, n)
    BY <1>1, <1>2, <1>3, <2>3, NewShift DEF Rescale
  <2>5. Rescaled(Terms(row), Rescale(row))[t] = <<Key(t), Times(Exponent(row, t - 1), Minus(m, n))>>
    BY <2>4 DEF Rescaled, Terms
  <2>6. CASE Counts(row, t - 1)
    <3>1. t - 1 \in Keys
      BY <1>1, <2>6, BlockedAssumption DEF Counts, Allowed, Keys
    <3>2. scores[row][t - 1] \in Int
      BY <1>1, <2>6, <3>1, ScoreAssumption DEF Counts, BlockedTyped
    <3>3. PICK s \in Int : s = scores[row][t - 1]
      BY <3>2
    <3>4. s <= m
      BY <2>1, <2>2, <2>3, <2>6, <3>3 DEF ShiftIsRight
    <3>5. Times(Flushed(s - m), Minus(m, n)) = Flushed(s - n)
      BY <2>4, <3>4, RescalingShifts
    <3> QED BY <2>3, <2>5, <2>6, <3>3, <3>5 DEF Exponent
  <2>7. CASE ~Counts(row, t - 1)
    <3>1. Times(NegInf, Minus(m, n)) = NegInf
      <4>1. m <= m
        OBVIOUS
      <4> QED BY <2>4, <4>1, RescalingShifts
    <3> QED BY <2>5, <2>7, <3>1 DEF Exponent
  <2> QED BY <2>6, <2>7
<1>8. ASSUME NEW j \in 1..BlockK
      PROVE  Weights(row)[j] = After(k_start + j)
  <2>1. PICK lane \in Lanes : lane = j - 1 /\ k_start + lane = k_start + j - 1
    <3>1. j - 1 \in Lanes /\ k_start + (j - 1) = k_start + j - 1
      BY <1>1 DEF Lanes
    <3> QED BY <3>1
  <2>2. Weights(row)[j] = <<ValueRow(lane), Minus(Score(row, lane), n)>>
    BY <1>3, <2>1 DEF Weights
  <2>3. PICK key \in Nat : key = k_start + lane /\ key = (k_start + j) - 1
    BY <1>1, <2>1, TileScores
  <2>6. ValueRow(lane) = Key(k_start + j)
    BY <2>3 DEF ValueRow
  <2>4. CASE Counts(row, k_start + lane)
    <3>1. Score(row, lane) = scores[row][k_start + lane] /\ Score(row, lane) \in Int
      BY <1>1, <2>4, TileScores
    <3>2. Minus(Score(row, lane), n) = Flushed(Score(row, lane) - n)
      BY <1>5, <3>1 DEF Minus
    <3> QED BY <2>2, <2>3, <2>4, <2>6, <3>1, <3>2
  <2>5. CASE ~Counts(row, k_start + lane)
    <3>1. Score(row, lane) = NegInf
      BY <1>1, <2>5, TileScores
    <3>2. Minus(Score(row, lane), n) = NegInf
      BY <1>5, <3>1 DEF Minus
    <3> QED BY <2>2, <2>3, <2>5, <2>6, <3>2
  <2> QED BY <2>4, <2>5
<1> DEFINE old == Rescaled(Terms(row), Rescale(row))
           new == Weights(row)
<1>9. /\ old = [t \in 1..k_start |-> After(t)]
      /\ new = [j \in 1..BlockK |-> After(k_start + j)]
  <2>1. old = [t \in 1..k_start |-> old[t]]
    BY DEF Rescaled, Terms
  <2>2. new = [j \in 1..BlockK |-> new[j]]
    BY DEF Weights
  <2> HIDE DEF After, old, new
  <2> QED BY <1>7, <1>8, <2>1, <2>2 DEF old, new
<1>10. old \o new = [t \in 1..(k_start + BlockK) |-> After(t)]
  <2> HIDE DEF old, new, After
  <2>1. Len(old) = k_start /\ Len(new) = BlockK /\ old \in Seq({After(t) : t \in Nat}) /\ new \in Seq({After(t) : t \in Nat})
    BY <1>1, <1>9
  <2> QED BY <1>1, <1>9, <2>1
<1> QED BY <1>6, <1>10

(* Steps that leave a row alone leave its terms and its shift alone.       *)
LEMMA RowKept ==
  ASSUME UNCHANGED <<scores, causal, q_start, k_start, running_max>>, NEW row
  PROVE  /\ Terms(row)' = Terms(row)
         /\ ShiftIsRight(row)' <=> ShiftIsRight(row)
<1>1. \A key : Counts(row, key)' <=> Counts(row, key)
  BY CountsKept
<1>2. Terms(row)' = Terms(row)
  BY <1>1 DEF Terms, Exponent, Flushed
<1>3. ShiftIsRight(row)' <=> ShiftIsRight(row)
  BY <1>1 DEF ShiftIsRight, Attained, LateStart
<1> QED BY <1>2, <1>3

(* Streaming the keys keeps the state of every row right.                  *)
LEMMA StreamStep == StreamInv /\ Complete /\ [Next]_vars => StreamInv' /\ Complete'
<1> SUFFICES ASSUME StreamInv, Complete, [Next]_vars PROVE StreamInv' /\ Complete'
  OBVIOUS
<1>1. CASE AttendTile
  <2>1. /\ k_start' = k_start + BlockK /\ k_start \in Nat /\ BlockK \in Nat \ {0}
        /\ UNCHANGED <<scores, causal, q_start, out>> /\ out = <<>>
        /\ running_max' = [row \in Rows |-> NewMax(row)]
    BY <1>1, BlockedAssumption DEF StreamInv, AttendTile, BlockedTyped
  <2>2. BlockedTyped'
    BY <2>1 DEF StreamInv, BlockedTyped
  <2>3. ASSUME NEW row \in Rows
        PROVE  /\ running_sum'[row] = Terms(row)' /\ ShiftIsRight(row)'
               /\ \A col \in Columns : acc'[row][col] = Terms(row)'
    <3>1. running_sum[row] = Terms(row) /\ \A col \in Columns : acc[row][col] = Terms(row)
      BY DEF StreamInv
    <3>2. Rescaled(Terms(row), Rescale(row)) \o Weights(row) = Terms(row)'
      BY <1>1, TileAddsTerms
    <3>3. ShiftIsRight(row)'
      BY <1>1, ShiftStaysRight
    <3> QED BY <1>1, <3>1, <3>2, <3>3 DEF AttendTile
  <2>4. running_sum' = [row \in Rows |-> Terms(row)']
    BY <1>1, <2>3 DEF AttendTile
  <2>5. acc' = [row \in Rows |-> [col \in Columns |-> Terms(row)']]
    BY <1>1, <2>3 DEF AttendTile
  <2>6. StreamInv'
    BY <2>1, <2>2, <2>3, <2>4, <2>5 DEF StreamInv
  <2> QED BY <2>1, <2>6 DEF Complete
<1>2. CASE Divide \/ UNCHANGED vars
  <2>1. UNCHANGED <<scores, causal, q_start, k_start, running_max, running_sum, acc>>
    BY <1>2 DEF Divide, vars
  <2>2. \A row : Terms(row)' = Terms(row) /\ (ShiftIsRight(row)' <=> ShiftIsRight(row))
    BY <2>1, RowKept
  <2>3. StreamInv'
    BY <2>1, <2>2 DEF StreamInv, BlockedTyped
  <2>4. \A row : QValid(row)' <=> QValid(row)
    BY <2>1 DEF QValid
  <2>5. BeyondDiagonal' <=> BeyondDiagonal
    BY <2>1 DEF BeyondDiagonal
  <2>6. [row \in {row \in Rows : QValid(row)} |->
                [col \in Columns |-> Divided(acc[row][col], running_sum[row])]]'
          = [row \in {row \in Rows : QValid(row)} |->
                [col \in Columns |-> Divided(acc[row][col], running_sum[row])]]
    <3>1. PICK a, s : a = acc /\ a = acc' /\ s = running_sum /\ s = running_sum'
      BY <2>1
    <3>2. {row \in Rows : QValid(row)}' = {row \in Rows : QValid(row)}
      BY <2>4
    <3> QED BY <3>1, <3>2
  <2>7. CASE Divide
    BY <2>1, <2>3, <2>5, <2>6, <2>7 DEF Divide, Complete
  <2>8. CASE UNCHANGED vars
    BY <2>3, <2>5, <2>6, <2>8 DEF vars, Complete
  <2> QED BY <1>2, <2>7, <2>8
<1> QED BY <1>1, <1>2 DEF Next, Done

(* Between tiles, every column of a row and its sum hold the same terms:   *)
(* one for each key read, under the largest score read.                    *)
THEOREM StreamInvariant == Spec => [](StreamInv /\ Complete)
  BY StreamInit, StreamStep, PTL DEF Spec

-----------------------------------------------------------------------------
(* The scores of the keys a row may attend to among those read.            *)
LEMMA KeysRead ==
  ASSUME StreamInv, NEW row \in Rows, QValid(row)
  PROVE  {key \in Unmasked(row) : key < k_start} = {key \in 0..(k_start - 1) : Allowed(row, key)}
  BY BlockedAssumption DEF StreamInv, BlockedTyped, Unmasked, Keys, Allowed

(* A weight survives under the shift of the row if and only if it survives *)
(* under the maximum of what has been read.                                *)
LEMMA SurvivesAlike ==
  ASSUME StreamInv, NEW row \in Rows, QValid(row), \A r \in ScoreRows : Moderate(r),
         NEW key \in 0..(k_start - 1), Counts(row, key)
  PROVE  /\ running_max[row] \in Int /\ scores[row][key] \in Int
         /\ scores[row][key] <= running_max[row]
         /\ scores[row][key] - running_max[row] < -Underflow
              <=> \E other \in 0..(k_start - 1) :
                    Counts(row, other) /\ ~(scores[row][other] - scores[row][key] <= Underflow)
<1>1. ShiftIsRight(row) /\ running_max[row] \in Int /\ k_start \in Nat /\ key \in Nat
  BY DEF StreamInv, ShiftIsRight, BlockedTyped
<1>2. \A k \in 0..(k_start - 1) : Counts(row, k) => k \in Keys /\ scores[row][k] \in Int
  <2> SUFFICES ASSUME NEW k \in 0..(k_start - 1), Counts(row, k) PROVE k \in Keys /\ scores[row][k] \in Int
    OBVIOUS
  <2>1. k \in Keys
    BY <1>1, BlockedAssumption DEF Counts, Allowed, Keys
  <2> QED BY <2>1, ScoreAssumption DEF Counts, StreamInv, BlockedTyped
<1>3. PICK m \in Int, s \in Int : m = running_max[row] /\ s = scores[row][key]
  BY <1>1, <1>2
<1>4. Underflow \in Nat \ {0} /\ NegInf \notin Int
  BY SoftmaxAssumption
<1>5. s <= m /\ \A k \in 0..(k_start - 1) : Counts(row, k) => scores[row][k] <= m
  BY <1>1, <1>3 DEF ShiftIsRight
<1>6. CASE Attained(row)
  <2>1. PICK top \in 0..(k_start - 1) : Counts(row, top) /\ scores[row][top] = m
    BY <1>3, <1>6 DEF Attained
  <2>2. ASSUME s - m < -Underflow
        PROVE  \E other \in 0..(k_start - 1) :
                 Counts(row, other) /\ ~(scores[row][other] - scores[row][key] <= Underflow)
    BY <1>3, <1>4, <2>1, <2>2
  <2>3. ASSUME NEW other \in 0..(k_start - 1), Counts(row, other),
               ~(scores[row][other] - scores[row][key] <= Underflow)
        PROVE  s - m < -Underflow
    <3>1. PICK o \in Int : o = scores[row][other] /\ o <= m
      BY <1>2, <1>5, <2>3
    <3> QED BY <1>3, <1>4, <2>3, <3>1
  <2> QED BY <1>1, <1>2, <1>3, <1>5, <2>2, <2>3
<1>7. CASE LateStart(row)
  <2>1. m = 0 /\ \A k \in Lanes : ~Counts(row, k)
    BY <1>3, <1>7 DEF LateStart
  <2>2. key >= BlockK
    BY <1>1, <2>1, BlockedAssumption DEF Lanes
  <2>3. ASSUME NEW k \in Keys, k < BlockK PROVE scores[row][k] = NegInf
    <3>1. k \in Lanes /\ ~Counts(row, k)
      BY <2>1, <2>3, BlockedAssumption DEF Keys, Lanes
    <3>2. Allowed(row, k)
      <4>1. k \in Nat /\ k < SeqK /\ k <= key /\ q_start \in Nat /\ row \in Nat
        BY <1>1, <2>2, <2>3, BlockedAssumption DEF Keys, StreamInv, BlockedTyped, Rows
      <4> QED BY <1>1, <4>1 DEF Counts, Allowed
    <3> QED BY <3>1, <3>2 DEF Counts
  <2>4. scores[row] \in ScoreRows
    BY DEF StreamInv, BlockedTyped
  <2>5. \A k \in Keys : scores[row][k] # NegInf => scores[row][k] >= -Underflow
    BY <2>3, <2>4 DEF Moderate
  <2>6. s >= -Underflow
    BY <1>2, <1>3, <1>4, <2>5
  <2>7. ASSUME NEW other \in 0..(k_start - 1), Counts(row, other)
        PROVE  scores[row][other] - scores[row][key] <= Underflow
    <3>1. PICK o \in Int : o = scores[row][other] /\ o <= m
      BY <1>2, <1>5, <2>7
    <3> QED BY <1>3, <1>4, <2>1, <2>6, <3>1
  <2> QED BY <1>1, <1>2, <1>3, <1>4, <1>5, <2>1, <2>6, <2>7
<1> QED BY <1>1, <1>6, <1>7 DEF ShiftIsRight

(* The terms of a row are its softmax over the keys read.                  *)
LEMMA TermsAreTheSoftmax ==
  ASSUME StreamInv, NEW row \in Rows, QValid(row), \A r \in ScoreRows : Moderate(r)
  PROVE  IsSoftmax(Divided(Terms(row), Terms(row)), scores[row],
                   {key \in Unmasked(row) : key < k_start})
<1> DEFINE read == {key \in Unmasked(row) : key < k_start}
           finite == {key \in read : scores[row][key] # NegInf}
           live == {key \in finite : \A other \in finite :
                      scores[row][other] - scores[row][key] <= Underflow}
           T == Terms(row)
           P == Present(T)
<1>1. NegInf \notin Int /\ NaN \notin Int /\ NegInf # NaN /\ k_start \in Nat
  BY SoftmaxAssumption DEF StreamInv, BlockedTyped
<1>2. finite = {key \in 0..(k_start - 1) : Counts(row, key)}
  BY KeysRead DEF Counts
<1>3. /\ DOMAIN T = 1..k_start
      /\ \A t \in 1..k_start :
           T[t] = <<IF t - 1 < SeqK THEN t - 1 ELSE Pad, Exponent(row, t - 1)>>
  BY DEF Terms
<1>4. ASSUME NEW t \in 1..k_start
      PROVE  /\ T[t][2] # NegInf <=> t - 1 \in live
             /\ T[t][2] # NaN
             /\ t - 1 \in live => /\ running_max[row] \in Int /\ scores[row][t - 1] \in Int
                                  /\ T[t] = <<t - 1, scores[row][t - 1] - running_max[row]>>
  <2>1. PICK key \in 0..(k_start - 1) : key = t - 1
    BY <1>1
  <2>2. T[t] = <<IF key < SeqK THEN key ELSE Pad, Exponent(row, key)>>
    BY <1>3, <2>1
  <2> HIDE DEF T
  <2>3. CASE ~Counts(row, key)
    <3>1. key \notin live
      BY <1>2, <2>3
    <3>2. Exponent(row, key) = NegInf
      BY <2>3 DEF Exponent
    <3> DEFINE first == IF key < SeqK THEN key ELSE Pad
    <3>3. T[t] = <<first, NegInf>>
      BY <2>2, <3>2
    <3> HIDE DEF live, first
    <3>4. T[t][2] = NegInf
      BY <3>3
    <3> QED BY <1>1, <2>1, <3>1, <3>4
  <2>4. CASE Counts(row, key)
    <3>1. /\ running_max[row] \in Int /\ scores[row][key] \in Int
          /\ scores[row][key] <= running_max[row]
          /\ scores[row][key] - running_max[row] < -Underflow
               <=> \E other \in 0..(k_start - 1) :
                     Counts(row, other) /\ ~(scores[row][other] - scores[row][key] <= Underflow)
      BY <2>4, SurvivesAlike
    <3>2. key \in live <=> ~(scores[row][key] - running_max[row] < -Underflow)
      BY <1>2, <2>4, <3>1
    <3>3. Exponent(row, key) = IF scores[row][key] - running_max[row] < -Underflow
                                 THEN NegInf ELSE scores[row][key] - running_max[row]
      BY <2>4 DEF Exponent, Flushed
    <3>4. key < SeqK
      BY <2>4 DEF Counts, Allowed
    <3>5. PICK e \in Int : e = scores[row][key] - running_max[row]
      BY <3>1
    <3> HIDE DEF live
    <3>6. CASE key \in live
      BY <1>1, <2>1, <2>2, <3>1, <3>2, <3>3, <3>4, <3>5, <3>6
    <3>7. CASE key \notin live
      BY <1>1, <2>1, <2>2, <3>2, <3>3, <3>4, <3>7
    <3> QED BY <3>6, <3>7
  <2> QED BY <2>3, <2>4
<1>5. live \subseteq 0..(k_start - 1)
  BY <1>2
<1> HIDE DEF T, live
<1>6. /\ DOMAIN P = {t \in 1..k_start : t - 1 \in live}
      /\ \A t \in DOMAIN P : P[t] = T[t]
  BY <1>3, <1>4 DEF Present, Restrict
<1>7. IsPositive(T) <=> live # {}
  <2>1. \A key \in live : key + 1 \in 1..k_start /\ (key + 1) - 1 \in live
    BY <1>1, <1>5
  <2> QED BY <1>3, <1>4, <1>6, <2>1 DEF IsPositive
<1>8. CASE live = {}
  <2>1. Divided(T, T) = Zero
    BY <1>7, <1>8 DEF Divided
  <2> QED BY <1>8, <2>1 DEF IsSoftmax, live, T
<1>9. CASE live # {}
  <2>1. Divided(T, T) = <<P, P>>
    BY <1>7, <1>9 DEF Divided
  <2>2. PICK m \in Int : m = running_max[row] /\ \A key \in live : scores[row][key] \in Int
    <3>1. \A key \in live : running_max[row] \in Int /\ scores[row][key] \in Int
      <4> SUFFICES ASSUME NEW key \in live PROVE running_max[row] \in Int /\ scores[row][key] \in Int
        OBVIOUS
      <4>1. key + 1 \in 1..k_start /\ (key + 1) - 1 = key
        BY <1>1, <1>5
      <4> QED BY <1>4, <4>1
    <3> QED BY <1>9, <3>1
  <2>3. ASSUME NEW t \in DOMAIN P
        PROVE  t \in 1..k_start /\ t - 1 \in live /\ P[t] = <<t - 1, scores[row][t - 1] - m>>
    BY <1>4, <1>6, <2>2
  <2> HIDE DEF P
  <2>4. IsInjective(P)
    <3> SUFFICES ASSUME NEW a \in DOMAIN P, NEW b \in DOMAIN P, P[a] = P[b] PROVE a = b
      BY DEF IsInjective
    <3>1. a - 1 = b - 1 /\ a \in Int /\ b \in Int
      BY <1>1, <2>3
    <3> QED BY <3>1
  <2>5. Range(P) = {<<key, scores[row][key] - m>> : key \in live}
    <3>1. ASSUME NEW key \in live PROVE <<key, scores[row][key] - m>> \in Range(P)
      <4>1. key + 1 \in DOMAIN P /\ (key + 1) - 1 = key
        BY <1>1, <1>5, <1>6
      <4> QED BY <2>3, <4>1 DEF Range
    <3> QED BY <2>3, <3>1 DEF Range
  <2>6. m \in {scores[row][term[1]] - term[2] : term \in Range(P)}
    <3>1. PICK key \in live : TRUE
      BY <1>9
    <3>2. PICK s \in Int : s = scores[row][key]
      BY <2>2
    <3>3. <<key, s - m>> \in Range(P) /\ s - (s - m) = m
      BY <2>5, <3>2
    <3>4. scores[row][<<key, s - m>>[1]] - <<key, s - m>>[2] = m
      BY <3>2, <3>3
    <3> QED BY <3>3, <3>4
  <2>7. <<P, P>> # Zero /\ <<P, P>>[1] = P /\ <<P, P>>[2] = P
    BY DEF Zero
  <2>8. \A side \in 1..2 : <<P, P>>[side] = P
    BY <2>7
  <2>9. /\ Divided(T, T) # Zero
        /\ \E shift \in {scores[row][term[1]] - term[2] : term \in Range(Divided(T, T)[2])} :
             \A side \in 1..2 :
               /\ IsInjective(Divided(T, T)[side])
               /\ Range(Divided(T, T)[side]) = {<<key, scores[row][key] - shift>> : key \in live}
    BY <2>1, <2>4, <2>5, <2>6, <2>7, <2>8
  <2> QED BY <1>9, <2>9 DEF IsSoftmax, live, T
<1> QED BY <1>8, <1>9

(* PrefixIsExact: between tiles, the state of a row is the softmax of the  *)
(* keys read so far, for every row of scores for which a shift of zero     *)
(* does no harm after a first tile that overflowed.                        *)
THEOREM PrefixExact ==
  ASSUME \A row \in ScoreRows : Moderate(row)
  PROVE  Spec => []PrefixIsExact
<1>1. StreamInv => PrefixIsExact
  <2> SUFFICES ASSUME StreamInv, NEW row \in Rows, QValid(row), NEW col \in Columns
               PROVE  IsSoftmax(Divided(acc[row][col], running_sum[row]), scores[row],
                                {key \in Unmasked(row) : key < k_start})
    BY DEF PrefixIsExact
  <2>1. acc[row][col] = Terms(row) /\ running_sum[row] = Terms(row)
    BY DEF StreamInv
  <2> QED BY <2>1, TermsAreTheSoftmax
<1> QED BY <1>1, StreamInvariant, PTL

(* MatchesReference: the blocked algorithm returns what the oracle does,   *)
(* the softmax over every key the row may attend to, zero if there is      *)
(* none, whatever the tile plan (blocked.py, reference.py).                *)
THEOREM MatchesOracle ==
  ASSUME \A row \in ScoreRows : Moderate(row)
  PROVE  Spec => []MatchesReference
<1>1. StreamInv /\ Complete => MatchesReference
  <2> SUFFICES ASSUME StreamInv, Complete, out # <<>>,
                      NEW row \in Rows, QValid(row), NEW col \in Columns
               PROVE  IsSoftmax(out[row][col], scores[row], Unmasked(row))
    BY DEF MatchesReference
  <2>1. acc[row][col] = Terms(row) /\ running_sum[row] = Terms(row)
    BY DEF StreamInv
  <2>2. out[row][col] = Divided(Terms(row), Terms(row))
    BY <2>1 DEF Complete
  <2>3. {key \in Unmasked(row) : key < k_start} = Unmasked(row)
    <3>1. k_start \in Nat /\ q_start \in Nat /\ row \in Nat /\ row <= BlockQ - 1
      BY BlockedAssumption DEF StreamInv, BlockedTyped, Rows
    <3>2. k_start >= SeqK \/ (causal /\ k_start > q_start + BlockQ - 1)
      BY DEF Complete, BeyondDiagonal
    <3>3. ASSUME NEW key \in Unmasked(row) PROVE key < k_start
      <4>1. key \in Nat /\ key < SeqK /\ (causal => key <= q_start + row)
        BY BlockedAssumption DEF Unmasked, Keys
      <4> QED BY <3>1, <3>2, <4>1, BlockedAssumption
    <3> QED BY <3>3
  <2> QED BY <2>2, <2>3, TermsAreTheSoftmax
<1> QED BY <1>1, StreamInvariant, PTL
===============================================================================
