--------------------------- MODULE SdpaCalls_proofs ---------------------------
(***************************************************************************)
(* Theorems about training steps and measurements (SdpaCalls), for any     *)
(* calls, plugins, registrars, thread counts and environments.  First the  *)
(* facts about the shapes of calls (Shapes), for every rank and dimension: *)
(* broadcasting aligns shapes at their last axes, so they are stated with  *)
(* Dim, which counts axes from the last.  Then what holds of a step        *)
(* whatever the shapes of its calls are, and what rests on the shapes.     *)
(***************************************************************************)
EXTENDS SdpaCalls, SequenceTheorems, TLAPS

Shape == Seq(Nat)
Matrices == {s \in Shape : Len(s) >= 2}

(* The result of a refused call is not a shape.                            *)
LEMMA ErrorIsNoShape == Error \notin Shape /\ Nil # Error
  BY ShapesAssumption DEF Shape

(* A function on the axes is a shape with that many of them.               *)
LEMMA ShapeMade ==
  ASSUME NEW n \in Nat, NEW s \in [1..n -> Nat]
  PROVE  s \in Shape /\ Len(s) = n
  BY DEF Shape

(* The axes of a shape, counted from either end, are naturals.             *)
LEMMA ShapeAxes ==
  ASSUME NEW s \in Shape
  PROVE  /\ Len(s) \in Nat /\ DOMAIN s = 1..Len(s) /\ \A i \in 1..Len(s) : s[i] \in Nat
         /\ \A i \in 1..Len(s) : Dim(s, i) \in Nat
  BY DEF Shape, Dim

(* A shape is determined by its axes, counted from the last.               *)
LEMMA SameShape ==
  ASSUME NEW s \in Shape, NEW t \in Shape, Len(s) = Len(t),
         \A i \in 1..Len(s) : Dim(s, i) = Dim(t, i)
  PROVE  s = t
<1>1. \A i \in 1..Len(s) : s[i] = t[i]
  <2> SUFFICES ASSUME NEW i \in 1..Len(s) PROVE s[i] = t[i]
    OBVIOUS
  <2>1. Len(s) \in Nat /\ Len(s) + 1 - i \in 1..Len(s) /\ Len(s) + 1 - (Len(s) + 1 - i) = i
    BY ShapeAxes
  <2>. QED
    BY <2>1 DEF Dim
<1>. QED
  BY <1>1, SeqEqual DEF Shape

(* The leading axes are all but the last two.                              *)
LEMMA LeadIsSequence ==
  ASSUME NEW s \in Seq(Nat), Len(s) >= 2
  PROVE  /\ Lead(s) \in Seq(Nat) /\ Len(Lead(s)) = Len(s) - 2
         /\ \A i \in 1..Len(s) - 2 : Lead(s)[i] = s[i]
<1> DEFINE n == Len(s) - 2
<1>1. n \in Int /\ n >= 0 /\ \A i \in 1..n : s[i] \in Nat
  OBVIOUS
<1> HIDE DEF n
<1>2. /\ SubSeq(s, 1, n) \in Seq(Nat) /\ Len(SubSeq(s, 1, n)) = n
      /\ \A i \in 1..n : SubSeq(s, 1, n)[i] = s[i]
  BY <1>1, SubSeqProperties
<1>. QED
  BY <1>2 DEF Lead, n

(* The leading axes counted from the last, and the two that follow.        *)
LEMMA LeadAxes ==
  ASSUME NEW s \in Matrices
  PROVE  /\ Lead(s) \in Shape /\ Len(Lead(s)) = Len(s) - 2
         /\ Dim(s, 1) \in Nat /\ Dim(s, 2) \in Nat
         /\ \A i \in 1..Len(s) - 2 : Dim(Lead(s), i) = Dim(s, i + 2)
<1>0. s \in Seq(Nat) /\ Len(s) >= 2 /\ Len(s) \in Nat
  BY DEF Matrices, Shape
<1>1. /\ Lead(s) \in Shape /\ Len(Lead(s)) = Len(s) - 2
      /\ \A i \in 1..Len(s) - 2 : Lead(s)[i] = s[i]
  BY <1>0, LeadIsSequence DEF Shape
<1>2. ASSUME NEW i \in 1..Len(s) - 2
      PROVE  Dim(Lead(s), i) = Dim(s, i + 2)
  <2>1. (Len(s) - 2) + 1 - i \in 1..Len(s) - 2 /\ (Len(s) - 2) + 1 - i = Len(s) + 1 - (i + 2)
    BY <1>0
  <2>. QED
    BY <1>1, <2>1 DEF Dim
<1>3. Dim(s, 1) \in Nat /\ Dim(s, 2) \in Nat
  BY <1>0 DEF Dim
<1>. QED
  BY <1>1, <1>2, <1>3

(* A stack of matrices: its leading axes, then rows and columns.           *)
LEMMA StackAxes ==
  ASSUME NEW lead \in Shape, NEW m \in Nat, NEW n \in Nat
  PROVE  LET s == Core(lead, m, n) IN
         /\ s \in Matrices /\ s # Error /\ Len(s) = Len(lead) + 2
         /\ Dim(s, 1) = n /\ Dim(s, 2) = m /\ Lead(s) = lead
         /\ \A i \in 1..Len(lead) : Dim(s, i + 2) = Dim(lead, i)
<1> DEFINE s == Core(lead, m, n)
<1>1. s = lead \o <<m, n>>
  BY ErrorIsNoShape DEF Core
<1> HIDE DEF s
<1>2. lead \in Seq(Nat)
  BY DEF Shape
<1>3. /\ s \in Seq(Nat) /\ Len(s) = Len(lead) + 2
      /\ \A i \in 1..Len(lead) : s[i] = lead[i]
      /\ s[Len(lead) + 1] = m /\ s[Len(lead) + 2] = n
  BY <1>1, <1>2
<1>4. Dim(s, 1) = n /\ Dim(s, 2) = m /\ s \in Matrices /\ s # Error
  BY <1>2, <1>3, ErrorIsNoShape DEF Dim, Matrices, Shape
<1>5. Lead(s) \in Seq(Nat) /\ Len(Lead(s)) = Len(lead) /\ \A i \in 1..Len(lead) : Lead(s)[i] = lead[i]
  <2>1. Len(s) >= 2 /\ Len(s) - 2 = Len(lead)
    BY <1>2, <1>3
  <2>. QED
    BY <1>2, <1>3, <2>1, LeadIsSequence
<1>6. Lead(s) = lead
  BY <1>2, <1>5, SeqEqual
<1>. QED
  BY <1>3, <1>4, <1>6, LeadAxes DEF s

(* A shape is its leading axes and one matrix.                             *)
LEMMA MatrixIsStack ==
  ASSUME NEW s \in Matrices
  PROVE  s = Core(Lead(s), Dim(s, 2), Dim(s, 1))
<1> DEFINE t == Core(Lead(s), Dim(s, 2), Dim(s, 1))
<1>1. /\ Lead(s) \in Shape /\ Len(Lead(s)) = Len(s) - 2 /\ Dim(s, 1) \in Nat /\ Dim(s, 2) \in Nat
      /\ Len(s) \in Nat /\ Len(s) >= 2 /\ s \in Shape
  BY LeadAxes, ShapeAxes DEF Matrices
<1>2. /\ t \in Matrices /\ Len(t) = Len(Lead(s)) + 2 /\ Dim(t, 1) = Dim(s, 1) /\ Dim(t, 2) = Dim(s, 2)
      /\ \A i \in 1..Len(Lead(s)) : Dim(t, i + 2) = Dim(Lead(s), i)
  BY <1>1, StackAxes
<1>. HIDE DEF t
<1>3. \A i \in 1..Len(s) - 2 : Dim(s, i + 2) = Dim(t, i + 2)
  BY <1>1, <1>2, LeadAxes
<1>4. \A i \in 1..Len(s) : i \in {1, 2} \/ (i - 2 \in 1..Len(s) - 2 /\ (i - 2) + 2 = i)
  BY <1>1
<1>5. \A i \in 1..Len(s) : Dim(s, i) = Dim(t, i)
  BY <1>2, <1>3, <1>4
<1>6. s = t
  BY <1>1, <1>2, <1>5, SameShape DEF Matrices
<1>. QED
  BY <1>6 DEF t

-----------------------------------------------------------------------------
(* Broadcasting, axis by axis from the last; an axis that a shape does not *)
(* have counts as one of length 1.                                         *)
Ndim(a, b) == IF Len(a) >= Len(b) THEN Len(a) ELSE Len(b)
Axis(s, i) == IF i <= Len(s) THEN Dim(s, i) ELSE 1
Agree(a, b) == \A i \in 1..Ndim(a, b) : Axis(a, i) = Axis(b, i) \/ Axis(a, i) = 1 \/ Axis(b, i) = 1

(* The larger of two numbers.                                              *)
LEMMA MaxOfTwo ==
  ASSUME NEW m \in Nat, NEW n \in Nat
  PROVE  Max({m, n}) = IF m >= n THEN m ELSE n
<1>1. \E x \in {m, n} : \A y \in {m, n} : x >= y
  <2>1. CASE m >= n
    BY <2>1
  <2>2. CASE n >= m
    BY <2>2
  <2>. QED
    BY <2>1, <2>2
<1>2. Max({m, n}) \in {m, n} /\ \A y \in {m, n} : Max({m, n}) >= y
  BY <1>1 DEF Max
<1>. QED
  BY <1>2

(* A padded shape has the same axes counted from the last, and ones.       *)
LEMMA Padding ==
  ASSUME NEW a \in Shape, NEW n \in Nat, n >= Len(a)
  PROVE  /\ Padded(a, n) \in [1..n -> Nat]
         /\ \A i \in 1..n : Padded(a, n)[n + 1 - i] = Axis(a, i)
<1>1. /\ Padded(a, n) \in [1..n -> Nat]
      /\ \A j \in 1..n : Padded(a, n)[j] = IF j <= n - Len(a) THEN 1 ELSE a[j - (n - Len(a))]
  BY DEF Padded, Shape
<1>2. ASSUME NEW i \in 1..n
      PROVE  Padded(a, n)[n + 1 - i] = Axis(a, i)
  <2>1. /\ n + 1 - i \in 1..n /\ (n + 1 - i <= n - Len(a) <=> ~(i <= Len(a)))
        /\ (n + 1 - i) - (n - Len(a)) = Len(a) + 1 - i
    BY ShapeAxes
  <2>. QED
    BY <1>1, <2>1 DEF Axis, Dim
<1>. QED
  BY <1>1, <1>2

(* NumPy's broadcasting of two shapes, axis by axis from the last.         *)
LEMMA Broadcasting ==
  ASSUME NEW a \in Shape, NEW b \in Shape
  PROVE  IF Agree(a, b)
           THEN /\ Broadcast(a, b) \in Shape /\ Broadcast(a, b) # Error
                /\ Len(Broadcast(a, b)) = Ndim(a, b)
                /\ \A i \in 1..Ndim(a, b) :
                     Dim(Broadcast(a, b), i) = IF Axis(a, i) = 1 THEN Axis(b, i) ELSE Axis(a, i)
           ELSE Broadcast(a, b) = Error
<1> DEFINE n == Max({Len(a), Len(b)})
           left == Padded(a, n)
           right == Padded(b, n)
           both == [i \in 1..n |-> IF left[i] = 1 THEN right[i] ELSE left[i]]
           fit == \A i \in 1..n : left[i] = right[i] \/ 1 \in {left[i], right[i]}
<1>1. Broadcast(a, b) = IF fit THEN both ELSE Error
  <2>1. Error \notin {a, b}
    BY ErrorIsNoShape
  <2>. QED
    BY <2>1, Zenon DEF Broadcast
<1>2. n \in Nat /\ n >= Len(a) /\ n >= Len(b) /\ n = Ndim(a, b)
  <2>1. Len(a) \in Nat /\ Len(b) \in Nat
    BY ShapeAxes
  <2>2. n = IF Len(a) >= Len(b) THEN Len(a) ELSE Len(b)
    BY <2>1, MaxOfTwo
  <2>. HIDE DEF n
  <2>. QED
    BY <2>1, <2>2 DEF Ndim
<1>. HIDE DEF n
<1>3. /\ left \in [1..n -> Nat] /\ right \in [1..n -> Nat]
      /\ \A i \in 1..n : left[n + 1 - i] = Axis(a, i) /\ right[n + 1 - i] = Axis(b, i)
  BY <1>2, Padding
<1>. HIDE DEF left, right
<1>4. \A i \in 1..n : n + 1 - i \in 1..n /\ n + 1 - (n + 1 - i) = i
  BY <1>2
<1>5. fit <=> Agree(a, b)
  <2>1. fit <=> \A i \in 1..n : LET j == n + 1 - i IN left[j] = right[j] \/ left[j] = 1 \/ right[j] = 1
    BY <1>4
  <2>. QED
    BY <1>2, <1>3, <2>1 DEF Agree
<1>6. /\ both \in [1..n -> Nat]
      /\ \A i \in 1..n : both[n + 1 - i] = IF Axis(a, i) = 1 THEN Axis(b, i) ELSE Axis(a, i)
  BY <1>3, <1>4
<1>. HIDE DEF both
<1>7. both \in Shape /\ Len(both) = n
  BY <1>2, <1>6, ShapeMade
<1>8. \A i \in 1..n : Dim(both, i) = IF Axis(a, i) = 1 THEN Axis(b, i) ELSE Axis(a, i)
  BY <1>6, <1>7 DEF Dim
<1>. HIDE DEF fit
<1>. QED
  BY <1>1, <1>2, <1>5, <1>7, <1>8, ErrorIsNoShape

-----------------------------------------------------------------------------
(* a broadcasts to b.                                                      *)
FitsIn(a, b) == Len(a) <= Len(b) /\ \A i \in 1..Len(a) : Dim(a, i) = 1 \/ Dim(a, i) = Dim(b, i)

(* What two shapes broadcast to is one that both stretch to.               *)
LEMMA BroadcastFits ==
  ASSUME NEW a \in Shape, NEW b \in Shape, Broadcast(a, b) # Error
  PROVE  /\ Broadcast(a, b) \in Shape /\ Len(Broadcast(a, b)) = Ndim(a, b)
         /\ FitsIn(a, Broadcast(a, b)) /\ FitsIn(b, Broadcast(a, b))
<1>1. /\ Agree(a, b) /\ Broadcast(a, b) \in Shape /\ Len(Broadcast(a, b)) = Ndim(a, b)
      /\ \A i \in 1..Ndim(a, b) :
           Dim(Broadcast(a, b), i) = IF Axis(a, i) = 1 THEN Axis(b, i) ELSE Axis(a, i)
  BY Broadcasting
<1>2. /\ Len(a) \in Nat /\ Len(b) \in Nat /\ Ndim(a, b) \in Nat
      /\ Len(a) <= Ndim(a, b) /\ Len(b) <= Ndim(a, b)
  BY ShapeAxes DEF Ndim
<1>3. \A i \in 1..Len(a) : i \in 1..Ndim(a, b) /\ Axis(a, i) = Dim(a, i)
  BY <1>2 DEF Axis
<1>4. \A i \in 1..Len(b) : i \in 1..Ndim(a, b) /\ Axis(b, i) = Dim(b, i)
  BY <1>2 DEF Axis
<1>. QED
  BY <1>1, <1>2, <1>3, <1>4 DEF FitsIn, Agree

(* A shape that stretches to another adds nothing to it.                   *)
LEMMA BroadcastAbsorbs ==
  ASSUME NEW a \in Shape, NEW b \in Shape, FitsIn(a, b)
  PROVE  Broadcast(a, b) = b /\ Broadcast(b, a) = b
<1>1. /\ Len(a) \in Nat /\ Len(b) \in Nat /\ Ndim(a, b) = Len(b) /\ Ndim(b, a) = Len(b)
  BY ShapeAxes DEF Ndim, FitsIn
<1>2. \A i \in 1..Len(b) : Axis(b, i) = Dim(b, i) /\ (Axis(a, i) = 1 \/ Axis(a, i) = Dim(b, i))
  BY <1>1 DEF Axis, FitsIn
<1>3. Agree(a, b) /\ Agree(b, a)
  BY <1>1, <1>2 DEF Agree
<1>4. /\ Broadcast(a, b) \in Shape /\ Len(Broadcast(a, b)) = Len(b)
      /\ \A i \in 1..Len(b) : Dim(Broadcast(a, b), i) = Dim(b, i)
  BY <1>1, <1>2, <1>3, Broadcasting
<1>5. /\ Broadcast(b, a) \in Shape /\ Len(Broadcast(b, a)) = Len(b)
      /\ \A i \in 1..Len(b) : Dim(Broadcast(b, a), i) = Dim(b, i)
  BY <1>1, <1>2, <1>3, Broadcasting
<1>. QED
  BY <1>4, <1>5, SameShape

(* A shape stretches to itself.                                            *)
LEMMA FitsItself ==
  ASSUME NEW a \in Shape
  PROVE  FitsIn(a, a)
  BY ShapeAxes DEF FitsIn

(* Stretching twice is stretching.                                         *)
LEMMA FitsTransitive ==
  ASSUME NEW a \in Shape, NEW b \in Shape, NEW c \in Shape, FitsIn(a, b), FitsIn(b, c)
  PROVE  FitsIn(a, c)
<1>1. Len(a) \in Nat /\ Len(b) \in Nat /\ Len(c) \in Nat
  BY ShapeAxes
<1>2. \A i \in 1..Len(a) : i \in 1..Len(b)
  BY <1>1 DEF FitsIn
<1>. QED
  BY <1>1, <1>2 DEF FitsIn

(* A shape stretches as its leading axes and its matrix do.                *)
LEMMA FitsAsStack ==
  ASSUME NEW a \in Matrices, NEW b \in Matrices
  PROVE  FitsIn(a, b) <=> /\ FitsIn(Lead(a), Lead(b))
                          /\ Dim(a, 1) \in {1, Dim(b, 1)} /\ Dim(a, 2) \in {1, Dim(b, 2)}
<1>1. /\ a \in Shape /\ b \in Shape /\ Len(a) \in Nat /\ Len(b) \in Nat /\ Len(a) >= 2 /\ Len(b) >= 2
  BY ShapeAxes DEF Matrices
<1>2. /\ Len(Lead(a)) = Len(a) - 2 /\ Len(Lead(b)) = Len(b) - 2
      /\ \A i \in 1..Len(a) - 2 : Dim(Lead(a), i) = Dim(a, i + 2)
      /\ \A i \in 1..Len(b) - 2 : Dim(Lead(b), i) = Dim(b, i + 2)
  BY LeadAxes
<1>3. ASSUME FitsIn(a, b)
      PROVE  FitsIn(Lead(a), Lead(b)) /\ Dim(a, 1) \in {1, Dim(b, 1)} /\ Dim(a, 2) \in {1, Dim(b, 2)}
  <2>1. \A i \in 1..Len(a) - 2 : i + 2 \in 1..Len(a) /\ i \in 1..Len(b) - 2
    BY <1>1, <1>3 DEF FitsIn
  <2>. QED
    BY <1>1, <1>2, <1>3, <2>1 DEF FitsIn
<1>4. ASSUME FitsIn(Lead(a), Lead(b)), Dim(a, 1) \in {1, Dim(b, 1)}, Dim(a, 2) \in {1, Dim(b, 2)}
      PROVE  FitsIn(a, b)
  <2>1. Len(a) <= Len(b)
    BY <1>1, <1>2, <1>4 DEF FitsIn
  <2>2. \A i \in 1..Len(a) : i \in {1, 2} \/ (i - 2 \in 1..Len(a) - 2 /\ i - 2 \in 1..Len(b) - 2 /\ (i - 2) + 2 = i)
    BY <1>1, <2>1
  <2>3. \A i \in 1..Len(a) - 2 : Dim(a, i + 2) = 1 \/ Dim(a, i + 2) = Dim(b, i + 2)
    <3>1. \A i \in 1..Len(a) - 2 : i \in 1..Len(Lead(a)) /\ i \in 1..Len(b) - 2
      BY <1>1, <1>2, <2>1
    <3>2. \A i \in 1..Len(a) - 2 : Dim(Lead(a), i) = 1 \/ Dim(Lead(a), i) = Dim(Lead(b), i)
      BY <1>4, <3>1 DEF FitsIn
    <3>. QED
      BY <1>2, <3>1, <3>2
  <2>4. \A i \in 1..Len(a) : Dim(a, i) = 1 \/ Dim(a, i) = Dim(b, i)
    BY <1>4, <2>2, <2>3
  <2>. QED
    BY <2>1, <2>4 DEF FitsIn
<1>. QED
  BY <1>3, <1>4

(* What a transpose of the last two axes does to a shape.                  *)
LEMMA Swapping ==
  ASSUME NEW a \in Matrices
  PROVE  /\ Swap(a) = Core(Lead(a), Dim(a, 1), Dim(a, 2))
         /\ Swap(a) \in Matrices /\ Lead(Swap(a)) = Lead(a)
         /\ Dim(Swap(a), 1) = Dim(a, 2) /\ Dim(Swap(a), 2) = Dim(a, 1)
<1>1. a # Error /\ Lead(a) # Error /\ Lead(a) \in Shape /\ Dim(a, 1) \in Nat /\ Dim(a, 2) \in Nat
  BY LeadAxes, ErrorIsNoShape DEF Matrices
<1>2. Swap(a) = Core(Lead(a), Dim(a, 1), Dim(a, 2))
  BY <1>1 DEF Swap, Core
<1>. QED
  BY <1>1, <1>2, StackAxes

(* When NumPy multiplies two stacks of matrices, and into what shape.      *)
LEMMA Multiplying ==
  ASSUME NEW a \in Matrices, NEW b \in Matrices
  PROVE  /\ MatMul(a, b) # Error <=> Dim(a, 1) = Dim(b, 2) /\ Broadcast(Lead(a), Lead(b)) # Error
         /\ MatMul(a, b) # Error =>
              /\ MatMul(a, b) = Core(Broadcast(Lead(a), Lead(b)), Dim(a, 2), Dim(b, 1))
              /\ MatMul(a, b) \in Matrices /\ Lead(MatMul(a, b)) = Broadcast(Lead(a), Lead(b))
              /\ Dim(MatMul(a, b), 1) = Dim(b, 1) /\ Dim(MatMul(a, b), 2) = Dim(a, 2)
<1>1. /\ a # Error /\ b # Error /\ Lead(a) \in Shape /\ Lead(b) \in Shape
      /\ Dim(a, 2) \in Nat /\ Dim(b, 1) \in Nat
  BY LeadAxes, ErrorIsNoShape DEF Matrices
<1>2. MatMul(a, b) = IF Dim(a, 1) # Dim(b, 2) THEN Error ELSE Core(Broadcast(Lead(a), Lead(b)), Dim(a, 2), Dim(b, 1))
  BY <1>1 DEF MatMul
<1>3. CASE Broadcast(Lead(a), Lead(b)) = Error
  BY <1>2, <1>3 DEF Core
<1>4. CASE Broadcast(Lead(a), Lead(b)) # Error
  <2>1. Broadcast(Lead(a), Lead(b)) \in Shape
    BY <1>1, <1>4, BroadcastFits
  <2>. QED
    BY <1>1, <1>2, <1>4, <2>1, StackAxes
<1>. QED
  BY <1>3, <1>4

(* Summing a gradient over the axes an input was broadcast along gives the *)
(* shape of the input.                                                     *)
LEMMA Summing ==
  ASSUME NEW shape \in Shape, NEW grad \in Shape, FitsIn(shape, grad)
  PROVE  SumToShape(grad, shape) = shape
<1> DEFINE m == Len(grad) - Len(shape) + 1
           kept == SubSeq(grad, m, Len(grad))
           sum == [i \in 1..Len(shape) |-> IF shape[i] = 1 THEN 1 ELSE kept[i]]
<1>1. SumToShape(grad, shape) = sum
  BY ErrorIsNoShape DEF SumToShape
<1>2. Len(shape) \in Nat /\ Len(grad) \in Nat /\ Len(shape) <= Len(grad)
  BY ShapeAxes DEF FitsIn
<1>3. \A i \in 1..Len(shape) : kept[i] = grad[Len(grad) - Len(shape) + i]
  <2>1. m \in Int /\ \A i \in m..Len(grad) : grad[i] \in Nat
    BY <1>2, ShapeAxes
  <2>2. Len(grad) - m + 1 = Len(shape) /\ \A i \in 1..Len(shape) : m + i - 1 = Len(grad) - Len(shape) + i
    BY <1>2
  <2>. HIDE DEF m
  <2>. QED
    BY <1>2, <2>1, <2>2, SubSeqProperties
<1>. HIDE DEF kept, m
<1>4. \A i \in 1..Len(shape) : shape[i] = 1 \/ shape[i] = kept[i]
  <2> SUFFICES ASSUME NEW i \in 1..Len(shape) PROVE shape[i] = 1 \/ shape[i] = grad[Len(grad) - Len(shape) + i]
    BY <1>3
  <2>1. /\ Len(shape) + 1 - i \in 1..Len(shape) /\ Len(shape) + 1 - (Len(shape) + 1 - i) = i
        /\ Len(grad) + 1 - (Len(shape) + 1 - i) = Len(grad) - Len(shape) + i
    BY <1>2
  <2>. QED
    BY <2>1 DEF FitsIn, Dim
<1>5. sum \in [1..Len(shape) -> Nat] /\ \A i \in 1..Len(shape) : sum[i] = shape[i]
  BY <1>4, ShapeAxes
<1>. HIDE DEF sum
<1>6. sum \in Shape /\ Len(sum) = Len(shape)
  BY <1>2, <1>5, ShapeMade
<1>. QED
  BY <1>1, <1>5, <1>6, SeqEqual DEF Shape

-----------------------------------------------------------------------------
(* Calls.                                                                  *)
CallShapes ==
  [q : Seq(Nat), k : Seq(Nat), v : Seq(Nat), mask : {Nil} \cup Seq(Nat),
   causal : BOOLEAN, gqa : BOOLEAN, special : {"none", "dropout", "other"}]

(* A division that leaves nothing.                                         *)
LEMMA ExactDivision ==
  ASSUME NEW n \in Nat \ {0}, NEW d \in Nat \ {0}, n % d = 0
  PROVE  n \div d \in Nat \ {0} /\ d * (n \div d) = n
<1>1. PICK q \in Nat : q = n \div d
  OBVIOUS
<1>2. d * q = n
  BY <1>1, SMT
<1>3. q # 0
  BY <1>2
<1>. QED
  BY <1>1, <1>2, <1>3

(* A shape with another number of heads.                                   *)
WithHeads(shape, heads) == [shape EXCEPT ![Len(shape) - 2] = heads]

(* Only the third axis from the end is the heads.                          *)
LEMMA HeadsChange ==
  ASSUME NEW shape \in Shape, Len(shape) >= 3, NEW heads \in Nat
  PROVE  LET s == WithHeads(shape, heads) IN
         /\ s \in Matrices /\ Len(s) = Len(shape) /\ Dim(s, 3) = heads
         /\ \A i \in 1..Len(shape) : i # 3 => Dim(s, i) = Dim(shape, i)
<1> DEFINE s == WithHeads(shape, heads)
<1>1. Len(shape) \in Nat /\ Len(shape) - 2 \in 1..Len(shape)
  BY ShapeAxes
<1>2. /\ s \in Seq(Nat) /\ Len(s) = Len(shape)
      /\ \A j \in 1..Len(shape) : s[j] = IF j = Len(shape) - 2 THEN heads ELSE shape[j]
  BY <1>1, ExceptSeq DEF WithHeads, Shape
<1>. HIDE DEF s
<1>3. Dim(s, 3) = heads
  BY <1>1, <1>2 DEF Dim
<1>4. ASSUME NEW i \in 1..Len(shape), i # 3
      PROVE  Dim(s, i) = Dim(shape, i)
  <2>1. Len(shape) + 1 - i \in 1..Len(shape) /\ Len(shape) + 1 - i # Len(shape) - 2
    BY <1>1, <1>4
  <2>. QED
    BY <1>2, <2>1 DEF Dim
<1>. QED
  BY <1>1, <1>2, <1>3, <1>4 DEF s, Matrices, Shape

(* Key and value with their heads repeated have the query's number.        *)
LEMMA Expanding ==
  ASSUME NEW c \in CallShapes, Validates(c), NEW shape \in {c.k, c.v}
  PROVE  LET s == Expanded(c, shape) IN
         /\ c.q \in Matrices /\ c.k \in Matrices /\ c.v \in Matrices
         /\ s \in Matrices /\ Len(s) = Len(shape)
         /\ Dim(s, 1) = Dim(shape, 1) /\ Dim(s, 2) = Dim(shape, 2)
         /\ ~c.gqa => s = shape
         /\ c.gqa => /\ Len(shape) >= 3 /\ Len(c.q) >= 3 /\ Dim(s, 3) = Dim(c.q, 3)
                     /\ s = WithHeads(shape, Dim(c.q, 3))
                     /\ Dim(c.q, 3) \in Nat \ {0} /\ Dim(shape, 3) \in Nat \ {0}
                     /\ Repeats(c) = Dim(c.q, 3) \div Dim(shape, 3) /\ Repeats(c) \in Nat \ {0}
                     /\ Dim(shape, 3) * Repeats(c) = Dim(c.q, 3)
<1> DEFINE s == Expanded(c, shape)
<1>1. c.q \in Matrices /\ c.k \in Matrices /\ c.v \in Matrices /\ shape \in Matrices /\ c.gqa \in BOOLEAN
  BY DEF CallShapes, Validates, Matrices, Shape
<1>2. CASE ~c.gqa
  BY <1>1, <1>2 DEF Expanded
<1>3. CASE c.gqa
  <2>1. /\ Len(c.q) >= 3 /\ Len(c.k) >= 3 /\ Len(c.v) >= 3 /\ Dim(c.k, 3) = Dim(c.v, 3)
        /\ Dim(c.q, 3) # 0 /\ Dim(c.k, 3) # 0 /\ Dim(c.q, 3) % Dim(c.k, 3) = 0
    BY <1>3 DEF Validates, GroupsHeads
  <2>2. shape \in Shape /\ Len(shape) \in Nat /\ Len(shape) >= 3 /\ Dim(shape, 3) = Dim(c.k, 3)
    BY <1>1, <2>1, ShapeAxes DEF Matrices
  <2>3. Dim(c.q, 3) \in Nat \ {0} /\ Dim(shape, 3) \in Nat \ {0}
    <3>1. Dim(c.q, 3) \in Nat
      BY <1>1, <2>1, ShapeAxes DEF Matrices
    <3>2. Dim(shape, 3) \in Nat
      BY <2>2, ShapeAxes
    <3>. QED
      BY <2>1, <2>2, <3>1, <3>2
  <2>4. /\ Repeats(c) = Dim(c.q, 3) \div Dim(shape, 3) /\ Repeats(c) \in Nat \ {0}
        /\ Dim(shape, 3) * Repeats(c) = Dim(c.q, 3)
    <3>1. Repeats(c) = Dim(c.q, 3) \div Dim(shape, 3)
      BY <1>3, <2>2 DEF Repeats
    <3>. QED
      BY <2>1, <2>2, <2>3, <3>1, ExactDivision
  <2>5. s = WithHeads(shape, Dim(c.q, 3))
    <3>1. shape[Len(shape) - 2] = Dim(shape, 3)
      BY <2>2 DEF Dim
    <3>2. s = [shape EXCEPT ![Len(shape) - 2] = shape[Len(shape) - 2] * Repeats(c)]
      BY <1>3, Zenon DEF Expanded
    <3>. QED
      BY <2>4, <3>1, <3>2 DEF WithHeads
  <2>. HIDE DEF s
  <2>6. /\ s \in Matrices /\ Len(s) = Len(shape) /\ Dim(s, 3) = Dim(c.q, 3)
        /\ \A i \in 1..Len(shape) : i # 3 => Dim(s, i) = Dim(shape, i)
    BY <2>2, <2>3, <2>5, HeadsChange
  <2>. QED
    BY <1>1, <1>3, <2>1, <2>2, <2>3, <2>4, <2>5, <2>6 DEF s
<1>. QED
  BY <1>1, <1>2, <1>3

(* The scores have the query's rows and the key's columns; a mask can only *)
(* widen them, and one that fits leaves rows and columns as they are.      *)
LEMMA ScoresAxes ==
  ASSUME NEW c \in CallShapes, Validates(c), Scores(c) # Error
  PROVE  /\ Scores(c) \in Matrices
         /\ Dim(Scores(c), 1) = Dim(c.k, 2) /\ Dim(Scores(c), 2) = Dim(c.q, 2)
         /\ Lead(Scores(c)) \in Shape
         /\ FitsIn(Lead(c.q), Lead(Scores(c))) /\ FitsIn(Lead(Expanded(c, c.k)), Lead(Scores(c)))
<1> DEFINE k == Expanded(c, c.k)
<1>1. c.q \in Matrices /\ k \in Matrices /\ Dim(k, 2) = Dim(c.k, 2)
  BY Expanding
<1>. HIDE DEF k
<1>2. Swap(k) \in Matrices /\ Lead(Swap(k)) = Lead(k) /\ Dim(Swap(k), 1) = Dim(c.k, 2)
  BY <1>1, Swapping
<1>3. Scores(c) = MatMul(c.q, Swap(k))
  BY DEF Scores, k
<1>4. /\ Scores(c) \in Matrices /\ Lead(Scores(c)) = Broadcast(Lead(c.q), Lead(k))
      /\ Broadcast(Lead(c.q), Lead(k)) # Error
      /\ Dim(Scores(c), 1) = Dim(c.k, 2) /\ Dim(Scores(c), 2) = Dim(c.q, 2)
  BY <1>1, <1>2, <1>3, Multiplying
<1>5. Lead(c.q) \in Shape /\ Lead(k) \in Shape
  BY <1>1, LeadAxes
<1>. QED
  BY <1>4, <1>5, BroadcastFits DEF k

(* A stack stays a stack when it is broadcast.                             *)
LEMMA MatrixBroadcast ==
  ASSUME NEW a \in Matrices, NEW b \in Shape, Broadcast(a, b) # Error
  PROVE  Broadcast(a, b) \in Matrices
<1>1. a \in Shape /\ Len(a) \in Nat /\ Len(b) \in Nat /\ Len(a) >= 2
  BY ShapeAxes DEF Matrices
<1>2. Broadcast(a, b) \in Shape /\ Len(Broadcast(a, b)) = Ndim(a, b)
  BY <1>1, BroadcastFits
<1>. QED
  BY <1>1, <1>2 DEF Ndim, Matrices

(* The weights of an accepted call cover its scores, and with them the     *)
(* query and the keys.                                                     *)
LEMMA WeightsAxes ==
  ASSUME NEW c \in CallShapes, Validates(c), WeightsShape(c) # Error
  PROVE  /\ Scores(c) # Error
         /\ WeightsShape(c) \in Matrices /\ FitsIn(Scores(c), WeightsShape(c))
         /\ FitsIn(Lead(c.q), Lead(WeightsShape(c)))
         /\ FitsIn(Lead(Expanded(c, c.k)), Lead(WeightsShape(c)))
<1> DEFINE w == WeightsShape(c)
<1>1. w = Masked(c) /\ w # Error
  BY DEF WeightsShape
<1>2. Scores(c) # Error
  BY <1>1 DEF Masked, Broadcast
<1>3. Scores(c) \in Matrices /\ Scores(c) \in Shape
  BY <1>2, ScoresAxes DEF Matrices
<1>4. w \in Matrices /\ FitsIn(Scores(c), w)
  <2>1. CASE c.mask = Nil
    BY <1>1, <1>3, <2>1, FitsItself DEF Masked
  <2>2. CASE c.mask # Nil
    <3>1. c.mask \in Shape
      BY <2>2 DEF CallShapes, Shape
    <3>2. w = Broadcast(Scores(c), c.mask)
      BY <1>1, <2>2 DEF Masked
    <3>. QED
      BY <1>1, <1>3, <3>1, <3>2, BroadcastFits, MatrixBroadcast
  <2>. QED
    BY <2>1, <2>2
<1>. HIDE DEF w
<1>5. FitsIn(Lead(Scores(c)), Lead(w))
  BY <1>3, <1>4, FitsAsStack
<1>6. /\ Lead(Scores(c)) \in Shape /\ Lead(w) \in Shape /\ Lead(c.q) \in Shape
      /\ Lead(Expanded(c, c.k)) \in Shape
  BY <1>3, <1>4, LeadAxes, Expanding
<1>. QED
  BY <1>2, <1>4, <1>5, <1>6, ScoresAxes, FitsTransitive DEF w

(* A mask that fits the scores does not stretch them.                      *)
LEMMA MaskedWeights ==
  ASSUME NEW c \in CallShapes, Validates(c), WeightsShape(c) # Error,
         c.mask # Nil => /\ Len(c.mask) >= 1 => Dim(c.mask, 1) \in {1, Dim(c.k, 2)}
                         /\ Len(c.mask) >= 2 => Dim(c.mask, 2) \in {1, Dim(c.q, 2)}
  PROVE  Dim(WeightsShape(c), 1) = Dim(c.k, 2) /\ Dim(WeightsShape(c), 2) = Dim(c.q, 2)
<1> DEFINE s == Scores(c)
<1>1. WeightsShape(c) = Masked(c) /\ s # Error
  BY WeightsAxes DEF WeightsShape
<1>2. s \in Matrices /\ Dim(s, 1) = Dim(c.k, 2) /\ Dim(s, 2) = Dim(c.q, 2)
  BY <1>1, ScoresAxes
<1>3. CASE c.mask = Nil
  BY <1>1, <1>2, <1>3 DEF Masked
<1>4. CASE c.mask # Nil
  <2>1. /\ c.mask \in Shape /\ WeightsShape(c) = Broadcast(s, c.mask)
        /\ s \in Shape /\ Len(s) \in Nat /\ Len(s) >= 2 /\ Len(c.mask) \in Nat
    BY <1>1, <1>2, <1>4, ShapeAxes DEF Masked, CallShapes, Shape, Matrices
  <2>. HIDE DEF s
  <2>2. \A i \in {1, 2} : /\ i \in 1..Ndim(s, c.mask) /\ Axis(s, i) = Dim(s, i)
                          /\ Axis(c.mask, i) = 1 \/ Axis(c.mask, i) = Dim(s, i)
    BY <1>2, <1>4, <2>1 DEF Ndim, Axis
  <2>3. \A i \in 1..Ndim(s, c.mask) :
          Dim(WeightsShape(c), i) = IF Axis(s, i) = 1 THEN Axis(c.mask, i) ELSE Axis(s, i)
    BY <2>1, Broadcasting
  <2>. QED
    BY <1>2, <2>2, <2>3
<1>. QED
  BY <1>3, <1>4

(* The output of a call that is not refused, axis by axis.                 *)
LEMMA ForwardAxes ==
  ASSUME NEW c \in CallShapes, Forward(c) # Error
  PROVE  /\ Validates(c) /\ WeightsShape(c) # Error
         /\ Forward(c) = MatMul(WeightsShape(c), Expanded(c, c.v))
         /\ Forward(c) \in Matrices /\ Lead(Forward(c)) \in Shape
         /\ Lead(Forward(c)) = Broadcast(Lead(WeightsShape(c)), Lead(Expanded(c, c.v)))
         /\ Lead(Forward(c)) # Error
         /\ FitsIn(Lead(WeightsShape(c)), Lead(Forward(c)))
         /\ FitsIn(Lead(Expanded(c, c.v)), Lead(Forward(c)))
         /\ Dim(Forward(c), 1) = Dim(c.v, 1) /\ Dim(Forward(c), 2) = Dim(WeightsShape(c), 2)
<1> DEFINE w == WeightsShape(c)
           v == Expanded(c, c.v)
<1>1. Validates(c) /\ Forward(c) = MatMul(w, v)
  BY DEF Forward
<1>2. w # Error
  BY <1>1 DEF MatMul
<1>3. w \in Matrices /\ v \in Matrices /\ Dim(v, 1) = Dim(c.v, 1)
  BY <1>1, <1>2, WeightsAxes, Expanding
<1>. HIDE DEF w, v
<1>4. /\ Forward(c) \in Matrices /\ Lead(Forward(c)) = Broadcast(Lead(w), Lead(v))
      /\ Broadcast(Lead(w), Lead(v)) # Error
      /\ Dim(Forward(c), 1) = Dim(v, 1) /\ Dim(Forward(c), 2) = Dim(w, 2)
  BY <1>1, <1>3, Multiplying
<1>5. Lead(w) \in Shape /\ Lead(v) \in Shape
  BY <1>3, LeadAxes
<1>6. /\ Lead(Forward(c)) \in Shape
      /\ FitsIn(Lead(w), Lead(Forward(c))) /\ FitsIn(Lead(v), Lead(Forward(c)))
  BY <1>4, <1>5, BroadcastFits
<1>. QED
  BY <1>1, <1>2, <1>3, <1>4, <1>6 DEF w, v

-----------------------------------------------------------------------------
(* The Vulkan adapter takes no call that the oracle refuses or answers in  *)
(* another shape (vkbackend.py:111-116): one stack of slices in, the same  *)
(* stack out, for every rank and size.                                     *)
THEOREM CoveredCallsKeepShape ==
  ASSUME NEW c \in CallShapes, Covers(c)
  PROVE  Forward(c) = KernelShape(c)
<1> DEFINE lead == Lead(c.q)
           s == Scores(c)
<1>1. c.q \in Matrices /\ c.k \in Matrices /\ c.v \in Matrices
  BY DEF Covers, CallShapes, Matrices, Shape
<1>2. Validates(c) /\ ~c.gqa /\ c.mask = Nil /\ c.special # "dropout"
  BY DEF Covers, Validates
<1>3. Expanded(c, c.k) = c.k /\ Expanded(c, c.v) = c.v
  BY <1>2 DEF Expanded
<1>4. lead \in Shape /\ Broadcast(lead, lead) = lead /\ lead # Error
  BY <1>1, LeadAxes, FitsItself, BroadcastAbsorbs, ErrorIsNoShape
<1>5. Lead(c.k) = lead /\ Lead(c.v) = lead
  BY DEF Covers
<1>. HIDE DEF lead
<1>6. s # Error
  <2>1. Swap(c.k) \in Matrices /\ Lead(Swap(c.k)) = lead /\ Dim(Swap(c.k), 2) = Dim(c.k, 1)
    BY <1>1, <1>5, Swapping
  <2>2. Dim(c.q, 1) = Dim(c.k, 1)
    BY DEF Covers
  <2>. QED
    BY <1>1, <1>3, <1>4, <2>1, <2>2, Multiplying DEF Scores, lead
<1>7. s \in Matrices /\ Dim(s, 1) = Dim(c.k, 2) /\ Dim(s, 2) = Dim(c.q, 2) /\ Lead(s) = lead
  <2>1. Swap(c.k) \in Matrices /\ Lead(Swap(c.k)) = lead
    BY <1>1, <1>5, Swapping
  <2>2. Lead(s) = Broadcast(lead, lead)
    BY <1>1, <1>3, <1>6, <2>1, Multiplying DEF Scores, lead
  <2>. QED
    BY <1>2, <1>4, <1>6, <2>2, ScoresAxes
<1>. HIDE DEF s
<1>8. WeightsShape(c) = s
  <2>1. Dim(c.k, 2) # 0
    BY DEF Covers
  <2>. QED
    BY <1>2, <1>7, <2>1 DEF WeightsShape, Masked, s
<1>9. Forward(c) = MatMul(s, c.v)
  BY <1>2, <1>3, <1>8 DEF Forward
<1>10. Dim(s, 1) = Dim(c.v, 2) /\ Dim(c.v, 1) = Dim(c.q, 1)
  BY <1>7 DEF Covers
<1>11. Forward(c) = Core(lead, Dim(c.q, 2), Dim(c.q, 1))
  BY <1>1, <1>4, <1>5, <1>7, <1>9, <1>10, Multiplying
<1>. QED
  BY <1>4, <1>11 DEF Core, KernelShape, lead

-----------------------------------------------------------------------------
(* Where the parts of a gradient land.                                     *)
LEMMA HeadsOfOutput ==
  ASSUME NEW c \in CallShapes, Forward(c) # Error, c.gqa
  PROVE  /\ Dim(c.q, 3) # 1 => Dim(Forward(c), 3) = Dim(c.q, 3)
         /\ Len(Forward(c)) >= 3 /\ Dim(Forward(c), 3) \in Nat
<1> DEFINE v == Expanded(c, c.v)
           returned == Forward(c)
<1>1. v \in Matrices /\ Len(v) >= 3 /\ Dim(v, 3) = Dim(c.q, 3)
  BY ForwardAxes, Expanding
<1>2. returned \in Matrices /\ FitsIn(Lead(v), Lead(returned))
  BY ForwardAxes
<1>. HIDE DEF v, returned
<1>3. /\ Len(v) \in Nat /\ Len(returned) \in Nat /\ Len(Lead(v)) = Len(v) - 2 /\ Len(Lead(returned)) = Len(returned) - 2
      /\ Len(returned) >= 2
  BY <1>1, <1>2, LeadAxes, ShapeAxes DEF Matrices
<1>4. Len(returned) >= 3
  BY <1>1, <1>2, <1>3 DEF FitsIn
<1>5. Dim(Lead(v), 1) = Dim(v, 1 + 2) /\ Dim(Lead(returned), 1) = Dim(returned, 1 + 2)
  BY <1>1, <1>2, <1>3, <1>4, LeadAxes
<1>6. Dim(v, 3) = 1 \/ Dim(v, 3) = Dim(returned, 3)
  BY <1>1, <1>2, <1>3, <1>5 DEF FitsIn
<1>7. Dim(returned, 3) \in Nat
  BY <1>2, <1>3, <1>4, ShapeAxes DEF Matrices
<1>. QED
  BY <1>1, <1>4, <1>6, <1>7 DEF returned

(* A number below the divisor has quotient zero.                           *)
LEMMA SmallQuotient ==
  ASSUME NEW d \in Nat \ {0}, NEW x \in Nat, x < d
  PROVE  x \div d = 0
  BY SMT

(* A factor is at most the product.                                        *)
LEMMA FactorsBounded ==
  ASSUME NEW g \in Nat \ {0}, NEW r \in Nat \ {0}
  PROVE  /\ g * r = 1 => g = 1 /\ r = 1
         /\ \A q \in Nat : g * r = q => g <= q
         /\ \A h \in Nat : h >= g => h \div g \in Nat \ {0}
<1>1. g * r = 1 => g = 1 /\ r = 1
  BY SMT
<1>2. ASSUME NEW q \in Nat, g * r = q
      PROVE  g <= q
  BY <1>2, SMT
<1>3. ASSUME NEW h \in Nat, h >= g
      PROVE  h \div g \in Nat \ {0}
  BY <1>3, SMT
<1>. QED
  BY <1>1, <1>2, <1>3

(* A slice picks one position on each leading axis.                        *)
LEMMA SliceAxes ==
  ASSUME NEW lead \in Shape, NEW f \in Slices(lead)
  PROVE  f \in Shape /\ Len(f) = Len(lead) /\ \A i \in 1..Len(lead) : f[i] < lead[i]
<1>1. /\ f \in [1..Len(lead) -> 0..Max({0} \cup ToSet(lead))]
      /\ \A i \in DOMAIN f : f[i] < lead[i]
  BY DEF Slices
<1>2. f \in [1..Len(lead) -> Nat]
  BY <1>1
<1>. QED
  BY <1>1, <1>2, ShapeAxes, ShapeMade

(* The position a broadcast slice has in the shape it was stretched from.  *)
LEMMA Projecting ==
  ASSUME NEW f \in Shape, NEW lead \in Shape, Len(lead) <= Len(f)
  PROVE  /\ Onto(f, lead) \in [1..Len(lead) -> Nat]
         /\ Onto(f, lead) \in Shape /\ Len(Onto(f, lead)) = Len(lead)
         /\ \A i \in 1..Len(lead) :
              Onto(f, lead)[i] = IF lead[i] = 1 THEN 0 ELSE f[Len(f) - Len(lead) + i]
<1>1. Len(f) \in Nat /\ Len(lead) \in Nat /\ \A i \in 1..Len(f) : f[i] \in Nat
  BY ShapeAxes
<1>2. \A i \in 1..Len(lead) : Len(f) - Len(lead) + i \in 1..Len(f)
  BY <1>1
<1>3. /\ Onto(f, lead) \in [1..Len(lead) -> Nat]
      /\ \A i \in 1..Len(lead) :
           Onto(f, lead)[i] = IF lead[i] = 1 THEN 0 ELSE f[Len(f) - Len(lead) + i]
  BY <1>1, <1>2 DEF Onto
<1>. QED
  BY <1>1, <1>3, ShapeMade

(* Dividing the head of a slice leaves its other positions.                *)
LEMMA DividingHeads ==
  ASSUME NEW f \in Shape, Len(f) >= 1, NEW by \in Nat \ {0}
  PROVE  /\ HeadDivided(f, by) \in Shape /\ Len(HeadDivided(f, by)) = Len(f)
         /\ \A i \in 1..Len(f) :
              HeadDivided(f, by)[i] = IF i = Len(f) THEN f[i] \div by ELSE f[i]
<1>1. Len(f) \in Nat /\ Len(f) \in 1..Len(f) /\ f \in Seq(Nat) /\ f[Len(f)] \in Nat
  BY ShapeAxes DEF Shape
<1>2. f[Len(f)] \div by \in Nat
  BY <1>1
<1> DEFINE last == f[Len(f)] \div by
<1>3. HeadDivided(f, by) = [f EXCEPT ![Len(f)] = last]
  BY Zenon DEF HeadDivided
<1>. HIDE DEF last
<1>. QED
  BY <1>1, <1>2, <1>3, ExceptSeq DEF Shape, last

(* A gradient is added to the slice of key or value that the forward pass  *)
(* used (backward.py folds and sums what _expand_gqa_heads and matmul      *)
(* repeated and broadcast), for every rank, size, grouping and mask.       *)
THEOREM GradientsLand ==
  ASSUME NEW c \in CallShapes, Forward(c) # Error,
         NEW f \in Slices(Lead(Forward(c))), NEW shape \in {c.k, c.v}
  PROVE  LandingSlice(c, shape, f) = UsedSlice(c, shape, f)
<1> DEFINE lead == Lead(Forward(c))
           e == Lead(Expanded(c, shape))
           s == Lead(shape)
           m == Len(f)
           n == Len(s)
           r == Repeats(c)
           g == Dim(shape, 3)
           h == Dim(Forward(c), 3)
<1>1. CASE ~c.gqa
  <2>1. Expanded(c, shape) = shape
    BY <1>1 DEF Expanded
  <2>. QED
    BY <1>1, <2>1 DEF LandingSlice, UsedSlice
<1>2. CASE c.gqa
  <2>1. Validates(c) /\ lead \in Shape /\ Forward(c) \in Matrices
    BY ForwardAxes
  <2>2. /\ shape \in Matrices /\ Expanded(c, shape) \in Matrices /\ Len(Expanded(c, shape)) = Len(shape)
        /\ Len(shape) >= 3 /\ Len(shape) \in Nat
        /\ Dim(Expanded(c, shape), 3) = Dim(c.q, 3) /\ Dim(c.q, 3) \in Nat \ {0}
        /\ g \in Nat \ {0} /\ r = Dim(c.q, 3) \div g /\ r \in Nat \ {0} /\ g * r = Dim(c.q, 3)
        /\ Expanded(c, shape) = WithHeads(shape, Dim(c.q, 3))
    BY <1>2, <2>1, Expanding, ShapeAxes DEF Matrices
  <2>3. /\ e \in Shape /\ s \in Shape /\ n \in Nat /\ n = Len(shape) - 2 /\ Len(e) = n /\ n >= 1
    BY <2>2, LeadAxes
  <2>4. /\ e[n] = Dim(c.q, 3) /\ s[n] = g
        /\ \A i \in 1..n : i # n => e[i] = s[i]
    <3>1. \A i \in 1..n : Dim(e, i) = Dim(Expanded(c, shape), i + 2) /\ Dim(s, i) = Dim(shape, i + 2)
      BY <2>2, <2>3, LeadAxes
    <3>2. /\ 1 + 2 = 3 /\ 1 \in 1..n
          /\ \A i \in 1..n : i + 2 \in 1..Len(shape) /\ (i # 1 => i + 2 # 3)
      BY <2>2, <2>3
    <3>3. shape \in Shape
      BY <2>2 DEF Matrices
    <3>4. Dim(e, 1) = Dim(c.q, 3) /\ Dim(s, 1) = g /\ \A i \in 1..n : i # 1 => Dim(e, i) = Dim(s, i)
      BY <2>2, <3>1, <3>2, <3>3, HeadsChange
    <3>. HIDE DEF e, s, g
    <3>5. \A i \in 1..n : n + 1 - i \in 1..n /\ n + 1 - (n + 1 - i) = i /\ (i # n => n + 1 - i # 1)
      BY <2>3
    <3>6. \A i \in 1..n : e[i] = Dim(e, n + 1 - i) /\ s[i] = Dim(s, n + 1 - i)
      BY <2>3, <3>5 DEF Dim
    <3>7. n \in 1..n /\ n + 1 - n = 1
      BY <2>3
    <3>8. e[n] = Dim(c.q, 3) /\ s[n] = g
      BY <3>4, <3>6, <3>7
    <3>9. ASSUME NEW i \in 1..n, i # n
          PROVE  e[i] = s[i]
      <4>1. n + 1 - i \in 1..n /\ n + 1 - i # 1
        BY <3>5, <3>9
      <4>. QED
        BY <3>4, <3>6, <4>1
    <3>. QED
      BY <3>8, <3>9
  <2>5. /\ f \in Shape /\ m \in Nat /\ m = Len(lead) /\ \A i \in 1..m : f[i] < lead[i]
    BY <2>1, SliceAxes, ShapeAxes
  <2>6. n <= m
    <3>1. Len(e) <= Len(lead)
      <4>1. CASE shape = c.v
        BY <4>1, ForwardAxes DEF FitsIn
      <4>2. CASE shape = c.k
        <5>1. /\ FitsIn(e, Lead(WeightsShape(c))) /\ FitsIn(Lead(WeightsShape(c)), lead)
              /\ Lead(WeightsShape(c)) \in Shape
          BY <4>2, ForwardAxes, WeightsAxes, LeadAxes
        <5>. HIDE DEF e, lead
        <5>2. FitsIn(e, lead)
          BY <2>1, <2>3, <5>1, FitsTransitive
        <5>. QED
          BY <5>2 DEF FitsIn
      <4>. QED
        BY <4>1, <4>2
    <3>. QED
      BY <2>3, <2>5, <3>1
  <2>7. lead[m] = h /\ h \in Nat /\ f[m] \in Nat /\ f[m] < h /\ h # 0
    <3>1. Len(Forward(c)) >= 3 /\ h \in Nat
      BY <1>2, HeadsOfOutput
    <3>2. m = Len(Forward(c)) - 2 /\ Dim(lead, 1) = Dim(Forward(c), 1 + 2) /\ m >= 1
      BY <2>1, <2>5, <3>1, LeadAxes, ShapeAxes DEF Matrices
    <3>3. f[m] \in Nat /\ f[m] < lead[m]
      BY <2>5, <3>2, ShapeAxes
    <3>4. lead[m] = h
      BY <2>5, <3>2 DEF Dim
    <3>. QED
      BY <3>1, <3>3, <3>4
  <2>8. IF Dim(c.q, 3) = 1 THEN g = 1 /\ r = 1 ELSE h = Dim(c.q, 3)
    <3>1. Dim(c.q, 3) = 1 => g = 1 /\ r = 1
      <4>. HIDE DEF g, r
      <4>. QED
        BY <2>2, FactorsBounded
    <3>2. Dim(c.q, 3) # 1 => h = Dim(c.q, 3)
      BY <1>2, HeadsOfOutput
    <3>. QED
      BY <3>1, <3>2
  <2>9. h \div g \in Nat \ {0}
    <3>. HIDE DEF h, g, r
    <3>1. h >= g
      BY <2>2, <2>7, <2>8, FactorsBounded
    <3>. QED
      BY <2>2, <2>7, <3>1, FactorsBounded
  <2> DEFINE used == HeadDivided(Onto(f, e), r)
             folded == HeadDivided(f, h \div g)
             landing == Onto(folded, s)
  <2>10. used = UsedSlice(c, shape, f) /\ landing = LandingSlice(c, shape, f)
    BY <1>2 DEF UsedSlice, LandingSlice, FoldedSlice
  <2>. HIDE DEF e, s, r, g, h, lead, m, n
  <2>11. /\ used \in Shape /\ Len(used) = n
         /\ \A i \in 1..n : used[i] = IF i = n THEN (IF e[n] = 1 THEN 0 ELSE f[m]) \div r
                                     ELSE IF e[i] = 1 THEN 0 ELSE f[m - n + i]
    <3>1. /\ Onto(f, e) \in Shape /\ Len(Onto(f, e)) = n
          /\ \A i \in 1..n : Onto(f, e)[i] = IF e[i] = 1 THEN 0 ELSE f[m - n + i]
      BY <2>3, <2>5, <2>6, Projecting DEF m
    <3>2. n \in 1..n /\ m - n + n = m /\ used = HeadDivided(Onto(f, e), r)
      BY <2>3, <2>5
    <3>. HIDE DEF used
    <3>3. /\ used \in Shape /\ Len(used) = n
          /\ \A i \in 1..n : used[i] = IF i = n THEN Onto(f, e)[i] \div r ELSE Onto(f, e)[i]
      <4> DEFINE onto == Onto(f, e)
      <4>1. onto \in Shape /\ Len(onto) = n /\ n >= 1 /\ r \in Nat \ {0} /\ used = HeadDivided(onto, r)
        BY <2>2, <2>3, <3>1, <3>2
      <4>. HIDE DEF onto
      <4>2. /\ used \in Shape /\ Len(used) = n
            /\ \A i \in 1..n : used[i] = IF i = n THEN onto[i] \div r ELSE onto[i]
        BY <4>1, DividingHeads
      <4>. QED
        BY <4>2 DEF onto
    <3>. QED
      BY <3>1, <3>2, <3>3
  <2>12. /\ landing \in Shape /\ Len(landing) = n
         /\ \A i \in 1..n : landing[i] = IF s[i] = 1 THEN 0
                                        ELSE IF i = n THEN f[m] \div (h \div g) ELSE f[m - n + i]
    <3>1. /\ folded \in Shape /\ Len(folded) = m
          /\ \A i \in 1..m : folded[i] = IF i = m THEN f[i] \div (h \div g) ELSE f[i]
      BY <2>3, <2>5, <2>6, <2>9, DividingHeads DEF m
    <3>2. \A i \in 1..n : m - n + i \in 1..m /\ (m - n + i = m <=> i = n)
      BY <2>3, <2>5, <2>6
    <3>. HIDE DEF folded
    <3>3. /\ landing \in Shape /\ Len(landing) = n
          /\ \A i \in 1..n : landing[i] = IF s[i] = 1 THEN 0 ELSE folded[m - n + i]
      <4>1. s \in Shape /\ Len(s) = n
        BY <2>3 DEF n
      <4>2. Len(s) <= Len(folded) /\ Len(folded) = m
        BY <2>6, <3>1, <4>1
      <4>3. /\ landing \in Shape /\ Len(landing) = Len(s)
            /\ \A i \in 1..Len(s) :
                 landing[i] = IF s[i] = 1 THEN 0 ELSE folded[Len(folded) - Len(s) + i]
        BY <3>1, <4>1, <4>2, Projecting
      <4>. QED
        BY <4>1, <4>2, <4>3
    <3>4. ASSUME NEW i \in 1..n
          PROVE  folded[m - n + i] = IF i = n THEN f[m] \div (h \div g) ELSE f[m - n + i]
      <4>1. m - n + i \in 1..m /\ (m - n + i = m <=> i = n)
        BY <3>2
      <4> DEFINE p == m - n + i
                 share == h \div g
      <4>2. folded[p] = IF p = m THEN f[p] \div share ELSE f[p]
        BY <3>1, <4>1
      <4>3. p = m <=> i = n
        BY <4>1
      <4>. HIDE DEF p, share
      <4>4. folded[p] = IF i = n THEN f[m] \div share ELSE f[p]
        BY <4>2, <4>3
      <4>. QED
        BY <4>4 DEF p, share
    <3>. QED
      BY <3>3, <3>4
  <2>. HIDE DEF used, landing
  <2>13. used[n] = landing[n]
    <3>1. n \in 1..n
      BY <2>3
    <3>2. CASE Dim(c.q, 3) = 1
      BY <2>4, <2>8, <2>11, <2>12, <3>1, <3>2
    <3>3. CASE Dim(c.q, 3) # 1 /\ g = 1
      <4>1. r = h
        BY <2>2, <2>8, <3>3
      <4>2. f[m] \div r = 0
        BY <2>2, <2>7, <4>1, SmallQuotient
      <4>. QED
        BY <2>4, <2>11, <2>12, <3>1, <3>3, <4>2
    <3>4. CASE Dim(c.q, 3) # 1 /\ g # 1
      BY <2>2, <2>4, <2>8, <2>11, <2>12, <3>1, <3>4
    <3>. QED
      BY <3>2, <3>3, <3>4
  <2>14. \A i \in 1..n : used[i] = landing[i]
    BY <2>4, <2>11, <2>12, <2>13
  <2>15. used = landing
    BY <2>11, <2>12, <2>14, SeqEqual DEF Shape
  <2>. QED
    BY <2>10, <2>15
<1>. QED
  BY <1>1, <1>2

-----------------------------------------------------------------------------
(* The backward pass.                                                      *)
GradScores(c, g) == Broadcast(WeightsShape(c), MatMul(g, Swap(Expanded(c, c.v))))
GradQuery(c, g) == MatMul(GradScores(c, g), Expanded(c, c.k))
GradKey(c, g) == MatMul(Swap(GradScores(c, g)), c.q)
GradValue(c, g) == MatMul(Swap(WeightsShape(c)), g)
Grads(c, g) ==
  <<SumToShape(GradQuery(c, g), c.q),
    SumToShape(Folded(c, GradKey(c, g), c.k), c.k),
    SumToShape(Folded(c, GradValue(c, g), c.v), c.v)>>

(* A backward pass that gets the gradient it expects refuses nothing of    *)
(* its own.                                                                *)
LEMMA BackwardComputes ==
  ASSUME NEW c, NEW g, Validates(c), WeightsShape(c) # Error,
         g = ExpectedOutputShape(WeightsShape(c), Expanded(c, c.v))
  PROVE  Backward(c, g) = IF Error \in ToSet(Grads(c, g)) THEN Error ELSE Grads(c, g)
  BY Zenon DEF Backward, Grads, GradQuery, GradKey, GradValue, GradScores

(* Folding and summing undo the repeat and the broadcast of key or value.  *)
LEMMA FoldingRestores ==
  ASSUME NEW c \in CallShapes, Validates(c), NEW shape \in {c.k, c.v}, NEW grad \in Matrices,
         FitsIn(Expanded(c, shape), grad),
         c.gqa => Len(grad) >= 3 /\ (Dim(c.q, 3) # 1 => Dim(grad, 3) = Dim(c.q, 3))
  PROVE  SumToShape(Folded(c, grad, shape), shape) = shape
<1> DEFINE e == Expanded(c, shape)
           t == Folded(c, grad, shape)
           g == Dim(shape, 3)
           h == Dim(grad, 3)
<1>1. shape \in Matrices /\ e \in Matrices /\ shape \in Shape /\ grad \in Shape /\ Len(e) = Len(shape)
  BY Expanding DEF Matrices
<1>2. CASE ~c.gqa
  BY <1>1, <1>2, Expanding, Summing DEF Folded
<1>3. CASE c.gqa
  <2>1. /\ Len(shape) >= 3 /\ Dim(e, 3) = Dim(c.q, 3) /\ e = WithHeads(shape, Dim(c.q, 3))
        /\ Dim(c.q, 3) \in Nat \ {0} /\ g \in Nat \ {0}
        /\ Repeats(c) = Dim(c.q, 3) \div g /\ Repeats(c) \in Nat \ {0} /\ g * Repeats(c) = Dim(c.q, 3)
    BY <1>3, Expanding
  <2>2. Len(grad) >= 3 /\ Len(grad) \in Nat /\ h \in Nat /\ (Dim(c.q, 3) # 1 => h = Dim(c.q, 3))
    BY <1>1, <1>3, ShapeAxes
  <2>3. t = IF h \div g = 1 THEN grad
            ELSE IF (h \div g) * g # h THEN Error ELSE WithHeads(grad, g)
    BY <1>1, <1>3, ErrorIsNoShape DEF Folded, FoldGqaHeads, WithHeads
  <2>. HIDE DEF e, t, g, h
  <2>4. (h \div g) * g = h /\ (h \div g = 1 => g = 1 \/ g = h)
    <3>1. CASE Dim(c.q, 3) = 1
      <4>1. g = 1
        BY <2>1, <3>1, FactorsBounded
      <4>2. h \div 1 = h
        BY <2>2
      <4>. QED
        BY <2>2, <4>1, <4>2
    <3>2. CASE Dim(c.q, 3) # 1
      <4>1. h \div g = Repeats(c) /\ g * Repeats(c) = h
        BY <2>1, <2>2, <3>2
      <4>2. Repeats(c) * g = g * Repeats(c) /\ (Repeats(c) = 1 => g * Repeats(c) = g)
        BY <2>1
      <4>. QED
        BY <4>1, <4>2
    <3>. QED
      BY <3>1, <3>2
  <2>5. /\ t \in Shape /\ Len(t) = Len(grad) /\ (g = 1 \/ g = Dim(t, 3))
        /\ \A i \in 1..Len(grad) : i # 3 => Dim(t, i) = Dim(grad, i)
    <3>1. CASE h \div g = 1
      BY <1>1, <2>3, <2>4, <3>1 DEF h
    <3>2. CASE h \div g # 1
      <4>1. t = WithHeads(grad, g)
        BY <2>3, <2>4, <3>2
      <4>. QED
        BY <1>1, <2>1, <2>2, <4>1, HeadsChange DEF Matrices
    <3>. QED
      BY <3>1, <3>2
  <2>6. \A i \in 1..Len(shape) : i # 3 => Dim(e, i) = Dim(shape, i)
    BY <1>1, <2>1, HeadsChange
  <2>7. FitsIn(e, grad)
    BY DEF e
  <2>8. FitsIn(shape, t)
    <3>1. Len(shape) <= Len(t) /\ \A i \in 1..Len(shape) : i \in 1..Len(grad)
      BY <1>1, <2>2, <2>5, <2>7, ShapeAxes DEF FitsIn
    <3>2. ASSUME NEW i \in 1..Len(shape)
          PROVE  Dim(shape, i) = 1 \/ Dim(shape, i) = Dim(t, i)
      <4>1. CASE i = 3
        BY <2>5, <4>1 DEF g
      <4>2. CASE i # 3
        BY <1>1, <2>5, <2>6, <2>7, <3>1, <4>2 DEF FitsIn
      <4>. QED
        BY <4>1, <4>2
    <3>. QED
      BY <3>1, <3>2 DEF FitsIn
  <2>. QED
    BY <1>1, <2>5, <2>8, Summing DEF t
<1>. QED
  BY <1>2, <1>3

(* A product whose leading axes stretch one way keeps the larger ones.     *)
LEMMA MultipliesInto ==
  ASSUME NEW a \in Matrices, NEW b \in Matrices, Dim(a, 1) = Dim(b, 2),
         FitsIn(Lead(a), Lead(b)) \/ FitsIn(Lead(b), Lead(a))
  PROVE  LET p == MatMul(a, b) IN
         /\ p \in Matrices /\ Dim(p, 1) = Dim(b, 1) /\ Dim(p, 2) = Dim(a, 2)
         /\ FitsIn(Lead(a), Lead(b)) => Lead(p) = Lead(b)
         /\ FitsIn(Lead(b), Lead(a)) => Lead(p) = Lead(a)
<1>1. Lead(a) \in Shape /\ Lead(b) \in Shape /\ Error \notin Shape
  BY LeadAxes, ErrorIsNoShape
<1>2. /\ FitsIn(Lead(a), Lead(b)) => Broadcast(Lead(a), Lead(b)) = Lead(b)
      /\ FitsIn(Lead(b), Lead(a)) => Broadcast(Lead(a), Lead(b)) = Lead(a)
  BY <1>1, BroadcastAbsorbs
<1>3. Broadcast(Lead(a), Lead(b)) # Error
  BY <1>1, <1>2
<1>. QED
  BY <1>2, <1>3, Multiplying

(* A call that the forward pass answers, with a mask that fits, has        *)
(* gradients of the shapes of its inputs (backward.py:131-132).            *)
LEMMA BackwardAnswers ==
  ASSUME NEW c \in CallShapes, Forward(c) # Error,
         Dim(WeightsShape(c), 1) = Dim(c.k, 2), Dim(WeightsShape(c), 2) = Dim(c.q, 2)
  PROVE  Backward(c, Forward(c)) = <<c.q, c.k, c.v>>
<1> DEFINE w == WeightsShape(c)
           k == Expanded(c, c.k)
           v == Expanded(c, c.v)
           returned == Forward(c)
           scores == GradScores(c, returned)
<1>1. /\ Validates(c) /\ w # Error /\ returned \in Matrices /\ returned = MatMul(w, v)
      /\ Lead(returned) = Broadcast(Lead(w), Lead(v)) /\ Lead(returned) \in Shape
      /\ FitsIn(Lead(w), Lead(returned)) /\ FitsIn(Lead(v), Lead(returned))
      /\ Dim(returned, 1) = Dim(c.v, 1) /\ Dim(returned, 2) = Dim(w, 2)
  BY ForwardAxes
<1>2. w \in Matrices /\ FitsIn(Lead(c.q), Lead(w)) /\ FitsIn(Lead(k), Lead(w))
  BY <1>1, WeightsAxes
<1>3. /\ c.q \in Matrices /\ c.k \in Matrices /\ c.v \in Matrices /\ k \in Matrices /\ v \in Matrices
      /\ Dim(k, 1) = Dim(c.k, 1) /\ Dim(k, 2) = Dim(c.k, 2)
      /\ Dim(v, 1) = Dim(c.v, 1) /\ Dim(v, 2) = Dim(c.v, 2)
      /\ Dim(c.q, 1) = Dim(c.k, 1) /\ Dim(c.k, 2) = Dim(c.v, 2)
  BY <1>1, Expanding DEF Validates
<1>4. returned = ExpectedOutputShape(w, v)
  <2>. HIDE DEF w, v, returned
  <2>. QED
    BY <1>1, <1>2, <1>3, Multiplying, ErrorIsNoShape DEF ExpectedOutputShape, Matrices
<1>5. Backward(c, returned) = IF Error \in ToSet(Grads(c, returned)) THEN Error ELSE Grads(c, returned)
  BY <1>1, <1>4, BackwardComputes
<1>. HIDE DEF w, k, v, returned
<1>6. Lead(c.q) \in Shape /\ Lead(w) \in Shape /\ Lead(k) \in Shape /\ Lead(v) \in Shape
  BY <1>2, <1>3, LeadAxes
<1>7. FitsIn(Lead(c.q), Lead(returned)) /\ FitsIn(Lead(k), Lead(returned))
  BY <1>1, <1>2, <1>6, FitsTransitive
<1>8. /\ scores \in Matrices /\ Lead(scores) = Lead(returned)
      /\ Dim(scores, 1) = Dim(c.k, 2) /\ Dim(scores, 2) = Dim(c.q, 2)
  <2> DEFINE gw == MatMul(returned, Swap(v))
  <2>1. /\ Swap(v) \in Matrices /\ Lead(Swap(v)) = Lead(v)
        /\ Dim(Swap(v), 1) = Dim(v, 2) /\ Dim(Swap(v), 2) = Dim(v, 1)
    BY <1>3, Swapping
  <2>2. gw \in Matrices /\ Lead(gw) = Lead(returned) /\ Dim(gw, 1) = Dim(c.k, 2) /\ Dim(gw, 2) = Dim(c.q, 2)
    BY <1>1, <1>3, <2>1, MultipliesInto DEF w
  <2>3. scores = Broadcast(w, gw)
    BY DEF GradScores, w, v
  <2>. HIDE DEF gw
  <2>4. FitsIn(w, gw)
    BY <1>1, <1>2, <2>2, FitsAsStack DEF w
  <2>5. scores = gw
    BY <1>2, <2>2, <2>3, <2>4, BroadcastAbsorbs DEF Matrices
  <2>. QED
    BY <2>2, <2>5
<1>9. SumToShape(GradQuery(c, returned), c.q) = c.q
  <2>1. GradQuery(c, returned) = MatMul(scores, k)
    BY DEF GradQuery, k
  <2>. HIDE DEF scores
  <2>2. /\ MatMul(scores, k) \in Matrices /\ Lead(MatMul(scores, k)) = Lead(returned)
        /\ Dim(MatMul(scores, k), 1) = Dim(c.q, 1) /\ Dim(MatMul(scores, k), 2) = Dim(c.q, 2)
    BY <1>3, <1>7, <1>8, MultipliesInto
  <2>3. FitsIn(c.q, MatMul(scores, k))
    BY <1>3, <1>7, <2>2, FitsAsStack
  <2>. QED
    BY <1>3, <2>1, <2>2, <2>3, Summing DEF Matrices
<1>10. c.gqa => Len(returned) >= 3 /\ (Dim(c.q, 3) # 1 => Dim(returned, 3) = Dim(c.q, 3))
  BY HeadsOfOutput DEF returned
<1>11. ASSUME NEW grad \in Matrices, Lead(grad) = Lead(returned)
       PROVE  c.gqa => Len(grad) >= 3 /\ (Dim(c.q, 3) # 1 => Dim(grad, 3) = Dim(c.q, 3))
  <2>1. c.gqa => Len(grad) = Len(returned) /\ 1 \in 1..Len(grad) - 2 /\ 1 \in 1..Len(returned) - 2
    BY <1>1, <1>10, <1>11, LeadAxes, ShapeAxes DEF Matrices
  <2>2. c.gqa => Dim(grad, 1 + 2) = Dim(returned, 1 + 2)
    BY <1>1, <1>11, <2>1, LeadAxes
  <2>. QED
    BY <1>10, <2>1, <2>2
<1>12. SumToShape(Folded(c, GradKey(c, returned), c.k), c.k) = c.k
  <2>1. GradKey(c, returned) = MatMul(Swap(scores), c.q)
    BY DEF GradKey
  <2>. HIDE DEF scores
  <2>2. /\ Swap(scores) \in Matrices /\ Lead(Swap(scores)) = Lead(returned)
        /\ Dim(Swap(scores), 1) = Dim(c.q, 2) /\ Dim(Swap(scores), 2) = Dim(c.k, 2)
    BY <1>8, Swapping
  <2> DEFINE grad == MatMul(Swap(scores), c.q)
  <2>3. /\ grad \in Matrices /\ Lead(grad) = Lead(returned)
        /\ Dim(grad, 1) = Dim(k, 1) /\ Dim(grad, 2) = Dim(k, 2)
    BY <1>3, <1>7, <2>2, MultipliesInto
  <2>. HIDE DEF grad
  <2>4. FitsIn(k, grad)
    BY <1>3, <1>7, <2>3, FitsAsStack
  <2>5. SumToShape(Folded(c, grad, c.k), c.k) = c.k
    BY <1>1, <1>11, <2>3, <2>4, FoldingRestores DEF k
  <2>. QED
    BY <2>1, <2>5 DEF grad
<1>13. SumToShape(Folded(c, GradValue(c, returned), c.v), c.v) = c.v
  <2>1. /\ Swap(w) \in Matrices /\ Lead(Swap(w)) = Lead(w)
        /\ Dim(Swap(w), 1) = Dim(w, 2) /\ Dim(Swap(w), 2) = Dim(v, 2)
    BY <1>2, <1>3, Swapping DEF w
  <2> DEFINE grad == MatMul(Swap(w), returned)
  <2>2. GradValue(c, returned) = grad
    BY DEF GradValue, w
  <2>3. /\ grad \in Matrices /\ Lead(grad) = Lead(returned)
        /\ Dim(grad, 1) = Dim(v, 1) /\ Dim(grad, 2) = Dim(v, 2)
    BY <1>1, <1>3, <2>1, MultipliesInto
  <2>. HIDE DEF grad
  <2>4. FitsIn(v, grad)
    BY <1>1, <1>3, <2>3, FitsAsStack
  <2>5. SumToShape(Folded(c, grad, c.v), c.v) = c.v
    BY <1>1, <1>11, <2>3, <2>4, FoldingRestores DEF v
  <2>. QED
    BY <2>2, <2>5
<1>14. Grads(c, returned) = <<c.q, c.k, c.v>>
  BY <1>9, <1>12, <1>13 DEF Grads
<1>15. Error \notin ToSet(<<c.q, c.k, c.v>>)
  BY <1>3, ErrorIsNoShape DEF ToSet, Matrices
<1>. QED
  BY <1>5, <1>14, <1>15 DEF returned

(* A call whose forward product does not broadcast is refused by the       *)
(* backward pass too, whatever gradient it is given.                       *)
LEMMA BackwardRefuses ==
  ASSUME NEW c \in CallShapes, c.special # "dropout", Forward(c) = Error,
         Validates(c), WeightsShape(c) # Error,
         Dim(WeightsShape(c), 1) = Dim(c.k, 2)
  PROVE  Backward(c, ExpectedOutputShape(WeightsShape(c), Expanded(c, c.v))) = Error
<1> DEFINE w == WeightsShape(c)
           v == Expanded(c, c.v)
<1>1. w \in Matrices /\ v \in Matrices /\ Dim(v, 2) = Dim(c.v, 2) /\ Dim(c.k, 2) = Dim(c.v, 2)
  BY WeightsAxes, Expanding DEF Validates
<1>2. MatMul(w, v) = Error /\ w # Error
  BY DEF Forward
<1>3. Broadcast(Lead(w), Lead(v)) = Error
  <2>. HIDE DEF w, v
  <2>. QED
    BY <1>1, <1>2, Multiplying DEF w
<1>4. ExpectedOutputShape(w, v) = Error
  BY <1>2, <1>3 DEF ExpectedOutputShape, Core
<1>5. GradValue(c, Error) = Error
  BY DEF GradValue, MatMul
<1>6. SumToShape(Folded(c, GradValue(c, Error), c.v), c.v) = Error
  BY <1>5 DEF SumToShape, Folded, FoldGqaHeads
<1>7. Error \in ToSet(Grads(c, Error))
  BY <1>6 DEF Grads, ToSet
<1>8. Backward(c, Error) = IF Error \in ToSet(Grads(c, Error)) THEN Error ELSE Grads(c, Error)
  BY <1>2, <1>4, BackwardComputes
<1>. QED
  BY <1>4, <1>7, <1>8

-----------------------------------------------------------------------------
Backends == {"reference", "fused", "vulkan"} \cup Plugins

Timeable == (Backends \cup {"auto"}) \X Calls

HarnessStates ==
  [stage : {"off", "save", "set", "export", "calls", "leave"},
   fn : {<<>>} \cup Timeable,
   asked : Asked \cup {Default}, left : Int,
   blas : Counts, env : [ThreadVariables -> Nat]]

CallTypeOK ==
  /\ chosen \in Counts /\ blas \in Counts /\ controls \in BOOLEAN
  /\ pc \in [Threads -> {"idle", "save", "pin", "restore"} \cup Computing]
  /\ pinned \in [Threads -> BOOLEAN] /\ saved \in [Threads -> Counts]
  /\ inherited \in [ThreadVariables -> Nat] /\ env \in [ThreadVariables -> Nat]
  /\ harness \in HarnessStates
  /\ \A name \in DOMAIN registry : registry[name] \in Backends
  /\ registering \in [Registrars -> {NotRegistering}
                        \cup [name : PluginNames \cup {"vulkan"}, backend : Plugins \cup {"vulkan"}]]
  /\ stage \in {"ready", "forward", "answered", "backward"}
  /\ call \in Calls \cup {Nil}
  /\ backend \in Backends \cup {"auto", Nil}
  /\ running \in Backends \cup {Nil} /\ ranForward \in Backends \cup {Nil}
  /\ disturbed \in BOOLEAN

(* The CPU backends are always there, and a step has a backend and a call. *)
Registered == {"reference", "fused"} \subseteq DOMAIN registry
StepKnown ==
  /\ stage # "ready" => backend # Nil /\ call \in Calls
  /\ stage \in {"ready", "answered"} => running = Nil /\ result = Nil
  /\ result # Nil => running = "fused"

(* A measurement: what it calls, what it saved and what it has set.        *)
MeasurementKnown ==
  /\ harness.stage = "off" <=> harness = Off
  /\ harness.stage \in {"save", "set", "export", "calls"} => harness.fn # <<>>
  /\ harness.stage \in {"save", "set", "export", "leave"} => stage = "ready" /\ harness.asked # Default
  /\ harness.stage # "off" => stage \in {"ready", "forward"}
  /\ harness.stage \in {"save", "set"} => controls
  /\ harness.stage = "export" => ~controls
  /\ harness.stage = "set" => harness.blas = chosen

Exported == ~controls /\ harness.asked # Default /\ harness.stage \in {"calls", "leave"}

HarnessHolds ==
  /\ controls /\ harness.asked # Default /\ harness.stage \in {"calls", "leave"} => harness.blas = chosen
  /\ IF Exported THEN harness.env = inherited /\ env = [variable \in ThreadVariables |-> harness.asked]
                 ELSE env = inherited

(* The count that BLAS has between passes: the one asked for, or the       *)
(* process's own.                                                          *)
Held ==
  IF controls /\ harness.asked # Default /\ harness.stage \in {"calls", "leave"} THEN harness.asked ELSE chosen

(* What a fused pass makes of it, and who is in one.                       *)
PinKnown ==
  /\ pc[Thread] \in {"idle", "save"} => blas = Held
  /\ pc[Thread] = "pin" => pinned[Thread] /\ blas = Held /\ saved[Thread] = Held
  /\ pc[Thread] \in Computing /\ ~pinned[Thread] => blas = Held
  /\ pc[Thread] \in Computing /\ pinned[Thread] => blas = BlasThreads /\ saved[Thread] = Held
  /\ pc[Thread] = "restore" => pinned[Thread] /\ saved[Thread] = Held
  /\ pc[Thread] = "save" => pinned[Thread]
  /\ pc[Thread] # "idle" => stage \in {"forward", "backward"} /\ running = "fused" /\ Accepts

(* What was selected for the forward pass would be selected again.         *)
SelectionHolds ==
  /\ running # Nil => ranForward # Nil
  /\ stage \in {"answered", "backward"} => ranForward # Nil
  /\ stage = "ready" => ranForward = Nil
  /\ stage # "ready" /\ ranForward # Nil /\ ~disturbed => Chosen = ranForward
  /\ stage = "backward" /\ running # Nil => running \in Trainable
  /\ stage = "backward" /\ running # Nil /\ ~disturbed => running = ranForward

CallInv ==
  /\ CallTypeOK /\ Registered /\ StepKnown
  /\ MeasurementKnown /\ HarnessHolds /\ PinKnown /\ SelectionHolds

-----------------------------------------------------------------------------
(* A pass that moves along in the fused backend touches BLAS and its own   *)
(* program counter, nothing else.                                          *)
LEMMA FusedMoves ==
  ASSUME CallInv, InFused, chosen' = chosen, controls' = controls,
         result' # Nil => running = "fused",
         pc[Thread] # "idle", running = "fused",
         pc' \in [Threads -> {"idle", "save", "pin", "restore"} \cup Computing],
         pinned' \in [Threads -> BOOLEAN], saved' \in [Threads -> Counts], blas' \in Counts,
         PinKnown'
  PROVE  CallInv'
<1>1. CallTypeOK' /\ Registered' /\ HarnessHolds'
  BY DEF CallInv, CallTypeOK, Registered, HarnessHolds, Exported, InFused, benchmarkVars, registryVars
<1>2. StepKnown' /\ MeasurementKnown' /\ SelectionHolds'
  BY CallsAssumption DEF CallInv, StepKnown, MeasurementKnown, SelectionHolds, Chosen, AutoSelect, SelectsOn, PinKnown, InFused, benchmarkVars, registryVars
<1>. QED
  BY <1>1, <1>2 DEF CallInv

(* A step of the fused backend inside a call keeps the invariant.          *)
LEMMA PinSteps ==
  ASSUME CallInv, PinFused \/ FusedWeights \/ FusedResult \/ FusedRaises
  PROVE  CallInv'
<1>. USE CallsAssumption DEF CallInv, CallTypeOK, Computing, InFused, benchmarkVars, registryVars, PinKnown, Held, Accepts, Goto, Leave
<1>1. CASE Save(Thread) /\ UNCHANGED result /\ InFused
  BY <1>1, FusedMoves DEF Save, StepKnown
<1>2. CASE Pin(Thread) /\ UNCHANGED result /\ InFused
  BY <1>2, FusedMoves, BlasAssumption DEF Pin, Counts, BlasThreads, StepKnown
<1>3. CASE Restore(Thread) /\ UNCHANGED result /\ InFused
  BY <1>3, FusedMoves, BlasAssumption DEF Restore, Counts, BlasThreads, StepKnown
<1>4. CASE FusedWeights
  BY <1>4, FusedMoves DEF FusedWeights, Weights, StepKnown
<1>5. CASE FusedResult
  BY <1>5, FusedMoves DEF FusedResult, Product, Gradients
<1>6. CASE FusedRaises
  BY <1>6, FusedMoves DEF FusedRaises, Raise
<1>. QED
  BY <1>1, <1>2, <1>3, <1>4, <1>5, <1>6 DEF PinFused

(* The harness that is off.                                                *)
LEMMA OffTyped == Off \in HarnessStates /\ Off.stage = "off" /\ Off.asked = Default
  BY BlasAssumption DEF Off, HarnessStates, Counts, BlasThreads, Unset

(* The end of a measurement that has something to put back.                *)
HarnessLeft ==
  /\ harness.asked # Default
  /\ harness' \in HarnessStates /\ harness' # Off
  /\ harness'.stage = "leave" /\ harness'.asked = harness.asked
  /\ harness'.blas = harness.blas /\ harness'.env = harness.env

(* The harness leaves either to nothing at once, or by putting the counts  *)
(* back.                                                                   *)
LEMMA HarnessLeaves ==
  ASSUME harness \in HarnessStates, Leaves
  PROVE  IF harness.asked = Default THEN harness' = Off ELSE HarnessLeft
<1>1. CASE harness.asked # Default
  <2>0. harness' = [harness EXCEPT !.stage = "leave", !.left = 0]
    BY <1>1 DEF Leaves
  <2>1. harness' = [field \in DOMAIN harness |->
                      IF field = "stage" THEN "leave" ELSE IF field = "left" THEN 0 ELSE harness[field]]
    BY <2>0, Zenon
  <2>2. /\ harness' \in HarnessStates
        /\ harness'.stage = "leave" /\ harness'.asked = harness.asked
        /\ harness'.blas = harness.blas /\ harness'.env = harness.env
    BY <2>1 DEF HarnessStates
  <2>. QED
    BY <1>1, <2>2, OffTyped DEF HarnessLeft
<1>. QED
  BY <1>1 DEF Leaves

(* How a measurement begins and goes on, as records.                       *)
LEMMA HarnessStarts ==
  ASSUME NEW fn \in Timeable, NEW n \in Asked, Measure(n, fn)
  PROVE  /\ harness' \in HarnessStates /\ harness'.fn = fn /\ harness'.asked = n
         /\ harness'.stage = IF n = Default THEN "calls" ELSE IF controls THEN "save" ELSE "export"
<1> DEFINE to == IF n = Default THEN "calls" ELSE IF controls THEN "save" ELSE "export"
<1>1. harness' = [field \in DOMAIN Off |->
                    IF field = "fn" THEN fn ELSE IF field = "asked" THEN n
                    ELSE IF field = "left" THEN Timed ELSE IF field = "stage" THEN to ELSE Off[field]]
  BY Zenon DEF Measure
<1>2. Timed \in Int /\ to \in {"save", "export", "calls"}
  BY BenchmarkAssumption
<1> HIDE DEF to
<1>3. harness' \in HarnessStates /\ harness'.fn = fn /\ harness'.asked = n /\ harness'.stage = to
  BY <1>1, <1>2, OffTyped DEF HarnessStates
<1>. QED
  BY <1>3 DEF to

(* Counting a timed call down changes nothing else of the harness.         *)
LEMMA HarnessCounts ==
  ASSUME NEW h \in HarnessStates, NEW g, g = [h EXCEPT !.left = @ - 1]
  PROVE  /\ g \in HarnessStates /\ g.stage = h.stage /\ g.fn = h.fn /\ g.asked = h.asked
         /\ g.blas = h.blas /\ g.env = h.env
  BY DEF HarnessStates

(* The harness saves the count it finds.                                   *)
LEMMA HarnessSaved ==
  ASSUME harness \in HarnessStates, blas \in Counts, HarnessSaves
  PROVE  /\ harness' \in HarnessStates /\ harness'.stage = "set" /\ harness'.fn = harness.fn
         /\ harness'.asked = harness.asked /\ harness'.blas = blas
<1>1. harness' = [field \in DOMAIN harness |->
                    IF field = "stage" THEN "set" ELSE IF field = "blas" THEN blas ELSE harness[field]]
  BY Zenon DEF HarnessSaves
<1>. QED
  BY <1>1 DEF HarnessStates

(* The harness saves the variables it sets.                                *)
LEMMA HarnessExported ==
  ASSUME harness \in HarnessStates, env \in [ThreadVariables -> Nat], HarnessExports
  PROVE  /\ harness' \in HarnessStates /\ harness'.stage = "calls" /\ harness'.fn = harness.fn
         /\ harness'.asked = harness.asked /\ harness'.env = env
<1>1. harness' = [field \in DOMAIN harness |->
                    IF field = "stage" THEN "calls" ELSE IF field = "env" THEN env ELSE harness[field]]
  BY Zenon DEF HarnessExports
<1>. QED
  BY <1>1 DEF HarnessStates

(* A call that enters the fused backend keeps the invariant.               *)
LEMMA Entering ==
  ASSUME CallInv, EnterFused
  PROVE  CallInv'
<1>. USE CallsAssumption DEF CallInv, EnterFused, InFused, Call, Runs, benchmarkVars, registryVars
<1>1. CallTypeOK' /\ Registered' /\ HarnessHolds'
  BY DEF CallTypeOK, Registered, HarnessHolds, Exported, Goto, Computing
<1>2. StepKnown' /\ MeasurementKnown' /\ SelectionHolds'
  BY DEF StepKnown, MeasurementKnown, SelectionHolds, Chosen, AutoSelect, SelectsOn
<1>3. PinKnown'
  BY DEF CallTypeOK, PinKnown, Held, Accepts, Goto, Computing
<1>. QED
  BY <1>1, <1>2, <1>3

(* A pass that is over, with an answer or an exception, has left the pin;  *)
(* the harness goes on, leaves, or is off.                                 *)
LEMMA Returning ==
  ASSUME CallInv, Returns, UNCHANGED <<vars, inherited, env, registryVars>>,
         pc[Thread] = "idle",
         stage # "ready",
         harness' = harness \/ (harness # Off /\ Leaves)
  PROVE  CallInv'
<1>. USE CallsAssumption DEF CallInv, Returns, vars, registryVars
<1>1. harness # Off => harness.stage = "calls"
  BY DEF CallTypeOK, MeasurementKnown, HarnessStates
<1>2. \/ harness' = harness
      \/ harness.asked = Default /\ harness' = Off /\ harness.stage = "calls"
      \/ HarnessLeft /\ harness.stage = "calls"
  BY <1>1, HarnessLeaves DEF CallTypeOK
<1>3. CallTypeOK' /\ Registered'
  BY <1>2, OffTyped DEF CallTypeOK, Registered, HarnessLeft
<1>4. StepKnown' /\ SelectionHolds'
  BY DEF StepKnown, SelectionHolds
<1>5. MeasurementKnown' /\ HarnessHolds' /\ Held' = Held
  BY <1>2, OffTyped DEF MeasurementKnown, HarnessHolds, Exported, HarnessLeft, Held
<1>6. PinKnown'
  BY <1>5 DEF PinKnown, Computing
<1>. QED
  BY <1>3, <1>4, <1>5, <1>6

(* A call that answers keeps the invariant.                                *)
LEMMA Answering ==
  ASSUME CallInv, NEW shape, Answers(shape), UNCHANGED <<vars, inherited, env, registryVars>>,
         pc[Thread] = "idle", stage \in {"forward", "backward"}, running # Nil
  PROVE  CallInv'
<1>1. CASE stage = "backward" \/ harness # Off
  BY <1>1, Returning DEF Answers, Off
<1>2. CASE ~(stage = "backward" \/ harness # Off)
  <2>. USE CallsAssumption, <1>2 DEF CallInv, Answers, vars, registryVars
  <2>1. CallTypeOK' /\ Registered' /\ HarnessHolds'
    BY DEF CallTypeOK, Registered, HarnessHolds, Exported
  <2>2. StepKnown' /\ MeasurementKnown' /\ SelectionHolds'
    BY DEF StepKnown, MeasurementKnown, SelectionHolds, Chosen, AutoSelect, SelectsOn, Off
  <2>3. PinKnown'
    BY DEF CallTypeOK, PinKnown, Held, Computing
  <2>. QED
    BY <2>1, <2>2, <2>3
<1>. QED
  BY <1>1, <1>2

(* A call that raises keeps the invariant.                                 *)
LEMMA Failing ==
  ASSUME CallInv, Fails, UNCHANGED <<vars, inherited, env, registryVars>>,
         pc[Thread] = "idle", stage # "ready"
  PROVE  CallInv'
  BY Returning DEF Fails

(* The steps that end a pass, or hand it to another backend.               *)
LEMMA PassSteps ==
  ASSUME CallInv, Select \/ RunPlain \/ RunOnDevice \/ FallBack \/ RefuseFused \/ LeaveFused
  PROVE  CallInv'
<1>1. CASE Select
  <2>1. pc[Thread] = "idle" /\ stage \in {"forward", "backward"}
    BY <1>1, CallsAssumption DEF Select, CallInv, CallTypeOK, PinKnown
  <2>2. CASE stage = "backward" /\ Chosen \notin Trainable
    BY <1>1, <2>1, <2>2, Failing DEF Select
  <2>3. CASE ~(stage = "backward" /\ Chosen \notin Trainable)
    <3>. USE <1>1, <2>1, <2>3, CallsAssumption DEF CallInv, Select, vars, registryVars
    <3>1. Chosen \in Backends /\ Chosen # Nil
      BY DEF CallTypeOK, StepKnown, Registered, Chosen, AutoSelect, Backends
    <3>2. Chosen' = Chosen
      BY DEF Chosen, AutoSelect, SelectsOn
    <3>3. CallTypeOK' /\ Registered' /\ HarnessHolds' /\ MeasurementKnown'
      BY <3>1 DEF CallTypeOK, Registered, HarnessHolds, Exported, MeasurementKnown
    <3>4. StepKnown' /\ SelectionHolds'
      BY <3>1, <3>2 DEF StepKnown, SelectionHolds
    <3>5. PinKnown'
      BY DEF CallTypeOK, PinKnown, Held, Computing
    <3>. QED
      BY <3>3, <3>4, <3>5
  <2>. QED
    BY <2>2, <2>3
<1>2. CASE RunPlain
  <2>1. pc[Thread] = "idle" /\ stage \in {"forward", "backward"} /\ running # Nil
    BY <1>2, CallsAssumption, RegistryAssumption DEF RunPlain, Runs, CallInv, CallTypeOK, PinKnown
  <2>2. CASE Result = Error
    BY <1>2, <2>1, <2>2, Failing DEF RunPlain
  <2>3. CASE Result # Error
    BY <1>2, <2>1, <2>3, Answering DEF RunPlain
  <2>. QED
    BY <2>2, <2>3
<1>3. CASE RunOnDevice
  <2>1. pc[Thread] = "idle" /\ stage \in {"forward", "backward"} /\ running # Nil
    BY <1>3, CallsAssumption DEF RunOnDevice, Runs, CallInv, CallTypeOK, PinKnown
  <2>. QED
    BY <1>3, <2>1, Answering DEF RunOnDevice
<1>4. CASE FallBack
  <2>. USE <1>4, CallsAssumption DEF CallInv, FallBack, Runs, vars, benchmarkVars, registryVars
  <2>1. pc[Thread] = "idle" /\ stage = "forward"
    BY RegistryAssumption DEF CallTypeOK, PinKnown, SelectionHolds, Trainable
  <2>2. CallTypeOK' /\ Registered' /\ HarnessHolds' /\ MeasurementKnown'
    BY DEF CallTypeOK, Registered, HarnessHolds, Exported, MeasurementKnown, Backends
  <2>3. StepKnown' /\ SelectionHolds'
    BY <2>1 DEF StepKnown, SelectionHolds, Chosen, AutoSelect, SelectsOn
  <2>4. PinKnown'
    BY <2>1 DEF CallTypeOK, PinKnown, Held, Computing
  <2>. QED
    BY <2>2, <2>3, <2>4
<1>5. CASE RefuseFused
  <2>1. pc[Thread] = "idle" /\ stage # "ready"
    BY <1>5, CallsAssumption DEF RefuseFused, Runs, CallInv, CallTypeOK, PinKnown
  <2>. QED
    BY <1>5, <2>1, Failing DEF RefuseFused
<1>6. CASE LeaveFused
  <2>1. pc[Thread] = "idle" /\ stage \in {"forward", "backward"} /\ running # Nil
    BY <1>6, CallsAssumption DEF LeaveFused, CallInv, CallTypeOK, StepKnown
  <2>2. CASE result = Error
    BY <1>6, <2>1, <2>2, Failing DEF LeaveFused
  <2>3. CASE result # Error
    BY <1>6, <2>1, <2>3, Answering DEF LeaveFused
  <2>. QED
    BY <2>2, <2>3
<1>. QED
  BY <1>1, <1>2, <1>3, <1>4, <1>5, <1>6

(* The steps of the caller: a step begins, goes on to the gradients, ends. *)
LEMMA CallerSteps ==
  ASSUME CallInv,
         \/ \E name \in Names, c \in Calls : Step(name, c)
         \/ TimedCall \/ AskGradients \/ EndStep
  PROVE  CallInv'
<1>1. ASSUME NEW b \in Backends \cup {"auto"}, NEW c \in Calls, Starts(b, c),
             harness' = harness \/ (harness.stage = "calls" /\ harness' = [harness EXCEPT !.left = @ - 1]),
             harness = Off \/ harness.stage = "calls",
             UNCHANGED <<vars, inherited, env, registryVars>>
      PROVE  CallInv'
  <2>. USE <1>1, CallsAssumption DEF CallInv, Starts, vars, registryVars
  <2>1. /\ harness' \in HarnessStates /\ harness'.stage = harness.stage
        /\ harness'.fn = harness.fn /\ harness'.asked = harness.asked
        /\ harness'.blas = harness.blas /\ harness'.env = harness.env
    <3>1. CASE harness' = harness
      BY <3>1 DEF CallTypeOK
    <3>2. CASE harness' = [harness EXCEPT !.left = @ - 1]
      BY <3>2, HarnessCounts DEF CallTypeOK
    <3>. QED
      BY <3>1, <3>2
  <2>2. harness' = Off <=> harness = Off
    BY <2>1, OffTyped DEF CallTypeOK, MeasurementKnown
  <2>3. CallTypeOK' /\ Registered'
    BY <2>1 DEF CallTypeOK, Registered
  <2>4. HarnessHolds' /\ MeasurementKnown' /\ Held' = Held
    BY <2>1, <2>2, OffTyped DEF HarnessHolds, Exported, MeasurementKnown, Held
  <2>5. StepKnown' /\ SelectionHolds'
    BY DEF StepKnown, SelectionHolds, Backends
  <2>6. PinKnown'
    BY <2>4 DEF PinKnown, Computing
  <2>. QED
    BY <2>3, <2>4, <2>5, <2>6
<1>2. ASSUME NEW name \in Names, NEW c \in Calls, Step(name, c)
      PROVE  CallInv'
  <2>1. Resolved(name) \in Backends \cup {"auto"}
    BY <1>2 DEF Step, Known, Resolved, CallInv, CallTypeOK
  <2>. QED
    BY <1>1, <1>2, <2>1 DEF Step, benchmarkVars
<1>3. CASE TimedCall
  <2>1. harness.fn[1] \in Backends \cup {"auto"} /\ harness.fn[2] \in Calls
    BY <1>3 DEF TimedCall, CallInv, CallTypeOK, HarnessStates, Timeable, MeasurementKnown
  <2>. QED
    BY <1>1, <1>3, <2>1 DEF TimedCall
<1>4. CASE AskGradients
  <2>. USE <1>4, CallsAssumption DEF CallInv, AskGradients, vars, benchmarkVars, registryVars
  <2>1. CallTypeOK' /\ Registered' /\ HarnessHolds' /\ MeasurementKnown'
    BY OffTyped DEF CallTypeOK, Registered, HarnessHolds, Exported, MeasurementKnown, HarnessStates
  <2>2. StepKnown' /\ SelectionHolds'
    BY DEF StepKnown, SelectionHolds, Chosen, AutoSelect, SelectsOn
  <2>3. PinKnown'
    BY DEF CallTypeOK, PinKnown, Held, Computing
  <2>. QED
    BY <2>1, <2>2, <2>3
<1>5. CASE EndStep
  <2>1. pc[Thread] = "idle"
    BY <1>5, CallsAssumption DEF EndStep, CallInv, CallTypeOK, PinKnown
  <2>. QED
    BY <1>5, <2>1, Returning DEF EndStep, benchmarkVars
<1>. QED
  BY <1>2, <1>3, <1>4, <1>5

(* The steps of the harness itself.                                        *)
LEMMA HarnessSteps ==
  ASSUME CallInv,
         HarnessStep \/ \E n \in Asked, name \in Names, c \in Measured : StartMeasuring(n, name, c)
  PROVE  CallInv'
<1>. USE CallsAssumption DEF CallInv, stepVars, registryVars
<1>0. pc[Thread] = "idle" \/ harness.stage = "calls" \/ harness = Off
  BY DEF CallTypeOK, MeasurementKnown, PinKnown, HarnessStates
<1>1. ASSUME NEW n \in Asked, NEW name \in Names, NEW c \in Measured, StartMeasuring(n, name, c)
      PROVE  CallInv'
  <2>. USE <1>1 DEF StartMeasuring
  <2>1. <<Resolved(name), c>> \in Timeable
    BY DEF Known, Resolved, CallTypeOK, Timeable
  <2> DEFINE fn == <<Resolved(name), c>>
  <2>2. fn # <<>>
    OBVIOUS
  <2> HIDE DEF fn
  <2>3. /\ harness' \in HarnessStates /\ harness'.fn = fn /\ harness'.asked = n
        /\ harness'.stage = IF n = Default THEN "calls" ELSE IF controls THEN "save" ELSE "export"
    BY <2>1, HarnessStarts DEF fn
  <2>4. harness = Off /\ UNCHANGED <<chosen, controls, blas, pc, pinned, saved, inherited, env>>
    BY DEF Measure, vars
  <2>. USE <2>4
  <2>5. CallTypeOK' /\ Registered' /\ pc[Thread] = "idle"
    BY <2>3 DEF CallTypeOK, Registered, PinKnown
  <2>6. HarnessHolds' /\ MeasurementKnown' /\ Held' = Held
    <3>1. env = inherited /\ controls \in BOOLEAN /\ Held = chosen
      BY OffTyped DEF HarnessHolds, Exported, CallTypeOK, Held
    <3>2. HarnessHolds' /\ Held' = Held
      BY <2>3, <3>1 DEF HarnessHolds, Exported, Held
    <3>3. MeasurementKnown'
      BY <2>2, <2>3, <3>1, OffTyped DEF MeasurementKnown
    <3>. QED
      BY <3>2, <3>3
  <2>7. StepKnown' /\ SelectionHolds'
    BY DEF StepKnown, SelectionHolds, Chosen, AutoSelect, SelectsOn
  <2>8. PinKnown'
    BY <2>5, <2>6 DEF PinKnown, Computing
  <2>. QED
    BY <2>5, <2>6, <2>7, <2>8
<1>2. ASSUME HarnessStep PROVE CallInv'
  <2>. USE <1>2 DEF HarnessStep
  <2>1. pc[Thread] = "idle" /\ UNCHANGED <<chosen, controls, pc, pinned, saved, inherited>>
    BY OffTyped DEF HarnessSaves, HarnessSets, HarnessExports, HarnessRestores, CallTypeOK, MeasurementKnown, PinKnown, vars
  <2>2. StepKnown' /\ SelectionHolds' /\ Registered'
    BY DEF StepKnown, SelectionHolds, Registered, Chosen, AutoSelect, SelectsOn
  <2>3. CallTypeOK'
    <3>1. CASE HarnessSaves
      BY <2>1, <3>1 DEF HarnessSaves, CallTypeOK, HarnessStates, vars
    <3>2. CASE HarnessSets
      BY <2>1, <3>2, BenchmarkAssumption DEF HarnessSets, CallTypeOK, HarnessStates, MeasurementKnown
    <3>3. CASE HarnessExports
      <4>1. harness' \in HarnessStates
        BY <3>3, HarnessExported DEF CallTypeOK
      <4>2. harness.asked \in Nat
        BY <3>3, BenchmarkAssumption DEF HarnessExports, CallTypeOK, HarnessStates, MeasurementKnown, Counts
      <4>. QED
        BY <2>1, <3>3, <4>1, <4>2 DEF HarnessExports, CallTypeOK, vars
    <3>4. CASE HarnessRestores
      BY <2>1, <3>4, OffTyped DEF HarnessRestores, CallTypeOK, HarnessStates
    <3>. QED
      BY <3>1, <3>2, <3>3, <3>4
  <2>4. HarnessHolds' /\ MeasurementKnown' /\ blas' = Held'
    <3>1. CASE HarnessSaves
      <4>1. /\ harness' \in HarnessStates /\ harness'.stage = "set" /\ harness'.fn = harness.fn
            /\ harness'.asked = harness.asked /\ harness'.blas = blas
        BY <3>1, HarnessSaved DEF CallTypeOK
      <4>2. harness.stage = "save" /\ UNCHANGED <<blas, env>>
        BY <3>1 DEF HarnessSaves, vars
      <4>. QED
        BY <2>1, <4>1, <4>2, OffTyped DEF HarnessHolds, Exported, MeasurementKnown, PinKnown, Held
    <3>2. CASE HarnessSets
      BY <2>1, <3>2, OffTyped DEF HarnessSets, CallTypeOK, HarnessStates, HarnessHolds, Exported, MeasurementKnown, Held
    <3>3. CASE HarnessExports
      <4>1. /\ harness' \in HarnessStates /\ harness'.stage = "calls" /\ harness'.fn = harness.fn
            /\ harness'.asked = harness.asked /\ harness'.env = env
        BY <3>3, HarnessExported DEF CallTypeOK
      <4>. QED
        <5>1. /\ harness.stage = "export" /\ UNCHANGED blas
              /\ env' = [variable \in ThreadVariables |-> harness.asked]
          BY <3>3 DEF HarnessExports, vars
        <5>. QED
          BY <2>1, <4>1, <5>1, OffTyped DEF HarnessHolds, Exported, MeasurementKnown, PinKnown, Held
    <3>4. CASE HarnessRestores
      BY <2>1, <3>4, OffTyped DEF HarnessRestores, CallTypeOK, HarnessHolds, Exported, MeasurementKnown, PinKnown, Held
    <3>. QED
      BY <3>1, <3>2, <3>3, <3>4
  <2>5. PinKnown'
    BY <2>1, <2>4 DEF PinKnown, Computing
  <2>. QED
    BY <2>2, <2>3, <2>4, <2>5
<1>. QED
  BY <1>1, <1>2

(* The other threads register backends.                                    *)
LEMMA RegistrarSteps ==
  ASSUME CallInv, NEW r \in Registrars, Registers(r) \/ Replaces(r)
  PROVE  CallInv'
<1>. USE CallsAssumption DEF CallInv
<1>1. CASE Registers(r)
  <2>. USE <1>1 DEF Registers, RegisterBackend, RegisterVulkan, LookUp, vars, benchmarkVars, stepVars
  <2>1. CallTypeOK'
    <3>1. registering' \in [Registrars -> {NotRegistering}
                        \cup [name : PluginNames \cup {"vulkan"}, backend : Plugins \cup {"vulkan"}]]
      BY DEF CallTypeOK
    <3>. QED
      BY <3>1 DEF CallTypeOK
  <2>2. Registered' /\ StepKnown' /\ MeasurementKnown' /\ HarnessHolds'
    BY DEF Registered, StepKnown, MeasurementKnown, HarnessHolds, Exported
  <2>3. PinKnown' /\ SelectionHolds'
    BY DEF PinKnown, Held, Accepts, SelectionHolds, Chosen, AutoSelect, SelectsOn
  <2>. QED
    BY <2>1, <2>2, <2>3
<1>2. CASE Replaces(r)
  <2>. USE <1>2 DEF Replaces, Store, vars, benchmarkVars
  <2>1. CallTypeOK'
    <3>1. registering[r].backend \in Plugins \cup {"vulkan"}
      BY DEF CallTypeOK
    <3>2. \A name \in DOMAIN registry' : registry'[name] \in Backends
      BY <3>1 DEF CallTypeOK, Backends
    <3>3. registering' \in [Registrars -> {NotRegistering}
                        \cup [name : PluginNames \cup {"vulkan"}, backend : Plugins \cup {"vulkan"}]]
      BY DEF CallTypeOK
    <3>. QED
      BY <3>2, <3>3 DEF CallTypeOK, registryVars
  <2>2. Registered' /\ StepKnown' /\ MeasurementKnown' /\ HarnessHolds'
    BY DEF Registered, StepKnown, MeasurementKnown, HarnessHolds, Exported
  <2>3. PinKnown'
    BY DEF PinKnown, Held, Accepts
  <2>4. ~disturbed' /\ ranForward # Nil => ~disturbed /\ Chosen' = Chosen
    BY DEF Chosen, AutoSelect, SelectsOn, Registered, CallTypeOK
  <2>5. SelectionHolds'
    BY <2>4 DEF SelectionHolds
  <2>. QED
    BY <2>1, <2>2, <2>3, <2>5
<1>. QED
  BY <1>1, <1>2

(* The first state satisfies the invariant.                                *)
LEMMA CallsStart == CallsInit => CallInv
<1> SUFFICES ASSUME CallsInit PROVE CallInv
  OBVIOUS
<1>. USE CallsAssumption DEF CallsInit, Init, BenchmarkInit, RegistryInit
<1>1. CallTypeOK
  <2>1. \A name \in DOMAIN registry : registry[name] \in Backends
    BY DEF Backends
  <2>2. BlasThreads \in Counts
    BY BlasAssumption DEF Counts, BlasThreads
  <2>3. registering \in [Registrars -> {NotRegistering}
                        \cup [name : PluginNames \cup {"vulkan"}, backend : Plugins \cup {"vulkan"}]]
    OBVIOUS
  <2>. QED
    BY <2>1, <2>2, <2>3, OffTyped, BenchmarkAssumption DEF CallTypeOK
<1>2. Registered /\ StepKnown /\ SelectionHolds
  BY DEF Registered, StepKnown, SelectionHolds
<1>3. MeasurementKnown /\ HarnessHolds /\ PinKnown
  BY OffTyped DEF MeasurementKnown, HarnessHolds, Exported, PinKnown, Held, Computing
<1>. QED
  BY <1>1, <1>2, <1>3 DEF CallInv

(* Every step keeps the invariant.                                         *)
LEMMA CallsStep == CallInv /\ [CallsNext]_allVars => CallInv'
<1> SUFFICES ASSUME CallInv, [CallsNext]_allVars PROVE CallInv'
  OBVIOUS
<1>1. CASE UNCHANGED allVars
  BY <1>1 DEF allVars, vars, benchmarkVars, registryVars, stepVars, CallInv, CallTypeOK, Registered, StepKnown,
     MeasurementKnown, HarnessHolds, Exported, PinKnown, Held, Accepts, SelectionHolds, Chosen, AutoSelect, SelectsOn
<1>. QED
  BY <1>1, PinSteps, Entering, PassSteps, CallerSteps, HarnessSteps, RegistrarSteps DEF CallsNext

(* The state of a step, a measurement and the registry is always one that  *)
(* the code can account for: the count BLAS has, the count each pin and    *)
(* measurement will put back, and the backend a pass would select.         *)
THEOREM CallsInvariant == CallsSpec => []CallInv
<1>. QED
  BY CallsStart, CallsStep, PTL DEF CallsSpec

(* For the one thread of a training step or a measurement, every GEMM of a *)
(* pinned call runs on one BLAS thread ("for the duration of the context", *)
(* fused.py:131), whoever measures it and with whatever count.             *)
THEOREM PinHolds == CallsSpec => []PinnedThroughout
<1>1. CallInv => PinnedThroughout
  BY CallsAssumption DEF CallInv, PinKnown, PinnedThroughout
<1>. QED
  BY <1>1, CallsInvariant, PTL

(* However a step or a measurement ended, BLAS and the thread variables    *)
(* have what they had before (benchmark.py, fused.py): for every sequence  *)
(* of steps, measurements, counts asked for and exceptions.                *)
THEOREM NoTrace == CallsSpec => []LeavesNoTrace
<1>1. CallInv => LeavesNoTrace
  BY CallsAssumption, OffTyped DEF CallInv, CallTypeOK, PinKnown, Held, HarnessHolds, Exported, LeavesNoTrace
<1>. QED
  BY <1>1, CallsInvariant, PTL

(* A measurement is made with the count it asks for, and a backend that    *)
(* pins puts it back (benchmark.py:182).                                   *)
THEOREM MeasuresAsAsked == CallsSpec => []MeasuredAsRequested
<1>1. CallInv => MeasuredAsRequested
  BY CallsAssumption DEF CallInv, CallTypeOK, PinKnown, Held, HarnessHolds, Exported, MeasuredAsRequested
<1>. QED
  BY <1>1, CallsInvariant, PTL

(* A training step computes both passes on one backend (dispatch.py:389),  *)
(* for every call and plugin, unless a CPU backend is replaced in between. *)
THEOREM SameBackend == CallsSpec => []OneBackendPerStep
<1>1. CallInv => OneBackendPerStep
  BY DEF CallInv, SelectionHolds, OneBackendPerStep
<1>. QED
  BY <1>1, CallsInvariant, PTL

-----------------------------------------------------------------------------
(* The shapes of the calls: a step has one of Calls from its first moment. *)
LEMMA StepHasCall == CallInv /\ Fresh => call \in CallShapes
  BY CallsAssumption DEF CallInv, StepKnown, Fresh, CallShapes

(* The adapter takes no call that the oracle refuses or answers in another *)
(* shape (vkbackend.py:111-116), for calls of every rank and size.         *)
THEOREM NeverWidens == CallsSpec => []AdapterNeverWidens
<1>1. CallInv => AdapterNeverWidens
  <2> SUFFICES ASSUME CallInv, Fresh, Covers(call)
               PROVE  /\ Forward(call) = KernelShape(call)
                      /\ Size(Lead(call.k)) = Size(Lead(call.q)) /\ Size(Lead(call.v)) = Size(Lead(call.q))
    BY DEF AdapterNeverWidens
  <2>1. Forward(call) = KernelShape(call)
    BY StepHasCall, CoveredCallsKeepShape
  <2>2. Lead(call.k) = Lead(call.q) /\ Lead(call.v) = Lead(call.q)
    BY DEF Covers
  <2>. QED
    BY <2>1, <2>2
<1>. QED
  BY <1>1, CallsInvariant, PTL

(* A gradient is added to the slice of the input that the forward pass     *)
(* used, for every call the forward pass answers.                          *)
THEOREM GradientsLandThere == CallsSpec => []GradientsLandWhereUsed
<1>1. CallInv => GradientsLandWhereUsed
  BY StepHasCall, GradientsLand DEF GradientsLandWhereUsed
<1>. QED
  BY <1>1, CallsInvariant, PTL

(* Both passes accept the same calls (reference.py:66-67), and gradients   *)
(* have the shapes of the inputs (backward.py:131-132), for every rank,    *)
(* size, grouping and mask that fits.                                      *)
THEOREM PassesAgree == CallsSpec => []BothPassesAgree
<1>1. CallInv => BothPassesAgree
  <2> SUFFICES ASSUME CallInv, Fresh, call.special # "dropout", Validates(call) => MaskFits(call)
               PROVE  IF Forward(call) = Error
                        THEN \/ ~Validates(call) \/ WeightsShape(call) = Error
                             \/ Backward(call, ExpectedOutputShape(WeightsShape(call), Expanded(call, call.v))) = Error
                        ELSE Backward(call, Forward(call)) = <<call.q, call.k, call.v>>
    BY Zenon DEF BothPassesAgree
  <2>1. call \in CallShapes
    BY StepHasCall
  <2>2. Validates(call) /\ WeightsShape(call) # Error =>
          Dim(WeightsShape(call), 1) = Dim(call.k, 2) /\ Dim(WeightsShape(call), 2) = Dim(call.q, 2)
    BY <2>1, MaskedWeights DEF MaskFits
  <2>3. CASE Forward(call) = Error
    BY <2>1, <2>2, <2>3, BackwardRefuses
  <2>4. CASE Forward(call) # Error
    <3>1. Validates(call) /\ WeightsShape(call) # Error
      BY <2>1, <2>4, ForwardAxes
    <3>. QED
      BY <2>1, <2>2, <2>4, <3>1, BackwardAnswers
  <2>. QED
    BY <2>3, <2>4
<1>. QED
  BY <1>1, CallsInvariant, PTL
===============================================================================
