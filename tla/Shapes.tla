------------------------------- MODULE Shapes -------------------------------
(***************************************************************************)
(* What an attention call does to shapes (reference.py, backward.py, and   *)
(* fused.py, which computes the same arrays): which calls are refused,     *)
(* what NumPy broadcasts, what the passes return and where each part of a  *)
(* gradient lands; and which calls the Vulkan adapter takes (vkbackend.py).*)
(* A shape is a sequence of dimensions; the values of an array do not      *)
(* matter here.  A call is a record: the shapes q, k and v, mask (a shape  *)
(* or Nil), causal, gqa, and special, which is "dropout" for a dropout_p   *)
(* other than zero and "other" for a scale that is not finite or a dtype   *)
(* that is not float32.                                                    *)
(***************************************************************************)
EXTENDS Integers, SequencesExt

CONSTANTS Nil,
          Error   \* in place of a shape: an exception is raised

ASSUME ShapesAssumption == Nil # Error /\ Error \notin Seq(Nat)

Lead(shape) == SubSeq(shape, 1, Len(shape) - 2)
Dim(shape, i) == shape[Len(shape) + 1 - i]  \* numpy's shape[-i]
Size(shape) == FoldLeft(LAMBDA size, dim : size * dim, 1, shape)

-----------------------------------------------------------------------------
(* NumPy: broadcasting, matmul and swapaxes(-1, -2), with Error absorbing.  *)
Padded(shape, ndim) ==
  [i \in 1..ndim |-> IF i <= ndim - Len(shape) THEN 1 ELSE shape[i - (ndim - Len(shape))]]

Broadcast(a, b) ==
  IF Error \in {a, b} THEN Error
  ELSE LET ndim == Max({Len(a), Len(b)})
           left == Padded(a, ndim)
           right == Padded(b, ndim)
       IN IF \A i \in 1..ndim : left[i] = right[i] \/ 1 \in {left[i], right[i]}
            THEN [i \in 1..ndim |-> IF left[i] = 1 THEN right[i] ELSE left[i]]
            ELSE Error

Core(lead, rows, columns) == IF lead = Error THEN Error ELSE lead \o <<rows, columns>>

Swap(a) == IF a = Error THEN Error ELSE Lead(a) \o <<Dim(a, 1), Dim(a, 2)>>

MatMul(a, b) ==
  IF Error \in {a, b} THEN Error
  ELSE IF Dim(a, 1) # Dim(b, 2) THEN Error
  ELSE Core(Broadcast(Lead(a), Lead(b)), Dim(a, 2), Dim(b, 1))

-----------------------------------------------------------------------------
(* The forward pass.                                                       *)
GroupsHeads(c) ==
  /\ Len(c.q) >= 3 /\ Len(c.k) >= 3 /\ Len(c.v) >= 3
  /\ Dim(c.k, 3) = Dim(c.v, 3)
  /\ Dim(c.q, 3) # 0 /\ Dim(c.k, 3) # 0 /\ Dim(c.q, 3) % Dim(c.k, 3) = 0

Validates(c) ==
  /\ ~(c.causal /\ c.mask # Nil)
  /\ Len(c.q) >= 2 /\ Len(c.k) >= 2 /\ Len(c.v) >= 2
  /\ c.gqa => GroupsHeads(c)
  /\ Dim(c.q, 1) = Dim(c.k, 1) /\ Dim(c.k, 2) = Dim(c.v, 2)

Repeats(c) == IF c.gqa THEN Dim(c.q, 3) \div Dim(c.k, 3) ELSE 1

(* Key or value with its heads repeated to match the query's.              *)
Expanded(c, shape) ==
  IF c.gqa THEN [shape EXCEPT ![Len(shape) - 2] = @ * Repeats(c)] ELSE shape

Scores(c) == MatMul(c.q, Swap(Expanded(c, c.k)))
Masked(c) == IF c.mask = Nil THEN Scores(c) ELSE Broadcast(Scores(c), c.mask)

(* The maximum over no keys raises, unless there is no row to take it of.  *)
WeightsShape(c) ==
  LET scores == Masked(c) IN
  IF scores = Error THEN Error
  ELSE IF Dim(scores, 1) = 0 /\ Size(Front(scores)) # 0 THEN Error ELSE scores

Forward(c) ==
  IF c.special = "dropout" \/ ~Validates(c) THEN Error
  ELSE MatMul(WeightsShape(c), Expanded(c, c.v))

-----------------------------------------------------------------------------
(* The backward pass, given the shape of the upstream gradient.            *)

(* Mutant: takes the batch axes of the weights for those of the output.    *)
ExpectedFromWeights(weights, value) ==
  IF weights = Error THEN Error ELSE Core(Lead(weights), Dim(weights, 2), Dim(value, 1))

ExpectedOutputShape(weights, value) ==
  IF weights = Error THEN Error
  ELSE Core(Broadcast(Lead(weights), Lead(value)), Dim(weights, 2), Dim(value, 1))

SumToShape(grad, shape) ==
  IF grad = Error THEN Error
  ELSE LET kept == SubSeq(grad, Len(grad) - Len(shape) + 1, Len(grad))
       IN [i \in 1..Len(shape) |-> IF shape[i] = 1 THEN 1 ELSE kept[i]]

(* The reshape to (heads, repeats) raises when it does not come out even,  *)
(* and is left out when nothing was repeated.                              *)
FoldGqaHeads(grad, heads) ==
  IF grad = Error THEN Error
  ELSE LET repeats == Dim(grad, 3) \div heads
       IN IF repeats = 1 THEN grad
          ELSE IF repeats * heads # Dim(grad, 3) THEN Error
          ELSE [grad EXCEPT ![Len(grad) - 2] = heads]

Folded(c, grad, shape) == IF c.gqa THEN FoldGqaHeads(grad, Dim(shape, 3)) ELSE grad

(* <<dq, dk, dv>>, or Error.                                               *)
Backward(c, g) ==
  LET weights == WeightsShape(c)
      k == Expanded(c, c.k)
      v == Expanded(c, c.v)
  IN
  IF ~Validates(c) THEN Error
  ELSE IF weights = Error \/ g # ExpectedOutputShape(weights, v) THEN Error
  ELSE LET gradValue == MatMul(Swap(weights), g)
           gradWeights == MatMul(g, Swap(v))
           gradScores == Broadcast(weights, gradWeights)
           gradQuery == MatMul(gradScores, k)
           gradKey == MatMul(Swap(gradScores), c.q)
           grads == <<SumToShape(gradQuery, c.q),
                      SumToShape(Folded(c, gradKey, c.k), c.k),
                      SumToShape(Folded(c, gradValue, c.v), c.v)>>
       IN IF Error \in ToSet(grads) THEN Error ELSE grads

-----------------------------------------------------------------------------
(* Which slice of an input a slice of the output was computed from, and    *)
(* which slice its part of the gradient is added to.  A slice is given by  *)
(* its index on each leading axis.                                         *)
Slices(lead) == {f \in [1..Len(lead) -> 0..Max({0} \cup ToSet(lead))] :
                   \A i \in DOMAIN f : f[i] < lead[i]}

(* Drops the axes an input does not have, and those it has one slice on.   *)
Onto(f, lead) ==
  [i \in 1..Len(lead) |-> IF lead[i] = 1 THEN 0 ELSE f[Len(f) - Len(lead) + i]]

HeadDivided(f, by) == [f EXCEPT ![Len(f)] = @ \div by]

(* np.repeat puts the copies of a head next to each other.                 *)
UsedSlice(c, shape, f) ==
  LET slice == Onto(f, Lead(Expanded(c, shape)))
  IN IF c.gqa THEN HeadDivided(slice, Repeats(c)) ELSE slice

(* Mutant: reshapes to (repeats, heads), as for tiled heads.               *)
FoldedTiled(f, heads, groups) == [f EXCEPT ![Len(f)] = @ % groups]

(* reshape to (groups, heads / groups) and sum over the second.            *)
FoldedSlice(f, heads, groups) == HeadDivided(f, heads \div groups)

LandingSlice(c, shape, f) ==
  Onto(IF c.gqa THEN FoldedSlice(f, Dim(Forward(c), 3), Dim(shape, 3)) ELSE f, Lead(shape))

-----------------------------------------------------------------------------
(* The Vulkan adapter: the calls it takes, as one stack of slices.         *)

(* Mutant: compares the number of leading axes only.                       *)
CoversAnyLead(c) ==
  /\ c.special = "none" /\ c.mask = Nil /\ ~c.gqa
  /\ Len(c.q) >= 2 /\ Len(c.k) = Len(c.q) /\ Len(c.v) = Len(c.q)
  /\ Dim(c.k, 1) = Dim(c.q, 1) /\ Dim(c.v, 1) = Dim(c.q, 1)
  /\ Dim(c.k, 2) = Dim(c.v, 2)
  /\ 0 \notin {Dim(c.q, 2), Dim(c.k, 2), Dim(c.q, 1), Size(c.q)}

Covers(c) ==
  /\ c.special = "none" /\ c.mask = Nil /\ ~c.gqa
  /\ Len(c.q) >= 2 /\ Len(c.k) >= 2 /\ Len(c.v) >= 2
  /\ Lead(c.k) = Lead(c.q) /\ Lead(c.v) = Lead(c.q)
  /\ Dim(c.k, 1) = Dim(c.q, 1) /\ Dim(c.v, 1) = Dim(c.q, 1)
  /\ Dim(c.k, 2) = Dim(c.v, 2)
  /\ 0 \notin {Dim(c.q, 2), Dim(c.k, 2), Dim(c.q, 1), Size(c.q)}

KernelShape(c) == Lead(c.q) \o <<Dim(c.q, 2), Dim(c.q, 1)>>

-----------------------------------------------------------------------------
(* How the shape of the query steers a call: the GEMM slices that make the *)
(* fused backend pin BLAS, and what makes "auto" choose it.                *)
SliceCount(shape) == IF Len(shape) > 2 THEN Size(Lead(shape)) ELSE 1
IsBatched(shape) == Len(shape) >= 3 /\ Size(Lead(shape)) > 1
=============================================================================
