---------------------------- MODULE OnlineSoftmax ----------------------------
(***************************************************************************)
(* The arithmetic of an online softmax, exactly.  A score is an integer or *)
(* -inf; exp(score - shift) is kept as its exponent, so that rescaling by  *)
(* exp(old - new) is an addition and a weight of zero is the exponent -inf. *)
(* A running sum, or one column of the accumulator, is the sequence of the *)
(* terms added to it: <<key, exponent>> stands for exp(exponent) times the *)
(* value of that key.  Terms are never merged, so one that is added twice, *)
(* or under a shift of its own, shows.                                     *)
(***************************************************************************)
EXTENDS Integers, SequencesExt

CONSTANTS NegInf, NaN,
          Pad,       \* the zero a tile is filled up with past the end of a sequence
          Underflow  \* exp of anything below -Underflow is a zero

ASSUME SoftmaxAssumption ==
  /\ NegInf # NaN /\ Pad \notin {NegInf, NaN} /\ {NegInf, NaN, Pad} \cap Int = {}
  /\ Underflow \in Nat \ {0}

Largest(S) == IF S \ {NegInf, NaN} = {} THEN NegInf ELSE Max(S \ {NegInf, NaN})

Flushed(exponent) == IF exponent < -Underflow THEN NegInf ELSE exponent

(* exp(a - b), where -inf - -inf is a NaN.                                 *)
Minus(a, b) ==
  IF a = NaN \/ b = NaN \/ (a = NegInf /\ b = NegInf) THEN NaN
  ELSE IF a = NegInf THEN NegInf ELSE Flushed(a - b)

(* exp(a) * exp(b).                                                        *)
Times(a, b) ==
  IF NaN \in {a, b} THEN NaN ELSE IF NegInf \in {a, b} THEN NegInf ELSE Flushed(a + b)

Rescaled(terms, factor) ==
  [t \in DOMAIN terms |-> <<terms[t][1], Times(terms[t][2], factor)>>]

Zero == <<>>

(* The terms that are not zero, where they were added.                     *)
Present(terms) == Restrict(terms, {t \in DOMAIN terms : terms[t][2] # NegInf})

IsPositive(terms) ==
  DOMAIN Present(terms) # {} /\ \A t \in DOMAIN terms : terms[t][2] # NaN

(* terms / denom where denom > 0, and exactly zero elsewhere.              *)
Divided(terms, denom) ==
  IF IsPositive(denom) THEN <<Present(terms), Present(denom)>> ELSE Zero

(* A quotient is the softmax of a row of scores over a set of keys: every  *)
(* key once above and once below the line, all under one shift, but for    *)
(* those whose weight underflows when shifted by the maximum of the row.   *)
IsSoftmax(quotient, row, keys) ==
  LET finite == {key \in keys : row[key] # NegInf}
      live == {key \in finite : \A other \in finite : row[other] - row[key] <= Underflow}
  IN
  IF live = {} THEN quotient = Zero
  ELSE /\ quotient # Zero
       /\ \E shift \in {row[term[1]] - term[2] : term \in Range(quotient[2])} :
            \A side \in 1..2 :
              /\ IsInjective(quotient[side])
              /\ Range(quotient[side]) = {<<key, row[key] - shift>> : key \in live}
=============================================================================
