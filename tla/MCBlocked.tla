------------------------------ MODULE MCBlocked ------------------------------
(* Score rows for Blocked.  The finite scores rise, fall and repeat across   *)
(* the key tiles, some of them further apart than a weight survives; and    *)
(* overflowed ones take up no tile, the first, the last or all of them.      *)
(* All are moderate: where they are not the two algorithms do differ (README). *)
EXTENDS Blocked

Row(seq) == [key \in Keys |-> seq[key + 1]]

MCScoreRows ==
  {Row(<<2, 5, 20, 3, 9>>), Row(<<9, 7, 7, 2, -5>>), Row(<<0, 8, 16, 7, 12>>),
   Row(<<-4, -4, -9, -9, -1>>), Row(<<NegInf, NegInf, -3, 5, 2>>),
   Row(<<5, NegInf, 2, 8, NegInf>>), Row(<<NegInf, NegInf, NegInf, NegInf, NegInf>>)}

ASSUME AllModerate == \A row \in MCScoreRows : Moderate(row)
=============================================================================
