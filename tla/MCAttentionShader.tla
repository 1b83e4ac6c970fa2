-------------------------- MODULE MCAttentionShader --------------------------
(* Score rows for AttentionShader, chosen as in MCBlocked.                   *)
EXTENDS AttentionShader

MCRow(seq) == [key \in Keys |-> seq[key + 1]]

MCScoreRows ==
  {MCRow(<<2, 5, 17>>), MCRow(<<-1, -4, -15>>), MCRow(<<NegInf, NegInf, 3>>),
   MCRow(<<NegInf, NegInf, NegInf>>)}
=============================================================================
