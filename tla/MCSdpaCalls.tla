----------------------------- MODULE MCSdpaCalls -----------------------------
(* Calls for SdpaCalls, in families: every way three inputs share, miss or   *)
(* broadcast their leading axes; grouped heads; masks of every rank; and the *)
(* calls that are refused or have an empty axis.                             *)
EXTENDS SdpaCalls

Plain == [q |-> <<2, 3>>, k |-> <<2, 3>>, v |-> <<2, 3>>, mask |-> Nil,
          causal |-> FALSE, gqa |-> FALSE, special |-> "none"]

Of(q, k, v) == [Plain EXCEPT !.q = q, !.k = k, !.v = v]

Leads == {<<>>, <<2>>, <<2, 1>>, <<1, 2>>}

Broadcasts ==
  {Of(q \o <<2, 2>>, k \o <<3, 2>>, v \o <<3, 2>>) : q \in Leads, k \in Leads, v \in Leads}

Stacks == {[Of(lead \o <<2, 2>>, lead \o <<3, 2>>, lead \o <<3, 2>>) EXCEPT !.causal = causal] :
             lead \in Leads, causal \in BOOLEAN}

Grouped ==
  {[Of(q \o <<2, 2>>, kv \o <<3, 2>>, kv \o <<3, 1>>) EXCEPT !.gqa = TRUE] :
     q \in {<<4>>, <<2, 4>>, <<1, 4>>, <<3>>}, kv \in {<<>>, <<1>>, <<2>>, <<4>>, <<2, 2>>, <<1, 2>>}}

MaskShapes == {<<3>>, <<1>>, <<2, 3>>, <<2, 1>>, <<1, 3>>, <<4, 1, 1>>, <<2, 1, 2, 3>>}

MaskedCalls ==
  {[Of(q \o <<2, 2>>, <<3, 2>>, <<3, 1>>) EXCEPT !.mask = mask] :
     q \in {<<>>, <<4>>}, mask \in MaskShapes}
  \cup {[Of(<<1, 2, 2>>, <<1, 3, 2>>, <<1, 3, 1>>) EXCEPT !.mask = mask, !.gqa = gqa] :
          mask \in MaskShapes, gqa \in BOOLEAN}

Odd ==
  {[Plain EXCEPT !.special = "dropout"], [Plain EXCEPT !.special = "other"],
   [Plain EXCEPT !.mask = <<2, 2>>, !.causal = TRUE], [Plain EXCEPT !.q = <<3>>],
   [Plain EXCEPT !.k = <<2, 4>>], [Plain EXCEPT !.v = <<1, 3>>],
   Of(<<2, 2>>, <<0, 2>>, <<0, 2>>), Of(<<0, 2>>, <<0, 2>>, <<0, 2>>), Of(<<0, 2>>, <<3, 2>>, <<3, 2>>),
   Of(<<0, 2, 2>>, <<0, 3, 2>>, <<0, 3, 2>>), Of(<<0, 2, 2>>, <<1, 3, 2>>, <<3, 2>>)}

(* Nothing set, or one of the two variables.                                 *)
MCEnvironments ==
  {[variable \in ThreadVariables |-> Unset],
   [variable \in ThreadVariables |-> IF variable = "OMP_NUM_THREADS" THEN 2 ELSE Unset]}

MCMeasured == {Of(<<1, 2, 2, 2>>, <<1, 2, 2, 2>>, <<1, 2, 2, 2>>), Of(<<1, 1, 2, 2>>, <<1, 1, 2, 2>>, <<1, 1, 2, 2>>)}

MCCalls == Broadcasts \cup Stacks \cup Grouped \cup MaskedCalls \cup Odd \cup MCMeasured
=============================================================================
