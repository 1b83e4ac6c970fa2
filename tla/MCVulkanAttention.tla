-------------------------- MODULE MCVulkanAttention --------------------------
(* Values for the constants of VulkanAttention.  Calls: "small" and "large"  *)
(* run on the device with different tile shapes and buffer sizes, "misfit"   *)
(* has no tile shape that fits, "masked" is not covered by the kernel.  The  *)
(* limits a call is planned against change its tile shape: the second device *)
(* reports narrower ones than the others.                                    *)
EXTENDS VulkanAttention

MCData == {"small", "large", "misfit", "masked"}
MCTwo  == {"small", "large"}
MCOne  == {"large"}
MCCovered == Data \ {"masked"}
MCKeys == {"k16", "k32"}

MCQBytes == [r \in Data |-> IF r = "small" THEN 1 ELSE 2]
MCKBytes == [r \in Data |-> 1]

MCLimits    == {"floor", "wide", "narrow", "given"}
MCReports   == [c \in Contexts |-> IF c = 2 THEN "narrow" ELSE "wide"]
MCMayGive   == {Nil, "given"}
MCGivesNone == {Nil}

MCTileKey ==
  [l \in Limits |->
    [r \in Data |-> CASE r \in {"misfit", "masked"} -> Nil
                      [] l \in {"floor", "narrow"}  -> "k16"
                      [] l = "given"                -> "k32"
                      [] OTHER                      -> IF r = "small" THEN "k16" ELSE "k32"]]
=============================================================================
