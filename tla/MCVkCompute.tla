----------------------------- MODULE MCVkCompute -----------------------------
(* Symmetry for VkCompute: no definition tells two pipeline keys apart.      *)
EXTENDS VkCompute, TLC

KeySymmetry == Permutations(Keys)
=============================================================================
