-------------------------- MODULE MCMerchantCallback --------------------------
(* MerchantCallback with small constants for TLC.                          *)
EXTENDS MerchantCallback, TLC

Symmetry == Permutations(Callbacks) \cup Permutations(Requests)
=============================================================================
