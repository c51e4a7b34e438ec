--------------------------- MODULE MCMissionRunner ---------------------------
(* MissionRunner with small constants for TLC.                             *)
EXTENDS MissionRunner, TLC

Symmetry == Permutations(Workers)
=============================================================================
