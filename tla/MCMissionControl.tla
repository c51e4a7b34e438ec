-------------------------- MODULE MCMissionControl --------------------------
(* MissionControl with small constants for TLC.                            *)
EXTENDS MissionControl, TLC

Symmetry ==
  Permutations(Workers) \cup Permutations(Pages)
  \cup Permutations(Tries)
=============================================================================
