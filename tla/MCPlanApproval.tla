--------------------------- MODULE MCPlanApproval ---------------------------
(* PlanApproval with small constants for TLC.                              *)
EXTENDS PlanApproval, TLC

Symmetry == Permutations(Missions) \cup Permutations(Requests)
=============================================================================
