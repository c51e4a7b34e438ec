----------------------------- MODULE MCPlanTerms -----------------------------
(* PlanTerms with small constants for TLC.                                 *)
EXTENDS PlanTerms
=============================================================================
