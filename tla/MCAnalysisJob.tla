---------------------------- MODULE MCAnalysisJob ----------------------------
(* AnalysisJob with small constants for TLC.                               *)
EXTENDS AnalysisJob, TLC

Symmetry == Permutations(Uploads) \cup Permutations(Retries) \cup Permutations(Workers)
=============================================================================
