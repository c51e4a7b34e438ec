--------------------------- MODULE MCFollowThrough ---------------------------
(* FollowThrough with small constants for TLC.                             *)
EXTENDS FollowThrough, TLC

Symmetry == Permutations(Workers) \cup Permutations(Readers)
=============================================================================
