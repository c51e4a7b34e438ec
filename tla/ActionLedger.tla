---------------------------- MODULE ActionLedger ----------------------------
(***************************************************************************)
(* What the runtime promises about the external actions of an approved     *)
(* mission, whatever fails below it: actions are performed in the order of *)
(* their ordinals, none is skipped, and none beyond the approved number of *)
(* sends is ever performed.  MissionRunner implements this specification.  *)
(***************************************************************************)
EXTENDS Naturals

CONSTANT MaxLogicalSends

VARIABLES
  next,   \* the ordinal the mission stands at
  done    \* the ordinals whose action the provider has accepted

vars == <<next, done>>

Init == next = 1 /\ done = {}

Perform ==
  /\ next <= MaxLogicalSends
  /\ next \notin done
  /\ done' = done \cup {next}
  /\ UNCHANGED next

Advance ==
  /\ next \in done
  /\ next' = next + 1
  /\ UNCHANGED done

Next == Perform \/ Advance

Spec == Init /\ [][Next]_vars
=============================================================================
