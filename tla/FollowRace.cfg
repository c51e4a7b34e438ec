SPECIFICATION Spec
CONSTANTS
  Workers = {w1}
  Reconcilers = {}
  Readers = {r1, r2}
  Emails = {e1, b1}
  Strangers = {}
  Bounces = {b1}
  Versions = {1, 2, 3, 4, 5}
  MaxDeliveries = 2
  MaxLogicalSends = 1
  MaxAttempts = 2
  MaxFaults = 1
  Faults = {"redeliver"}
INVARIANT DoneIsEvidenced
PROPERTIES CompletionFinal HaltHolds
SYMMETRY Symmetry
CHECK_DEADLOCK FALSE
