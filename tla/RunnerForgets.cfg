SPECIFICATION Spec
CONSTANTS
  Workers = {w1, w2}
  Reconcilers = {}
  Versions = {1, 2, 3, 4, 5}
  MaxDeliveries = 5
  MaxLogicalSends = 1
  MaxAttempts = 2
  MaxFaults = 1
  Faults = {"malformed"}
INVARIANT AcceptanceRemembered
CHECK_DEADLOCK FALSE
