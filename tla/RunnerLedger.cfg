SPECIFICATION Spec
CONSTANTS
  Workers = {w1, w2}
  Reconcilers = {}
  Versions = {1, 2, 3, 4, 5}
  MaxDeliveries = 3
  MaxLogicalSends = 2
  MaxAttempts = 2
  MaxFaults = 2
  Faults = {"expiry", "crash", "noAnswer", "refused", "redeliver"}
SYMMETRY Symmetry
INVARIANTS SendsWithinBudget AcceptedOnce
PROPERTIES ImplementsLedger NoLateCall
CHECK_DEADLOCK FALSE
