SPECIFICATION Spec
CONSTANTS
  Workers = {w1, w2}
  Reconcilers = {cron}
  Versions = {1, 2, 3, 4}
  MaxDeliveries = 3
  MaxLogicalSends = 1
  MaxAttempts = 2
  MaxFaults = 1
  Faults = {"reply", "crash", "storeError", "lostAck", "sendBudget", "refused", "noAnswer", "malformed", "dispatch", "redeliver", "skew"}
SYMMETRY Symmetry
INVARIANTS TypeOK RunnerInvariant ExclusiveReservation WakeOrAbandoned
CHECK_DEADLOCK FALSE
